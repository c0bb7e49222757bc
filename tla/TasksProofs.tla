----------------------------- MODULE TasksProofs -----------------------------
(* What TLAPS proves of Tasks, for every set of requests, roots and keys   *)
(* and every bound: types, work that survives, no task that a failure      *)
(* leaves half made, and agents that keep their worktrees.                 *)
EXTENDS Tasks, TLAPS, WellFoundedInduction

(* A set of naturals has a least element.                                  *)
LEMMA Least == ASSUME NEW S \in SUBSET Nat, S # {} PROVE \E x \in S : \A y \in S : x <= y
<1>1. PICK x \in S : \A y \in S : <<y, x>> \notin OpToRel(<, Nat)
  BY NatLessThanWellFounded, WFMin
<1>2. \A y \in S : ~(y < x)  BY <1>1 DEF OpToRel
<1>. QED  BY <1>2

(* A bounded one has a greatest.                                           *)
LEMMA Greatest ==
  ASSUME NEW n \in Nat, NEW S \in SUBSET (0 .. n), S # {}
  PROVE  Max(S) \in S /\ \A y \in S : y <= Max(S)
<1> DEFINE T == {n - x : x \in S}
<1>1. T \in SUBSET Nat /\ T # {}
  <2>1. \A x \in S : n - x \in Nat  OBVIOUS
  <2>2. PICK x \in S : TRUE  OBVIOUS
  <2>3. n - x \in T  OBVIOUS
  <2>. QED  BY <2>1, <2>3
<1>2. PICK z \in T : \A y \in T : z <= y
  <2> HIDE DEF T
  <2>. QED  BY <1>1, Least
<1>3. PICK x \in S : z = n - x  OBVIOUS
<1>4. \A y \in S : z <= n - y  BY <1>2
<1>5. \A y \in S : x >= y  BY <1>3, <1>4
<1>. QED  BY <1>5 DEF Max

(* What the constants are.                                                 *)
LEMMA Bounds == /\ MaxTask \in Nat /\ MaxCreates \in Nat /\ MaxMishaps \in Nat
                /\ NoPath \notin Path
BY TasksAssumption

(* The id that is given out is one no task has.                            *)
LEMMA NextIdIsFree == NextId \in Nat \ {0} /\ \A i \in Id : Exists(i) => i < NextId
<1> DEFINE S == {0} \cup {i \in Id : Exists(i)}
<1>1. S \in SUBSET (0 .. MaxTask) /\ S # {}
  <2>1. 0 \in S /\ \A x \in S : x = 0 \/ x \in Id  OBVIOUS
  <2> HIDE DEF S
  <2>2. \A x \in S : x \in 0 .. MaxTask  BY <2>1, Bounds DEF Id
  <2>. QED  BY <2>1, <2>2
<1>2. NextId = 1 + Max(S)  BY DEF NextId
<1> HIDE DEF S
<1>3. Max(S) \in S /\ \A y \in S : y <= Max(S)  BY <1>1, Bounds, Greatest
<1>4. Max(S) \in Nat
  <2>1. Max(S) \in 0 .. MaxTask  BY <1>1, <1>3
  <2>. QED  BY <2>1, Bounds
<1>5. \A i \in Id : Exists(i) => i \in S /\ i \in Nat  BY Bounds DEF S, Id
<1>. QED  BY <1>2, <1>3, <1>4, <1>5

-----------------------------------------------------------------------------
(* The invariant                                                           *)

(* Where a task of this id can have its worktree, or none.                 *)
PathsOf(i) == {NoPath} \cup (Root \X {i})

(* What a request holds at each of its steps.                              *)
Creating == {"insert", "add", "attach", "undo", "unmake"}
Fits(r) ==
  /\ r.step = "free" => r = Free
  /\ r.step = "insert" => r.id = 0
  /\ r.step \notin {"free", "insert"} => r.id \in Id
  /\ r.step \in Creating <=> r.op = "create"
  /\ r.step = "launch" <=> r.op = "start"
  /\ r.step = "dirty" => r.op = "cleanup"
  /\ r.step \in {"add", "attach", "undo", "unmake", "dirty", "remove"} => r.path # NoPath
  /\ r.path \in PathsOf(r.id)

(* A request that may remove the worktree of the i-th task.                *)
Threatens(r, i) == r.step \notin {"free", "insert"} /\ r.op # "start" /\ r.id = i

StoreOK ==
  /\ project \in BOOLEAN /\ root \in Root
  /\ task \in [Id -> TaskRow \cup {NoTask}]
  /\ live \subseteq {i \in Id : Exists(i)}
  /\ \A i \in Id : Exists(i) => task[i].tree \in PathsOf(i)
  /\ ~project => \A i \in Id : task[i] = NoTask
DiskOK ==
  /\ tree \in [Path -> Tree \cup {NoTree}]
  /\ branch \in [Id -> Branch \cup {NoBranch}]
CountOK == creates \in 0 .. MaxCreates /\ mishaps \in 0 .. MaxMishaps
AgentsOK ==
  /\ agent \in [Id -> Agent]
  /\ \A i \in Id : agent[i].at \in PathsOf(i)
JobsOK ==
  /\ req \in [Request -> RequestState]
  /\ \A c \in Request : Fits(req[c])

(* Whoever may remove the tree of a live agent was there before the agent. *)
PastOK == \A c \in Request, i \in Id :
  Threatens(req[c], i) /\ agent[i].runs /\ i \in live => c \in agent[i].past

IInv == StoreOK /\ DiskOK /\ CountOK /\ AgentsOK /\ JobsOK /\ PastOK

-----------------------------------------------------------------------------
(* Requests                                                                *)

LEMMA FreeFits == Free \in RequestState /\ Fits(Free)
BY DEF Free, RequestState, Fits, PathsOf, Creating

(* A path of one id's is nobody else's.                                    *)
LEMMA PathsApart ==
  ASSUME NEW i \in Id, NEW j, NEW p, p \in PathsOf(i), p \in PathsOf(j), p # NoPath
  PROVE  i = j /\ p \in Path /\ p[2] = i
BY DEF PathsOf, Path

(* A request goes on, and nobody else; nothing becomes live.               *)
LEMMA RequestGoes ==
  ASSUME IInv, NEW c \in Request, NEW r \in RequestState, Fits(r),
         req' = [req EXCEPT ![c] = r], live' \subseteq live,
         r.step \notin {"free", "insert"} /\ r.op # "start" =>
           r.id \notin live \/ Threatens(req[c], r.id),
         UNCHANGED agent \/ (agent' = Forget(c, agent) /\ r = Free)
  PROVE  JobsOK' /\ AgentsOK' /\ PastOK'
<1>1. req \in [Request -> RequestState] /\ agent \in [Id -> Agent]
  BY DEF IInv, JobsOK, AgentsOK
<1>2. req' \in [Request -> RequestState]
      /\ \A d \in Request : req'[d] = IF d = c THEN r ELSE req[d]
  BY <1>1
<1>3. JobsOK'  BY <1>2 DEF IInv, JobsOK
<1>4. ASSUME NEW i \in Id
      PROVE  /\ agent'[i] \in Agent /\ agent'[i].at = agent[i].at /\ agent'[i].runs = agent[i].runs
             /\ \A d \in Request : d \in agent[i].past /\ ~(d = c /\ r = Free) => d \in agent'[i].past
  <2>1. agent[i] \in Agent  BY <1>1
  <2>2. CASE UNCHANGED agent  BY <2>1, <2>2
  <2>3. CASE agent' = Forget(c, agent) /\ r = Free
    <3>1. agent'[i] = [agent[i] EXCEPT !.past = @ \ {c}]  BY <2>3 DEF Forget
    <3>. QED  BY <2>1, <2>3, <3>1 DEF Agent
  <2>. QED  BY <2>2, <2>3
<1>5. agent' \in [Id -> Agent]
  <2>1. CASE UNCHANGED agent  BY <1>1, <2>1
  <2>2. CASE agent' = Forget(c, agent)
    <3>1. agent' = [i \in Id |-> agent'[i]]  BY <2>2 DEF Forget
    <3>. QED  BY <1>4, <3>1
  <2>. QED  BY <2>1, <2>2
<1>6. AgentsOK'  BY <1>4, <1>5 DEF IInv, AgentsOK
<1>7. ASSUME NEW d \in Request, NEW i \in Id, Threatens(req'[d], i), agent'[i].runs, i \in live'
      PROVE  d \in agent'[i].past
  <2>1. agent[i].runs /\ i \in live  BY <1>4, <1>7
  <2>2. CASE d # c
    BY <1>2, <1>4, <1>7, <2>1, <2>2 DEF IInv, PastOK
  <2>3. CASE d = c
    <3>1. Threatens(r, i) /\ r # Free  BY <1>2, <1>7, <2>3 DEF Threatens, Free
    <3>2. Threatens(req[c], i)  BY <2>1, <3>1 DEF Threatens
    <3>. QED  BY <1>4, <2>1, <2>3, <3>1, <3>2 DEF IInv, PastOK
  <2>. QED  BY <2>2, <2>3
<1>8. PastOK'  BY <1>7 DEF PastOK
<1>. QED  BY <1>3, <1>6, <1>8

(* A request ends.                                                         *)
LEMMA RequestLeaves ==
  ASSUME IInv, NEW c \in Request, Leave(c), live' \subseteq live
  PROVE  JobsOK' /\ AgentsOK' /\ PastOK'
<1>1. req' = [req EXCEPT ![c] = Free] /\ agent' = Forget(c, agent)  BY DEF Leave, Done
<1>. QED  BY <1>1, FreeFits, RequestGoes DEF Free

(* A request goes on to a step that suits what it holds.                   *)
LEMMA RequestSteps ==
  ASSUME IInv, NEW c \in Request, NEW step,
         \/ step = "remove" /\ At(c, "dirty")
         \/ step \in {"attach", "undo"} /\ At(c, "add")
         \/ step = "undo" /\ At(c, "attach"),
         Step(c, step), live' \subseteq live, UNCHANGED agent
  PROVE  JobsOK' /\ AgentsOK' /\ PastOK'
<1> DEFINE r == [req[c] EXCEPT !.step = step]
<1>1. req \in [Request -> RequestState] /\ Fits(req[c])  BY DEF IInv, JobsOK
<1>2. r \in RequestState /\ r.step = step /\ r.op = req[c].op /\ r.id = req[c].id /\ r.path = req[c].path
  BY <1>1 DEF RequestState, At
<1>3. req' = [req EXCEPT ![c] = r]  BY <1>1 DEF Step
<1> HIDE DEF r
<1>4. Fits(r) /\ Threatens(req[c], r.id) /\ r # Free
  BY <1>1, <1>2 DEF Fits, Threatens, Creating, At, Free
<1>. QED  BY <1>2, <1>3, <1>4, RequestGoes

-----------------------------------------------------------------------------
(* The store                                                               *)

(* What leaves a part of the state alone keeps its part of the invariant.  *)
LEMMA SameOK ==
  ASSUME IInv
  PROVE  /\ UNCHANGED store => StoreOK'
         /\ UNCHANGED disk => DiskOK'
         /\ UNCHANGED <<creates, mishaps>> => CountOK'
         /\ UNCHANGED creates /\ Mishap => CountOK'
         /\ UNCHANGED <<agent, req>> /\ live' \subseteq live => AgentsOK' /\ JobsOK' /\ PastOK'
<1>1. UNCHANGED store => StoreOK'  BY DEF IInv, store, StoreOK, Exists
<1>2. UNCHANGED disk => DiskOK'  BY DEF IInv, disk, DiskOK
<1>3. UNCHANGED creates /\ (UNCHANGED mishaps \/ Mishap) => CountOK'
  BY Bounds DEF IInv, CountOK, Mishap
<1>4. UNCHANGED <<agent, req>> /\ live' \subseteq live => AgentsOK' /\ JobsOK' /\ PastOK'
  BY DEF IInv, AgentsOK, JobsOK, PastOK
<1>. QED  BY <1>1, <1>2, <1>3, <1>4

(* A row goes, whichever it is.                                            *)
LEMMA DropRowOK ==
  ASSUME IInv, NEW i, DropRow(i), UNCHANGED <<project, root>>
  PROVE  StoreOK' /\ live' \subseteq live
<1>1. StoreOK /\ task' = [task EXCEPT ![i] = NoTask] /\ live' = live \ {i}
  BY DEF IInv, DropRow
<1>2. \A j \in Id : task'[j] = IF j = i THEN NoTask ELSE task[j]
  BY <1>1 DEF StoreOK
<1>3. task' \in [Id -> TaskRow \cup {NoTask}]  BY <1>1, <1>2 DEF StoreOK
<1>. QED  BY <1>1, <1>2, <1>3 DEF StoreOK, Exists

(* A row changes and keeps its place.                                      *)
LEMMA RowChanges ==
  ASSUME IInv, NEW i \in Id, NEW row \in TaskRow, row.tree \in PathsOf(i), project,
         task' = [task EXCEPT ![i] = row], UNCHANGED <<project, root, live>>, row # NoTask
  PROVE  StoreOK'
<1>1. StoreOK  BY DEF IInv
<1>2. \A j \in Id : task'[j] = IF j = i THEN row ELSE task[j]  BY <1>1 DEF StoreOK
<1>3. task' \in [Id -> TaskRow \cup {NoTask}]  BY <1>1, <1>2 DEF StoreOK
<1>4. \A j \in Id : Exists(j) => Exists(j)'  BY <1>2 DEF Exists
<1>. QED  BY <1>1, <1>2, <1>3, <1>4 DEF StoreOK, Exists

(* What is known of a row and of the request that is about it.             *)
LEMMA RowIs ==
  ASSUME IInv, NEW i \in Id, Exists(i)
  PROVE  /\ task[i] \in TaskRow /\ task[i].tree \in PathsOf(i) /\ project
         /\ task[i].serial \in Serial /\ task[i].tree \in Path \cup {NoPath}
<1>1. task[i] \in TaskRow /\ task[i].tree \in PathsOf(i) /\ project
  BY DEF IInv, StoreOK, Exists
<1>. QED  BY <1>1 DEF TaskRow

LEMMA JobIs ==
  ASSUME IInv, NEW c \in Request
  PROVE  req[c] \in RequestState /\ Fits(req[c]) /\ req \in [Request -> RequestState]
BY DEF IInv, JobsOK

LEMMA NoTaskIsNone == NoTask \notin TaskRow
<1>1. \A row \in TaskRow : row.serial # 0  BY Bounds DEF TaskRow, Serial
<1>2. NoTask.serial = 0  BY DEF NoTask
<1>. QED  BY <1>1, <1>2

-----------------------------------------------------------------------------
(* Creating a task                                                         *)

LEMMA CreateOK ==
  ASSUME IInv, NEW c \in Request, NEW new \in Creation, Create(c, new[1], new[2])
  PROVE  IInv'
<1> DEFINE r == [Free EXCEPT !.step = "insert", !.op = "create", !.key = new[1], !.wants = new[2]]
<1>1. new[1] \in Key \cup {NoKey} /\ new[2] \in BOOLEAN  BY TasksAssumption
<1>2. r \in RequestState /\ Fits(r) /\ r.step = "insert"
  BY <1>1 DEF Free, RequestState, Fits, PathsOf, Creating
<1>3. req' = [req EXCEPT ![c] = r] /\ UNCHANGED <<store, agent, disk, creates, mishaps>>
  BY DEF Create
<1> HIDE DEF r
<1>4. JobsOK' /\ AgentsOK' /\ PastOK'  BY <1>2, <1>3, RequestGoes DEF store
<1>. QED  BY <1>3, <1>4, SameOK DEF IInv

(* A creation goes on to make its tree.                                    *)
LEMMA TreeIsAsked ==
  ASSUME NEW r \in RequestState, NEW i \in Id, NEW serial \in Serial, NEW p \in Path
  PROVE  [r EXCEPT !.step = "add", !.id = i, !.serial = serial, !.path = p] \in RequestState
<1>1. [r EXCEPT !.step = "add"] \in RequestState  BY DEF RequestState
<1>2. ASSUME NEW q \in RequestState PROVE [q EXCEPT !.id = i] \in RequestState
  BY DEF RequestState
<1>3. ASSUME NEW q \in RequestState PROVE [q EXCEPT !.serial = serial] \in RequestState
  BY DEF RequestState
<1>4. ASSUME NEW q \in RequestState PROVE [q EXCEPT !.path = p] \in RequestState
  BY DEF RequestState
<1>. QED  BY <1>1, <1>2, <1>3, <1>4

LEMMA InsertOK == ASSUME IInv, NEW c \in Request, Insert(c) PROVE IInv'
<1>1. At(c, "insert") /\ UNCHANGED <<project, root, live>> /\ UNCHANGED disk /\ UNCHANGED mishaps
  BY DEF Insert
<1>2. CASE project /\ InsertRow(c, NextId)
  <2> DEFINE n   == NextId
             row == [serial |-> creates + 1, key |-> req[c].key, wants |-> req[c].wants,
                     tree |-> NoPath, branch |-> "base"]
             r   == [req[c] EXCEPT !.step = "add", !.id = n, !.serial = creates + 1,
                                   !.path = Placement(n)]
  <2>1. n \in Id /\ creates + 1 \in Serial /\ task' = [task EXCEPT ![n] = row] /\ creates' = creates + 1
    BY <1>2 DEF InsertRow
  <2>2. row \in TaskRow /\ row.tree \in PathsOf(n)
    BY <2>1, JobIs DEF RequestState, TaskRow, PathsOf
  <2>3. StoreOK'
    <3>1. row # NoTask  BY <2>2, NoTaskIsNone
    <3> HIDE DEF row, n
    <3>. QED  BY <1>1, <1>2, <2>1, <2>2, <3>1, RowChanges
  <2>4. CountOK'
    <3>1. creates + 1 \in 0 .. MaxCreates  BY <2>1, Bounds DEF Serial
    <3>. QED  BY <1>1, <2>1, <3>1 DEF IInv, CountOK
  <2>5. n \notin live
    <3>1. n \in live => Exists(n) /\ n \in Id  BY DEF IInv, StoreOK
    <3>2. ~(n < n)  BY NextIdIsFree
    <3>. QED  BY <3>1, <3>2, NextIdIsFree
  <2>6. CASE ~req[c].wants
    <3>1. Leave(c)  BY <1>2, <2>6 DEF InsertRow
    <3>. QED  BY <1>1, <2>3, <2>4, <3>1, RequestLeaves, SameOK DEF IInv
  <2>7. CASE req[c].wants
    <3>1. UNCHANGED agent /\ req' = [req EXCEPT ![c].step = "add", ![c].id = n,
                                       ![c].serial = creates + 1, ![c].path = Placement(n)]
      BY <1>2, <2>7 DEF InsertRow
    <3>2. req' = [req EXCEPT ![c] = r]  BY <3>1, JobIs
    <3>3. Placement(n) \in Path /\ Placement(n) \in PathsOf(n) /\ Placement(n) # NoPath
      <4>1. root \in Root  BY DEF IInv, StoreOK
      <4>. QED  BY <2>1, <4>1, Bounds DEF Placement, Path, PathsOf
    <3>4. r \in RequestState
      <4>1. req[c] \in RequestState  BY JobIs
      <4>. QED  BY <2>1, <3>3, <4>1, TreeIsAsked
    <3>5. r.op = req[c].op /\ r.step = "add" /\ r.id = n /\ r.path = Placement(n)
      BY JobIs DEF RequestState
    <3> HIDE DEF r, n
    <3>6. Fits(r)
      <4>1. req[c].op = "create"  BY <1>1, JobIs DEF Fits, At, Creating
      <4>. QED  BY <2>1, <3>3, <3>5, <4>1 DEF Fits, Creating
    <3>7. JobsOK' /\ AgentsOK' /\ PastOK'
      BY <1>1, <2>5, <3>1, <3>2, <3>4, <3>5, <3>6, RequestGoes
    <3>. QED  BY <1>1, <2>3, <2>4, <3>7, SameOK DEF IInv
  <2>. QED  BY <2>6, <2>7
<1>3. CASE Leave(c) /\ UNCHANGED <<task, creates>>
  BY <1>1, <1>3, RequestLeaves, SameOK DEF IInv, store
<1>. QED  BY <1>2, <1>3 DEF Insert

(* Of the disk, a branch is made or a tree grows.                          *)
LEMMA AddOK == ASSUME IInv, NEW c \in Request, Add(c) PROVE IInv'
<1> DEFINE i == req[c].id  p == req[c].path
           made == [branch EXCEPT ![i] = "merged"]  grown == [tree EXCEPT ![p] = "clean"]
<1>1. At(c, "add") /\ UNCHANGED <<store, agent, creates>>
      /\ (UNCHANGED mishaps \/ Mishap) /\ (Step(c, "undo") \/ Step(c, "attach"))
  BY DEF Add
<1>2. branch' \in {branch, made} /\ tree' \in {tree, grown}
  BY DEF Add, disk
<1>3. DiskOK'
  <2>1. made \in [Id -> Branch \cup {NoBranch}] /\ grown \in [Path -> Tree \cup {NoTree}]
    BY DEF IInv, DiskOK, Branch, Tree
  <2>. QED  BY <1>2, <2>1 DEF IInv, DiskOK
<1>4. JobsOK' /\ AgentsOK' /\ PastOK'  BY <1>1, RequestSteps DEF store
<1>. QED  BY <1>1, <1>3, <1>4, SameOK DEF IInv

LEMMA AttachOK == ASSUME IInv, NEW c \in Request, Attach(c) PROVE IInv'
<1>1. At(c, "attach") /\ UNCHANGED <<project, root, live>> /\ UNCHANGED disk
      /\ UNCHANGED <<creates, mishaps>>
  BY DEF Attach
<1>2. CASE Exists(req[c].id) /\ Leave(c)
             /\ task' = [task EXCEPT ![req[c].id].tree = req[c].path, ![req[c].id].branch = "own"]
  <2> DEFINE i   == req[c].id
             row == [task[i] EXCEPT !.tree = req[c].path, !.branch = "own"]
  <2>1. i \in Id /\ req[c].path \in PathsOf(i) /\ req[c].path \in Path \cup {NoPath}
    BY <1>1, JobIs DEF Fits, At, RequestState
  <2>2. task[i] \in TaskRow /\ project  BY <1>2, <2>1, RowIs
  <2>3. row \in TaskRow /\ row.tree = req[c].path  BY <2>1, <2>2 DEF TaskRow
  <2>4. task' = [task EXCEPT ![i] = row]  BY <1>2, <2>1 DEF IInv, StoreOK
  <2>5. row # NoTask  BY <2>3, NoTaskIsNone
  <2> HIDE DEF row, i
  <2>6. StoreOK'  BY <1>1, <2>1, <2>2, <2>3, <2>4, <2>5, RowChanges
  <2>. QED  BY <1>1, <1>2, <2>6, RequestLeaves, SameOK DEF IInv
<1>3. CASE Step(c, "undo") /\ UNCHANGED <<task, agent>>
  BY <1>1, <1>3, RequestSteps, SameOK DEF IInv, store
<1>. QED  BY <1>2, <1>3 DEF Attach

LEMMA UndoOK == ASSUME IInv, NEW c \in Request, Undo(c) PROVE IInv'
<1>1. At(c, "undo") /\ UNCHANGED <<project, root>> /\ UNCHANGED disk /\ UNCHANGED <<creates, mishaps>>
  BY DEF Undo
<1>2. CASE RollBackRow(c)
  <2>1. Leave(c) /\ DropRow(req[c].id)  BY <1>2 DEF RollBackRow
  <2>. QED  BY <1>1, <2>1, DropRowOK, RequestLeaves, SameOK DEF IInv
<1>3. CASE /\ req' = [req EXCEPT ![c].step = "unmake", ![c].path = Placement(req[c].id)]
           /\ UNCHANGED <<task, live, agent>>
  <2> DEFINE r == [req[c] EXCEPT !.step = "unmake", !.path = Placement(req[c].id)]
  <2>1. req' = [req EXCEPT ![c] = r]  BY <1>3, JobIs
  <2>2. req[c].id \in Id /\ req[c].op = "create"  BY <1>1, JobIs DEF Fits, At, Creating
  <2>3. Placement(req[c].id) \in Path /\ Placement(req[c].id) \in PathsOf(req[c].id)
        /\ Placement(req[c].id) # NoPath
    <3>1. root \in Root  BY DEF IInv, StoreOK
    <3>. QED  BY <2>2, <3>1, Bounds DEF Placement, Path, PathsOf
  <2>4. /\ r \in RequestState /\ r.op = req[c].op /\ r.step = "unmake" /\ r.id = req[c].id
        /\ r.path = Placement(req[c].id)
    BY <2>3, JobIs DEF RequestState
  <2> HIDE DEF r
  <2>5. Fits(r) /\ Threatens(req[c], r.id)
    BY <1>1, <2>2, <2>3, <2>4 DEF Fits, Creating, Threatens, At
  <2>6. JobsOK' /\ AgentsOK' /\ PastOK'  BY <1>3, <2>1, <2>4, <2>5, RequestGoes
  <2>. QED  BY <1>1, <1>3, <2>6, SameOK DEF IInv, store
<1>. QED  BY <1>2, <1>3 DEF Undo

(* A tree goes, and perhaps a branch.                                      *)
LEMMA DiskShrinks ==
  ASSUME IInv, NEW p, tree' \in {tree, [tree EXCEPT ![p] = NoTree], Pruned},
         NEW i, UNCHANGED branch \/ Unbranch(i)
  PROVE  DiskOK'
<1>1. tree \in [Path -> Tree \cup {NoTree}] /\ branch \in [Id -> Branch \cup {NoBranch}]
  BY DEF IInv, DiskOK
<1>2. tree' \in [Path -> Tree \cup {NoTree}]  BY <1>1 DEF Pruned
<1>3. branch' \in [Id -> Branch \cup {NoBranch}]  BY <1>1 DEF Unbranch
<1>. QED  BY <1>2, <1>3 DEF DiskOK

LEMMA UnmakeOK == ASSUME IInv, NEW c \in Request, Unmake(c) PROVE IInv'
<1>1. /\ UNCHANGED <<project, root, creates>> /\ (UNCHANGED mishaps \/ Mishap)
      /\ Leave(c) /\ DropRow(req[c].id)
  BY DEF Unmake, RollBackRow
<1>2. tree' \in {tree, [tree EXCEPT ![req[c].path] = NoTree]}
      /\ (UNCHANGED branch \/ Unbranch(req[c].id))
  BY DEF Unmake, disk
<1>3. DiskOK'  BY <1>2, DiskShrinks
<1>. QED  BY <1>1, <1>3, DropRowOK, RequestLeaves, SameOK DEF IInv

-----------------------------------------------------------------------------
(* Removing a worktree                                                     *)

(* What a request holds that has loaded a task.                            *)
LEMMA LoadIs ==
  ASSUME IInv, NEW c, NEW i \in Id, Exists(i), NEW op \in {"delete", "cleanup", "start"}
  PROVE  /\ Load(c, op, i) \in RequestState /\ Load(c, op, i).id = i /\ Load(c, op, i).op = op
         /\ Load(c, op, i).path = task[i].tree /\ task[i].tree \in PathsOf(i)
BY RowIs DEF Load, Free, RequestState

LEMMA DeleteOK == ASSUME IInv, NEW c \in Request, NEW i \in Id, Delete(c, i) PROVE IInv'
<1>1. Exists(i) /\ i \notin live /\ UNCHANGED <<project, root, agent>> /\ UNCHANGED disk
      /\ UNCHANGED <<creates, mishaps>>
  BY DEF Delete
<1>2. CASE DropRow(i) /\ UNCHANGED req
  BY <1>1, <1>2, DropRowOK, SameOK DEF IInv
<1>3. CASE /\ task[i].tree # NoPath /\ UNCHANGED <<task, live>>
           /\ req' = [req EXCEPT ![c] = [Load(c, "delete", i) EXCEPT !.step = "remove", !.force = TRUE]]
  <2> DEFINE r == [Load(c, "delete", i) EXCEPT !.step = "remove", !.force = TRUE]
  <2>1. /\ r \in RequestState /\ r.id = i /\ r.op = "delete" /\ r.step = "remove"
        /\ r.path = task[i].tree /\ r.path \in PathsOf(i)
    <3> DEFINE l == Load(c, "delete", i)
    <3>1. /\ l \in RequestState /\ l.id = i /\ l.op = "delete"
          /\ l.path = task[i].tree /\ task[i].tree \in PathsOf(i)
      BY <1>1, LoadIs
    <3> HIDE DEF l
    <3>2. r = [l EXCEPT !.step = "remove", !.force = TRUE]  BY DEF l
    <3>. QED  BY <3>1, <3>2 DEF RequestState
  <2> HIDE DEF r
  <2>2. Fits(r)  BY <1>3, <2>1 DEF Fits, Creating
  <2>3. req' = [req EXCEPT ![c] = r]  BY <1>3 DEF r
  <2>4. JobsOK' /\ AgentsOK' /\ PastOK'  BY <1>1, <1>3, <2>1, <2>2, <2>3, RequestGoes
  <2>. QED  BY <1>1, <1>3, <2>4, SameOK DEF IInv, store
<1>. QED  BY <1>2, <1>3 DEF Delete

LEMMA CleanupOK ==
  ASSUME IInv, NEW c \in Request, NEW i \in Id, NEW how \in Cleaning, Cleanup(c, i, how[1], how[2])
  PROVE  IInv'
<1> DEFINE r == [Load(c, "cleanup", i) EXCEPT
                   !.step = IF how[1] THEN "remove" ELSE "dirty", !.force = how[1], !.drop = how[2]]
<1>1. /\ Exists(i) /\ i \notin live /\ task[i].tree # NoPath /\ req' = [req EXCEPT ![c] = r]
      /\ UNCHANGED store /\ UNCHANGED agent /\ UNCHANGED disk /\ UNCHANGED <<creates, mishaps>>
  BY DEF Cleanup
<1>2. how[1] \in BOOLEAN /\ how[2] \in BOOLEAN  BY TasksAssumption
<1>3. /\ r \in RequestState /\ r.id = i /\ r.op = "cleanup" /\ r.step \in {"remove", "dirty"}
      /\ r.path = task[i].tree /\ r.path \in PathsOf(i)
  <2> DEFINE l == Load(c, "cleanup", i)
  <2>1. /\ l \in RequestState /\ l.id = i /\ l.op = "cleanup"
        /\ l.path = task[i].tree /\ task[i].tree \in PathsOf(i)
    BY <1>1, LoadIs
  <2> HIDE DEF l
  <2>2. r = [l EXCEPT !.step = IF how[1] THEN "remove" ELSE "dirty", !.force = how[1], !.drop = how[2]]
    BY DEF l
  <2>. QED  BY <1>2, <2>1, <2>2 DEF RequestState
<1> HIDE DEF r
<1>4. Fits(r)  BY <1>1, <1>3 DEF Fits, Creating
<1>5. JobsOK' /\ AgentsOK' /\ PastOK'  BY <1>1, <1>3, <1>4, RequestGoes DEF store
<1>. QED  BY <1>1, <1>5, SameOK DEF IInv

LEMMA IsDirtyOK == ASSUME IInv, NEW c \in Request, IsDirty(c) PROVE IInv'
<1>1. /\ At(c, "dirty") /\ UNCHANGED store /\ UNCHANGED disk /\ UNCHANGED <<creates, mishaps>>
      /\ Leave(c) \/ (Step(c, "remove") /\ UNCHANGED agent)
  BY DEF IsDirty
<1>2. JobsOK' /\ AgentsOK' /\ PastOK'  BY <1>1, RequestLeaves, RequestSteps DEF store
<1>. QED  BY <1>1, <1>2, SameOK DEF IInv

(* A task forgets its tree.                                                *)
LEMMA DetachOK ==
  ASSUME IInv, NEW i \in Id, Exists(i), NEW kept, task' = Detach(i, kept),
         UNCHANGED <<project, root, live>>
  PROVE  StoreOK'
<1> DEFINE row == [task[i] EXCEPT !.tree = NoPath, !.branch = IF kept THEN @ ELSE "base"]
<1>1. task[i] \in TaskRow /\ project  BY RowIs
<1>2. row \in TaskRow /\ row.tree = NoPath  BY <1>1 DEF TaskRow
<1>3. task' = [task EXCEPT ![i] = row]  BY DEF Detach, IInv, StoreOK
<1>4. row # NoTask  BY <1>2, NoTaskIsNone
<1> HIDE DEF row
<1>5. row.tree \in PathsOf(i)  BY <1>2 DEF PathsOf
<1>. QED  BY <1>1, <1>2, <1>3, <1>4, <1>5, RowChanges

LEMMA RemoveOK == ASSUME IInv, NEW c \in Request, Remove(c) PROVE IInv'
<1>1. At(c, "remove") /\ Leave(c) /\ UNCHANGED <<project, root, creates>>
      /\ (UNCHANGED mishaps \/ Mishap)
  BY DEF Remove
<1>2. req[c].id \in Id  BY <1>1, JobIs DEF Fits, At
<1>3. StoreOK' /\ live' \subseteq live /\ DiskOK'
  <2>1. CASE tree' = Removed(req[c].path) /\ Deleted(c)
    <3>1. DropRow(req[c].id) /\ UNCHANGED branch  BY <2>1 DEF Deleted
    <3>2. tree' \in {tree, [tree EXCEPT ![req[c].path] = NoTree], Pruned}  BY <2>1 DEF Removed
    <3>. QED  BY <1>1, <3>1, <3>2, DropRowOK, DiskShrinks
  <2>2. CASE tree' = Removed(req[c].path) /\ CleanedUp(c)
    <3>1. UNCHANGED live /\ (UNCHANGED branch \/ Unbranch(req[c].id))
          /\ (UNCHANGED task \/ (Exists(req[c].id) /\ task' = Detach(req[c].id, ~req[c].drop)))
      BY <2>2 DEF CleanedUp
    <3>2. tree' \in {tree, [tree EXCEPT ![req[c].path] = NoTree], Pruned}  BY <2>2 DEF Removed
    <3>3. DiskOK'  BY <3>1, <3>2, DiskShrinks
    <3>4. StoreOK'
      <4>1. CASE UNCHANGED task  BY <1>1, <3>1, <4>1, SameOK DEF store
      <4>2. CASE Exists(req[c].id) /\ task' = Detach(req[c].id, ~req[c].drop)
        BY <1>1, <1>2, <3>1, <4>2, DetachOK
      <4>. QED  BY <3>1, <4>1, <4>2
    <3>. QED  BY <3>1, <3>3, <3>4
  <2>3. CASE UNCHANGED <<task, live>> /\ UNCHANGED disk
    BY <1>1, <2>3, SameOK DEF store
  <2>. QED  BY <2>1, <2>2, <2>3 DEF Remove, disk
<1>. QED  BY <1>1, <1>3, RequestLeaves, SameOK DEF IInv

-----------------------------------------------------------------------------
(* Agents, the project and the world                                       *)

LEMMA StartOK == ASSUME IInv, NEW c \in Request, NEW i \in Id, Start(c, i) PROVE IInv'
<1> DEFINE r == [Load(c, "start", i) EXCEPT !.step = "launch"]
<1>1. /\ Exists(i) /\ req' = [req EXCEPT ![c] = r]
      /\ UNCHANGED store /\ UNCHANGED agent /\ UNCHANGED disk /\ UNCHANGED <<creates, mishaps>>
  BY DEF Start
<1>2. /\ r \in RequestState /\ r.id = i /\ r.op = "start" /\ r.step = "launch"
      /\ r.path \in PathsOf(i)
  BY <1>1, LoadIs DEF RequestState
<1> HIDE DEF r
<1>3. Fits(r)  BY <1>1, <1>2 DEF Fits, Creating
<1>4. JobsOK' /\ AgentsOK' /\ PastOK'  BY <1>1, <1>2, <1>3, RequestGoes DEF store
<1>. QED  BY <1>1, <1>4, SameOK DEF IInv

(* Whoever is in flight when an agent starts is in its past; the request   *)
(* that starts it is over.                                                 *)
LEMMA LaunchOK == ASSUME IInv, NEW c \in Request, Launch(c) PROVE IInv'
<1> DEFINE i == req[c].id  p == req[c].path
           new == [runs |-> TRUE, at |-> p, past |-> {d \in Request \ {c} : req[d].step # "free"}]
<1>1. /\ At(c, "launch") /\ Done(c) /\ UNCHANGED <<project, root, task>> /\ UNCHANGED disk
      /\ UNCHANGED <<creates, mishaps>>
  BY DEF Launch
<1>2. i \in Id /\ p \in PathsOf(i) /\ p \in Path \cup {NoPath}
  BY <1>1, JobIs DEF Fits, At, RequestState
<1>3. CASE agent' = Forget(c, agent) /\ UNCHANGED live
  <2>1. Leave(c)  BY <1>1, <1>3 DEF Leave
  <2>. QED  BY <1>1, <1>3, <2>1, RequestLeaves, SameOK DEF IInv, store
<1>4. CASE /\ Exists(i) /\ live' = live \cup {i}
           /\ agent' = [Forget(c, agent) EXCEPT ![i] = new]
  <2>1. StoreOK'  BY <1>1, <1>2, <1>4 DEF IInv, StoreOK, Exists
  <2>2. req' = [req EXCEPT ![c] = Free]  BY <1>1 DEF Done
  <2>3. JobsOK'  BY <2>2, JobIs, FreeFits DEF IInv, JobsOK
  <2>4. \A d \in Request : req'[d] = IF d = c THEN Free ELSE req[d]  BY <2>2, JobIs
  <2>5. new \in Agent  BY <1>2 DEF Agent
  <2>6. \A j \in Id : agent'[j] = IF j = i THEN new ELSE [agent[j] EXCEPT !.past = @ \ {c}]
    BY <1>2, <1>4 DEF Forget
  <2>7. agent' = [j \in Id |-> agent'[j]]  BY <1>4 DEF Forget
  <2>8. \A j \in Id : agent[j] \in Agent /\ agent[j].at \in PathsOf(j)  BY DEF IInv, AgentsOK
  <2>9. ASSUME NEW j \in Id, j # i
        PROVE  /\ agent'[j] \in Agent /\ agent'[j].at = agent[j].at
               /\ agent'[j].runs = agent[j].runs /\ agent'[j].past = agent[j].past \ {c}
    <3>1. agent'[j] = [agent[j] EXCEPT !.past = @ \ {c}]  BY <2>6, <2>9
    <3>. QED  BY <2>8, <3>1 DEF Agent
  <2>10. agent'[i] = new /\ new.at = p /\ new.past = {d \in Request \ {c} : req[d].step # "free"}
    BY <1>2, <2>6
  <2> HIDE DEF new
  <2>11. AgentsOK'
    <3>1. \A j \in Id : agent'[j] \in Agent /\ agent'[j].at \in PathsOf(j)
      BY <1>2, <2>5, <2>8, <2>9, <2>10
    <3>. QED  BY <2>7, <3>1 DEF AgentsOK
  <2>12. ASSUME NEW d \in Request, NEW j \in Id, Threatens(req'[d], j), agent'[j].runs, j \in live'
         PROVE  d \in agent'[j].past
    <3>1. d # c /\ Threatens(req[d], j) /\ req[d].step # "free"
      BY <2>4, <2>12 DEF Threatens, Free
    <3>2. CASE j = i  BY <2>10, <3>1, <3>2
    <3>3. CASE j # i  BY <1>4, <2>9, <2>12, <3>1, <3>3 DEF IInv, PastOK
    <3>. QED  BY <3>2, <3>3
  <2>13. PastOK'  BY <2>12 DEF PastOK
  <2>. QED  BY <1>1, <2>1, <2>3, <2>11, <2>13, SameOK DEF IInv
<1>. QED  BY <1>3, <1>4 DEF Launch

LEMMA AgentEndsOK == ASSUME IInv, NEW i \in Id, AgentEnds(i) PROVE IInv'
<1>1. /\ agent' = [agent EXCEPT ![i] = NoAgent] /\ live' = live \ {i}
      /\ UNCHANGED <<project, root, task, req>> /\ UNCHANGED disk /\ UNCHANGED <<creates, mishaps>>
  BY DEF AgentEnds
<1>2. NoAgent \in Agent /\ NoAgent.at \in PathsOf(i)  BY DEF NoAgent, Agent, PathsOf
<1>3. agent \in [Id -> Agent]  BY DEF IInv, AgentsOK
<1>4. \A j \in Id : agent'[j] = IF j = i THEN NoAgent ELSE agent[j]  BY <1>1, <1>3
<1>5. AgentsOK'  BY <1>1, <1>2, <1>3, <1>4 DEF IInv, AgentsOK
<1>6. JobsOK'  BY <1>1 DEF IInv, JobsOK
<1>7. PastOK'  BY <1>1, <1>4 DEF IInv, PastOK
<1>8. StoreOK'  BY <1>1 DEF IInv, StoreOK, Exists
<1>. QED  BY <1>1, <1>5, <1>6, <1>7, <1>8, SameOK DEF IInv

LEMMA ProjectOK == ASSUME IInv, RemoveProject \/ Register PROVE IInv'
<1>1. UNCHANGED <<agent, req, live>> /\ UNCHANGED disk /\ UNCHANGED <<creates, mishaps>>
  BY DEF RemoveProject, DeleteProject, NoneLive, Register, CreateProject
<1>2. CASE RemoveProject
  <2>1. project' = FALSE /\ live' = {} /\ task' = [i \in Id |-> NoTask] /\ UNCHANGED root
    BY <1>2 DEF RemoveProject, DeleteProject, NoneLive
  <2>2. StoreOK'  BY <2>1 DEF IInv, StoreOK, Exists
  <2>. QED  BY <1>1, <2>2, SameOK DEF IInv
<1>3. CASE Register
  <2>1. StoreOK'  BY <1>3 DEF Register, CreateProject, IInv, StoreOK, Exists
  <2>. QED  BY <1>1, <2>1, SameOK DEF IInv
<1>. QED  BY <1>2, <1>3

LEMMA DropOK == ASSUME IInv, NEW c \in Request, Drop(c) PROVE IInv'
<1>1. Mishap /\ Leave(c) /\ UNCHANGED store /\ UNCHANGED disk /\ UNCHANGED creates
  BY DEF Drop
<1>. QED  BY <1>1, RequestLeaves, SameOK DEF IInv, store

LEMMA WorldOK ==
  ASSUME IInv,
         \/ MoveRoot
         \/ \E p \in Path : Work(p)
         \/ \E i \in Id : Merge(i)
  PROVE  IInv'
<1>1. CASE MoveRoot
  <2>1. StoreOK'  BY <1>1 DEF MoveRoot, IInv, StoreOK, Exists
  <2>. QED  BY <1>1, <2>1, SameOK DEF MoveRoot, IInv, disk
<1>2. CASE \E p \in Path : Work(p)
  <2>1. PICK p \in Path : Work(p)  BY <1>2
  <2>2. /\ \E t \in Tree : tree' = [tree EXCEPT ![p] = t]
        /\ \/ UNCHANGED branch
           \/ branch' = [branch EXCEPT ![p[2]] = "unmerged"]
        /\ UNCHANGED mishaps \/ Mishap
        /\ UNCHANGED store /\ UNCHANGED <<agent, req, creates>>
    BY <2>1 DEF Work, Tree
  <2>3. DiskOK'  BY <2>2 DEF IInv, DiskOK, Branch, Tree
  <2>. QED  BY <2>2, <2>3, SameOK DEF IInv, store
<1>3. CASE \E i \in Id : Merge(i)
  <2>1. PICK i \in Id : Merge(i)  BY <1>3
  <2>2. DiskOK'  BY <2>1 DEF Merge, IInv, DiskOK, Branch
  <2>. QED  BY <2>1, <2>2, SameOK DEF Merge, IInv, store
<1>. QED  BY <1>1, <1>2, <1>3

-----------------------------------------------------------------------------
(* The invariant holds                                                     *)

LEMMA Starts == ASSUME Init PROVE IInv
<1>1. StoreOK  BY DEF Init, StoreOK, Exists
<1>2. DiskOK   BY DEF Init, DiskOK
<1>3. CountOK  BY Bounds DEF Init, CountOK
<1>4. AgentsOK
  <2>1. NoAgent \in Agent /\ NoAgent.at = NoPath  BY DEF NoAgent, Agent
  <2>. QED  BY <2>1 DEF Init, AgentsOK, PathsOf
<1>5. JobsOK   BY FreeFits DEF Init, JobsOK
<1>6. PastOK   BY DEF Init, PastOK
<1>. QED  BY <1>1, <1>2, <1>3, <1>4, <1>5, <1>6 DEF IInv

LEMMA Keeps == ASSUME IInv, [Next]_vars PROVE IInv'
<1>1. CASE UNCHANGED vars
  <2>1. UNCHANGED store /\ UNCHANGED disk /\ UNCHANGED <<agent, req, creates, mishaps>>
    BY <1>1 DEF vars
  <2>. QED  BY <2>1, SameOK DEF IInv, store
<1>2. CASE \E c \in Request : Ask(c)
  BY <1>2, CreateOK, DeleteOK, StartOK, CleanupOK DEF Ask
<1>3. CASE \E c \in Request : CarryOn(c)
  BY <1>3, InsertOK, AddOK, AttachOK, UndoOK, UnmakeOK, IsDirtyOK, RemoveOK, LaunchOK DEF CarryOn
<1>4. CASE \E c \in Request : Drop(c)  BY <1>4, DropOK
<1>5. CASE \E i \in Id : AgentEnds(i)  BY <1>5, AgentEndsOK
<1>6. CASE RemoveProject \/ Register  BY <1>6, ProjectOK
<1>7. CASE MoveRoot \/ (\E p \in Path : Work(p)) \/ (\E i \in Id : Merge(i))  BY <1>7, WorldOK
<1>. QED  BY <1>1, <1>2, <1>3, <1>4, <1>5, <1>6, <1>7 DEF Next

(* What each request holds at each of its steps, where each task's tree    *)
(* and agent can be, and that an agent knows of whoever may remove its     *)
(* tree, always hold.                                                      *)
THEOREM TasksInvariant == Spec => []IInv
<1>. QED  BY Starts, Keeps, PTL DEF Spec

(* Tasks, worktrees, agents and requests are what the code takes them for, *)
(* only tasks that exist are live, and without its project there are none. *)
THEOREM TasksTypeOK == Spec => []TypeOK
<1>1. IInv => TypeOK
  BY DEF IInv, StoreOK, DiskOK, CountOK, AgentsOK, JobsOK, TypeOK, Exists
<1>. QED  BY <1>1, TasksInvariant, PTL

-----------------------------------------------------------------------------
(* What is lost                                                            *)

(* What changes the disk.                                                  *)
LEMMA DiskChanges ==
  ASSUME [Next]_vars
  PROVE  \/ UNCHANGED disk
         \/ \E c \in Request : Add(c) \/ Unmake(c) \/ Remove(c)
         \/ (\E p \in Path : Work(p)) \/ (\E i \in Id : Merge(i))
<1>1. CASE UNCHANGED vars  BY <1>1 DEF vars
<1>2. CASE \E c \in Request : Ask(c)
  BY <1>2 DEF Ask, Create, Delete, Start, Cleanup
<1>3. CASE \E c \in Request : CarryOn(c)
  <2>1. \A c \in Request : Insert(c) \/ Attach(c) \/ Undo(c) \/ IsDirty(c) \/ Launch(c) => UNCHANGED disk
    BY DEF Insert, Attach, Undo, IsDirty, Launch
  <2>. QED  BY <1>3, <2>1 DEF CarryOn
<1>4. CASE \E c \in Request : Drop(c)  BY <1>4 DEF Drop
<1>5. CASE \E i \in Id : AgentEnds(i)  BY <1>5 DEF AgentEnds
<1>6. CASE RemoveProject \/ Register \/ MoveRoot
  BY <1>6 DEF RemoveProject, DeleteProject, NoneLive, Register, CreateProject, MoveRoot
<1>. QED  BY <1>1, <1>2, <1>3, <1>4, <1>5, <1>6 DEF Next

(* A branch goes with a creation that is undone, or a cleanup told to take *)
(* it, forced if it has commits of its own.                                *)
LEMMA BranchGoes ==
  ASSUME IInv, [Next]_vars, NEW i \in Id, branch[i] = "unmerged", branch'[i] = NoBranch
  PROVE  \E c \in Request : req[c].id = i /\ (At(c, "unmake")
           \/ (At(c, "remove") /\ req[c].op = "cleanup" /\ req[c].force /\ req[c].drop))
<1>1. branch \in [Id -> Branch \cup {NoBranch}]  BY DEF IInv, DiskOK
<1>2. branch' # branch  BY DEF NoBranch
<1>3. ~UNCHANGED disk  BY <1>2 DEF disk
<1>4. ASSUME NEW c \in Request, Add(c) PROVE FALSE
  <2>1. branch' = [branch EXCEPT ![req[c].id] = "merged"]  BY <1>2, <1>4 DEF Add, disk
  <2>. QED  BY <1>1, <2>1 DEF NoBranch
<1>5. ASSUME NEW c \in Request, Unmake(c) PROVE req[c].id = i /\ At(c, "unmake")
  <2>1. At(c, "unmake") /\ Unbranch(req[c].id)  BY <1>2, <1>5 DEF Unmake, disk
  <2>. QED  BY <1>1, <2>1 DEF Unbranch, NoBranch
<1>6. ASSUME NEW c \in Request, Remove(c)
      PROVE  req[c].id = i /\ At(c, "remove") /\ req[c].op = "cleanup" /\ req[c].force /\ req[c].drop
  <2>1. At(c, "remove") /\ CleanedUp(c)  BY <1>2, <1>6 DEF Remove, Deleted, disk
  <2>2. /\ Unbranch(req[c].id) /\ req[c].op = "cleanup" /\ req[c].drop
        /\ Deletable(req[c].id, req[c].force, Removed(req[c].path))
    BY <1>2, <2>1 DEF CleanedUp
  <2>3. req[c].id = i  BY <1>1, <2>2 DEF Unbranch, NoBranch
  <2>. QED  BY <2>1, <2>2, <2>3 DEF Deletable
<1>7. ASSUME NEW p \in Path, Work(p) PROVE FALSE
  <2>1. branch' = [branch EXCEPT ![p[2]] = "unmerged"]  BY <1>2, <1>7 DEF Work
  <2>. QED  BY <1>1, <2>1 DEF NoBranch
<1>8. ASSUME NEW j \in Id, Merge(j) PROVE FALSE
  BY <1>1, <1>8 DEF Merge, NoBranch
<1>. QED  BY <1>3, <1>4, <1>5, <1>6, <1>7, <1>8, DiskChanges

(* A tree goes only to a request for it, and one that has changes only to  *)
(* a forced one or to a creation that is undone.                           *)
LEMMA TreeGoes ==
  ASSUME IInv, [Next]_vars, NEW p \in Path, Shrinks(p)
  PROVE  \E c \in Request : By(c) /\ req[c].path = p
                            /\ (At(c, "unmake") \/ req[c].force \/ tree[p] # "dirty")
<1>1. tree \in [Path -> Tree \cup {NoTree}]  BY DEF IInv, DiskOK
<1>2. tree[p] # NoTree /\ tree[p] # "deleted" /\ tree'[p] = NoTree /\ There(p)
  BY DEF Shrinks, There, Known
<1>3. ~UNCHANGED tree  BY <1>2
<1>4. ASSUME NEW c \in Request, Add(c) PROVE FALSE
  <2>1. tree' = [tree EXCEPT ![req[c].path] = "clean"]  BY <1>3, <1>4 DEF Add, disk
  <2>. QED  BY <1>1, <1>2, <2>1 DEF NoTree
<1>5. ASSUME NEW c \in Request, Unmake(c) PROVE At(c, "unmake") /\ By(c) /\ req[c].path = p
  <2>1. At(c, "unmake") /\ tree' = [tree EXCEPT ![req[c].path] = NoTree]
    BY <1>3, <1>5 DEF Unmake, disk
  <2>. QED  BY <1>1, <1>2, <2>1 DEF By
<1>6. ASSUME NEW c \in Request, Remove(c)
      PROVE  By(c) /\ req[c].path = p /\ (req[c].force \/ tree[p] # "dirty")
  <2>1. At(c, "remove") /\ ~Refuses(c) /\ tree' = Removed(req[c].path)
    BY <1>3, <1>6 DEF Remove, disk
  <2>2. tree' # Pruned  BY <1>1, <1>2 DEF Pruned
  <2>3. There(req[c].path) /\ tree' = [tree EXCEPT ![req[c].path] = NoTree]
    BY <2>1, <2>2 DEF Removed
  <2>4. req[c].path = p  BY <1>1, <1>2, <2>3
  <2>. QED  BY <1>2, <2>1, <2>4 DEF By, Refuses
<1>7. ASSUME NEW q \in Path, Work(q) PROVE FALSE
  <2>1. \E t \in Tree : tree' = [tree EXCEPT ![q] = t]  BY <1>7 DEF Work, Tree
  <2>. QED  BY <1>1, <1>2, <2>1 DEF NoTree, Tree
<1>8. ASSUME NEW j \in Id, Merge(j) PROVE FALSE  BY <1>3, <1>8 DEF Merge
<1>. QED  BY <1>3, <1>4, <1>5, <1>6, <1>7, <1>8, DiskChanges DEF disk

(* Commits that were not merged go only with a cleanup that was forced and *)
(* told to take the branch or with a creation being undone, and changes    *)
(* that were not committed only by force or the latter.                    *)
THEOREM WorkIsNotLost == Spec => WorkSurvives
<1>1. ASSUME IInv, [Next]_vars
      PROVE  /\ \A i \in Id : branch[i] = "unmerged" /\ branch'[i] = NoBranch =>
                  \E c \in Request : req[c].id = i /\ (At(c, "unmake")
                     \/ (At(c, "remove") /\ req[c].op = "cleanup" /\ req[c].force /\ req[c].drop))
             /\ \A p \in Path : Shrinks(p) /\ tree[p] = "dirty" =>
                  \E c \in Request : By(c) /\ req[c].path = p /\ (At(c, "unmake") \/ req[c].force)
  <2>1. ASSUME NEW p \in Path, Shrinks(p), tree[p] = "dirty"
        PROVE  \E c \in Request : By(c) /\ req[c].path = p /\ (At(c, "unmake") \/ req[c].force)
    BY <1>1, <2>1, TreeGoes
  <2>. QED  BY <1>1, <2>1, BranchGoes
<1>. QED  BY <1>1, TasksInvariant, PTL DEF Spec, WorkSurvives

(* A tree is removed from under a task's agent only by a request that was  *)
(* in flight before the agent was started.                                 *)
THEOREM AgentsKeepTheirTrees == Spec => AgentKeepsItsTree
<1>1. ASSUME IInv, [Next]_vars
      PROVE  \A i \in Id :
               (agent[i].runs /\ i \in live /\ agent[i].at # NoPath /\ Shrinks(agent[i].at)) =>
                  \E c \in Request : By(c) /\ c \in agent[i].past
  <2>1. SUFFICES ASSUME NEW i \in Id, agent[i].runs, i \in live, agent[i].at # NoPath,
                        Shrinks(agent[i].at)
                 PROVE  \E c \in Request : By(c) /\ c \in agent[i].past
    OBVIOUS
  <2>2. agent[i].at \in PathsOf(i)  BY <1>1 DEF IInv, AgentsOK
  <2>3. agent[i].at \in Path  BY <2>1, <2>2, PathsApart
  <2>4. PICK c \in Request : By(c) /\ req[c].path = agent[i].at  BY <1>1, <2>1, <2>3, TreeGoes
  <2>5. Fits(req[c]) /\ req[c].step \in {"unmake", "remove"}  BY <1>1, <2>4, JobIs DEF By, At
  <2>6. req[c].path \in PathsOf(req[c].id) /\ req[c].op # "start"  BY <2>5 DEF Fits
  <2>7. req[c].id = i  BY <2>1, <2>2, <2>4, <2>6, PathsApart
  <2>8. Threatens(req[c], i)  BY <2>5, <2>6, <2>7 DEF Threatens
  <2>. QED  BY <1>1, <2>1, <2>4, <2>8 DEF IInv, PastOK
<1>. QED  BY <1>1, TasksInvariant, PTL DEF Spec, AgentKeepsItsTree

-----------------------------------------------------------------------------
(* What is left half made                                                  *)

(* While one request moves on, which does not give up a creation of the    *)
(* i-th task's, a half-made i-th task that stays as it is was one before.  *)
LEMMA StillMaking ==
  ASSUME IInv, NEW c \in Request, NEW i \in Id, task'[i] = task[i],
         \A d \in Request \ {c} : req'[d] = req[d],
         req[c].op = "create" /\ req[c].id = i => req'[c].op = "create" /\ req'[c].id = i,
         HalfMade(i)', ~Making(i)'
  PROVE  HalfMade(i) /\ ~Making(i)
BY DEF HalfMade, Making, Exists

(* A request that changes, changes alone.                                  *)
LEMMA OneMoves ==
  ASSUME IInv, NEW c \in Request, NEW r, req' = [req EXCEPT ![c] = r]
  PROVE  req'[c] = r /\ \A d \in Request \ {c} : req'[d] = req[d]
BY JobIs

(* No failure leaves a task half made: one is only while it is created,    *)
(* when the creation was dropped, or after a removal of its tree.          *)
THEOREM NoTaskIsLeftHalfMade == Spec => NoHalfMadeTask
<1>1. ASSUME IInv, [Next]_vars, NEW i \in Id, HalfMade(i)', ~Making(i)', UNCHANGED mishaps,
             ~\E c \in Request : At(c, "remove") /\ req[c].id = i
      PROVE  HalfMade(i) /\ ~Making(i)
  <2>. USE <1>1
  <2>1. task \in [Id -> TaskRow \cup {NoTask}]  BY DEF IInv, StoreOK
  <2>2. CASE UNCHANGED <<task, req>>  BY <2>2 DEF HalfMade, Making, Exists
  <2>3. ASSUME NEW c \in Request, At(c, "free"), task'[i] = task[i],
               \/ UNCHANGED req
               \/ \E r : req' = [req EXCEPT ![c] = r]
        PROVE  HalfMade(i) /\ ~Making(i)
    <3>1. req[c].op # "create"  BY <2>3, JobIs DEF Fits, At, Free
    <3>. QED  BY <2>3, <3>1, OneMoves, StillMaking
  <2>4. ASSUME NEW c \in Request, Ask(c) PROVE HalfMade(i) /\ ~Making(i)
    <3>1. At(c, "free") /\ (UNCHANGED req \/ \E r : req' = [req EXCEPT ![c] = r])
      BY <2>4 DEF Ask, Create, Delete, Start, Cleanup
    <3>2. UNCHANGED task \/ \E j \in Id : DropRow(j)
      BY <2>4 DEF Ask, Create, Delete, Start, Cleanup, store
    <3>3. task'[i] = task[i]
      <4>1. ASSUME NEW j \in Id, DropRow(j) PROVE task'[i] = task[i]
        BY <2>1, <4>1 DEF DropRow, HalfMade, Exists
      <4>. QED  BY <3>2, <4>1
    <3>. QED  BY <2>3, <3>1, <3>3
  <2>5. ASSUME NEW c \in Request, CarryOn(c) PROVE HalfMade(i) /\ ~Making(i)
    <3>1. CASE Insert(c)
      <4>1. req[c].id \notin Id  BY <3>1, JobIs, Bounds DEF Insert, Fits, At, Id
      <4>2. CASE Leave(c) /\ UNCHANGED task
        BY <4>1, <4>2, OneMoves, StillMaking DEF Leave, Done
      <4>3. CASE InsertRow(c, NextId)
        <5> DEFINE n   == NextId
                   row == [serial |-> creates + 1, key |-> req[c].key, wants |-> req[c].wants,
                           tree |-> NoPath, branch |-> "base"]
        <5>1. n \in Id /\ task' = [task EXCEPT ![n] = row]  BY <4>3 DEF InsertRow
        <5>2. row.wants = req[c].wants  OBVIOUS
        <5> HIDE DEF n, row
        <5>3. i # n
          <6>1. CASE req[c].wants
            <7>1. req' = [req EXCEPT ![c].step = "add", ![c].id = n, ![c].serial = creates + 1,
                                     ![c].path = Placement(n)]
              BY <4>3, <6>1 DEF InsertRow, n
            <7>2. req[c] \in RequestState /\ req[c].op = "create"
              BY <3>1, JobIs DEF Insert, Fits, At, Creating
            <7>3. req'[c].op = "create" /\ req'[c].id = n
              BY <7>1, <7>2, JobIs DEF RequestState
            <7>. QED  BY <7>3 DEF Making
          <6>2. CASE ~req[c].wants
            BY <2>1, <5>1, <5>2, <6>2 DEF HalfMade
          <6>. QED  BY <6>1, <6>2
        <5>4. task'[i] = task[i]  BY <2>1, <5>1, <5>3
        <5>5. \A d \in Request \ {c} : req'[d] = req[d]
          <6>1. CASE req[c].wants
            <7>1. req' = [req EXCEPT ![c].step = "add", ![c].id = n, ![c].serial = creates + 1,
                                     ![c].path = Placement(n)]
              BY <4>3, <6>1 DEF InsertRow, n
            <7>. QED  BY <7>1, JobIs
          <6>2. CASE ~req[c].wants
            BY <4>3, <6>2, OneMoves DEF InsertRow, Leave, Done
          <6>. QED  BY <6>1, <6>2
        <5>. QED  BY <4>1, <5>4, <5>5, StillMaking
      <4>. QED  BY <3>1, <4>2, <4>3 DEF Insert
    <3>2. CASE (\E step : Step(c, step)) /\ UNCHANGED task
      <4>1. PICK step : Step(c, step)  BY <3>2
      <4>2. req' = [req EXCEPT ![c] = [req[c] EXCEPT !.step = step]]  BY <4>1, JobIs DEF Step
      <4>3. req'[c].op = req[c].op /\ req'[c].id = req[c].id
        BY <4>2, OneMoves, JobIs DEF RequestState
      <4>. QED  BY <3>2, <4>2, <4>3, OneMoves, StillMaking
    <3>3. CASE Add(c)  BY <3>2, <3>3 DEF Add, store
    <3>4. CASE Leave(c) /\ DropRow(req[c].id)
      <4>1. req[c].id # i  BY <2>1, <3>4 DEF DropRow, HalfMade, Exists
      <4>2. task'[i] = task[i]  BY <2>1, <3>4, <4>1 DEF DropRow
      <4>. QED  BY <3>4, <4>1, <4>2, OneMoves, StillMaking DEF Leave, Done
    <3>5. CASE Attach(c)
      <4>1. CASE Exists(req[c].id)
        <5>1. /\ task' = [task EXCEPT ![req[c].id].tree = req[c].path, ![req[c].id].branch = "own"]
              /\ Leave(c)
          BY <3>5, <4>1 DEF Attach
        <5>2. req[c].path # NoPath /\ req[c].id \in Id  BY <3>5, JobIs DEF Attach, Fits, At
        <5>3. task[req[c].id] \in TaskRow  BY <4>1, <5>2, RowIs
        <5>4. task'[req[c].id].tree = req[c].path  BY <2>1, <5>1, <5>2, <5>3 DEF TaskRow
        <5>5. req[c].id # i  BY <5>2, <5>4 DEF HalfMade
        <5>6. task'[i] = task[i]  BY <2>1, <5>1, <5>5
        <5>. QED  BY <5>1, <5>5, <5>6, OneMoves, StillMaking DEF Leave, Done
      <4>2. CASE ~Exists(req[c].id)  BY <3>2, <3>5, <4>2 DEF Attach
      <4>. QED  BY <4>1, <4>2
    <3>6. CASE Undo(c)
      <4>1. CASE There(Placement(req[c].id))
        <5>1. /\ req' = [req EXCEPT ![c].step = "unmake", ![c].path = Placement(req[c].id)]
              /\ UNCHANGED task
          BY <3>6, <4>1 DEF Undo
        <5>2. req' = [req EXCEPT ![c] = [req[c] EXCEPT !.step = "unmake",
                                                       !.path = Placement(req[c].id)]]
          BY <5>1, JobIs
        <5>3. req'[c].op = req[c].op /\ req'[c].id = req[c].id
          BY <5>2, OneMoves, JobIs DEF RequestState
        <5>4. \A d \in Request \ {c} : req'[d] = req[d]  BY <5>2, OneMoves
        <5>5. task'[i] = task[i]  BY <5>1
        <5>. QED  BY <5>3, <5>4, <5>5, StillMaking
      <4>2. CASE ~There(Placement(req[c].id))  BY <3>4, <3>6, <4>2 DEF Undo, RollBackRow
      <4>. QED  BY <4>1, <4>2
    <3>7. CASE Unmake(c)  BY <3>4, <3>7 DEF Unmake, RollBackRow
    <3>8. ASSUME Leave(c), task'[i] = task[i], req[c].op # "create"
          PROVE  HalfMade(i) /\ ~Making(i)
      BY <3>8, OneMoves, StillMaking DEF Leave, Done
    <3>9. CASE IsDirty(c)
      <4>1. req[c].op # "create" /\ UNCHANGED task
        BY <3>9, JobIs DEF IsDirty, Fits, At, Creating, store
      <4>. QED  BY <3>2, <3>8, <3>9, <4>1 DEF IsDirty
    <3>10. CASE Remove(c)
      <4>1. req[c].op # "create" /\ req[c].id # i /\ Leave(c)
        BY <3>10, JobIs DEF Remove, Fits, At, Creating
      <4>2. \/ UNCHANGED task \/ DropRow(req[c].id)
            \/ \E kept : task' = Detach(req[c].id, kept)
        BY <3>10 DEF Remove, Deleted, CleanedUp
      <4>3. task'[i] = task[i]  BY <2>1, <4>1, <4>2 DEF DropRow, Detach
      <4>. QED  BY <3>8, <4>1, <4>3
    <3>11. CASE Launch(c)
      <4>1. req[c].op # "create" /\ UNCHANGED task /\ Done(c)
        BY <3>11, JobIs DEF Launch, Fits, At, Creating
      <4>. QED  BY <4>1, OneMoves, StillMaking DEF Done
    <3>. QED  BY <2>5, <3>1, <3>3, <3>5, <3>6, <3>7, <3>9, <3>10, <3>11 DEF CarryOn
  <2>6. ASSUME NEW c \in Request, Drop(c) PROVE FALSE
    <3>1. mishaps' = mishaps + 1 /\ mishaps \in Int  BY <2>6, Bounds DEF Drop, Mishap, IInv, CountOK
    <3>. QED  BY <3>1
  <2>7. CASE RemoveProject  BY <2>7 DEF RemoveProject, DeleteProject, NoneLive, HalfMade, Exists
  <2>8. CASE UNCHANGED vars \/ (\E j \in Id : AgentEnds(j) \/ Merge(j)) \/ (\E p \in Path : Work(p))
             \/ Register \/ MoveRoot
    <3>1. UNCHANGED <<task, req>>
      BY <2>8 DEF vars, store, AgentEnds, Merge, Work, Register, CreateProject, MoveRoot
    <3>. QED  BY <2>2, <3>1
  <2>. QED  BY <2>4, <2>5, <2>6, <2>7, <2>8 DEF Next
<1>2. ASSUME IInv, [Next]_vars
      PROVE  \A i \in Id : HalfMade(i)' /\ ~Making(i)' =>
               \/ HalfMade(i) /\ ~Making(i)
               \/ mishaps' # mishaps
               \/ \E c \in Request : At(c, "remove") /\ req[c].id = i
  BY <1>1, <1>2
<1>. QED  BY <1>2, TasksInvariant, PTL DEF Spec, NoHalfMadeTask
-----------------------------------------------------------------------------
(* Trees that are lost sight of                                            *)

(* The request that moves takes the tree of its task to be another.        *)
Mistaken(p) == \E c \in Request : req'[c] # req[c] /\ p[2] = req[c].id /\ p # Believed(c)

(* A request that ends is not what it was, and others are.                 *)
LEMMA Ending ==
  ASSUME IInv, NEW c \in Request, Leave(c), ~At(c, "free")
  PROVE  req'[c] # req[c] /\ \A d \in Request \ {c} : req'[d] = req[d]
<1>1. req' = [req EXCEPT ![c] = Free]  BY DEF Leave, Done
<1>2. req'[c] = Free /\ \A d \in Request \ {c} : req'[d] = req[d]  BY <1>1, OneMoves
<1>3. Free.step = "free"  BY DEF Free
<1>. QED  BY <1>2, <1>3 DEF At

(* Undoing a creation removes the tree that was found, unless it fails,    *)
(* and a removal the one that was loaded.                                  *)
LEMMA TreeRemoved ==
  ASSUME IInv, NEW c \in Request, NEW p \in Path, There(p), There(p)', UNCHANGED mishaps,
         Unmake(c) \/ (Remove(c) /\ ~UNCHANGED task)
  PROVE  req[c].path # p
<1>. SUFFICES ASSUME req[c].path = p PROVE FALSE  OBVIOUS
<1>1. tree \in [Path -> Tree \cup {NoTree}]  BY DEF IInv, DiskOK
<1>2. ~Mishap  BY Bounds DEF Mishap, IInv, CountOK
<1>3. tree' = [tree EXCEPT ![p] = NoTree]
  BY <1>2 DEF Unmake, Remove, Removed, There
<1>. QED  BY <1>1, <1>3 DEF There, Known

(* A row that is dropped, if not the i-th, leaves the i-th.                *)
LEMMA OtherRows ==
  ASSUME IInv, NEW i \in Id, NEW j, j # i, DropRow(j)
  PROVE  task'[i] = task[i]
BY DEF DropRow, IInv, StoreOK

(* A task loses the tree it has only to a request that is mistaken.        *)
LEMMA RowLost ==
  ASSUME IInv, [Next]_vars, UNCHANGED mishaps, ~RemoveProject,
         NEW p \in Path, There(p), There(p)',
         NEW i \in Id, Exists(i), task[i].tree = p, ~(Exists(i)' /\ task'[i].tree = p)
  PROVE  Mistaken(p)
<1>1. p # NoPath /\ p[2] = i  BY RowIs, PathsApart DEF There
<1>2. task'[i] # task[i] /\ task \in [Id -> TaskRow \cup {NoTask}]  BY DEF Exists, IInv, StoreOK
<1>3. ASSUME NEW c \in Request, Leave(c), ~At(c, "free"), req[c].id = i, p # Believed(c)
      PROVE  Mistaken(p)
  BY <1>1, <1>3, Ending DEF Mistaken
<1>4. ASSUME NEW c \in Request, Ask(c) PROVE FALSE
  <2>1. UNCHANGED task \/ \E j \in Id : DropRow(j) /\ task[j].tree = NoPath
    BY <1>4 DEF Ask, Create, Delete, Start, Cleanup, store
  <2>. QED  BY <1>1, <1>2, <2>1, OtherRows
<1>5. ASSUME NEW c \in Request, CarryOn(c) PROVE Mistaken(p)
  <2>1. CASE Insert(c)
    <3>1. task' = [task EXCEPT ![NextId] = task'[NextId]]
      BY <1>2, <2>1 DEF Insert, InsertRow
    <3>2. NextId # i  BY NextIdIsFree
    <3>. QED  BY <1>2, <3>1, <3>2
  <2>2. CASE Attach(c)
    <3>1. /\ Exists(req[c].id) /\ Leave(c) /\ At(c, "attach")
          /\ task' = [task EXCEPT ![req[c].id].tree = req[c].path, ![req[c].id].branch = "own"]
      BY <1>2, <2>2 DEF Attach
    <3>2. req[c].id = i  BY <1>2, <3>1
    <3>3. task[i] \in TaskRow  BY RowIs
    <3>4. task'[i] = [task[i] EXCEPT !.tree = req[c].path, !.branch = "own"]
      BY <1>2, <3>1, <3>2
    <3>5. task'[i].tree = req[c].path /\ req[c].path \in Path \cup {NoPath}
      BY <3>3, <3>4, JobIs DEF TaskRow, RequestState
    <3>6. req[c].path # p
      <4>1. SUFFICES ASSUME req[c].path = p PROVE Exists(i)'  BY <3>5
      <4>2. task'[i] \in TaskRow  BY <3>3, <3>4, <4>1 DEF TaskRow
      <4>. QED  BY <4>2, NoTaskIsNone DEF Exists
    <3>. QED  BY <1>3, <3>1, <3>2, <3>6 DEF Believed, At
  <2>3. CASE Undo(c)
    <3>1. /\ ~There(Placement(req[c].id)) /\ At(c, "undo")
          /\ Leave(c) /\ DropRow(req[c].id)
      BY <1>2, <2>3 DEF Undo, RollBackRow
    <3>2. req[c].id = i  BY <1>2, <3>1, OtherRows
    <3>. QED  BY <1>3, <3>1, <3>2 DEF Believed, At
  <2>4. CASE Unmake(c)
    <3>1. At(c, "unmake") /\ Leave(c) /\ DropRow(req[c].id)  BY <2>4 DEF Unmake, RollBackRow
    <3>2. req[c].id = i  BY <1>2, <3>1, OtherRows
    <3>3. req[c].path # p  BY <2>4, TreeRemoved
    <3>. QED  BY <1>3, <3>1, <3>2, <3>3 DEF Believed, At
  <2>5. CASE Remove(c)
    <3>1. At(c, "remove") /\ Leave(c)  BY <2>5 DEF Remove
    <3>2. \/ UNCHANGED task \/ DropRow(req[c].id)
          \/ \E kept : task' = Detach(req[c].id, kept)
      BY <2>5 DEF Remove, Deleted, CleanedUp
    <3>3. req[c].id = i  BY <1>2, <3>2, OtherRows DEF Detach
    <3>4. req[c].path # p  BY <1>2, <2>5, TreeRemoved
    <3>. QED  BY <1>3, <3>1, <3>3, <3>4 DEF Believed, At
  <2>6. CASE Add(c) \/ IsDirty(c) \/ Launch(c)
    BY <1>2, <2>6 DEF Add, IsDirty, Launch, store
  <2>. QED  BY <1>5, <2>1, <2>2, <2>3, <2>4, <2>5, <2>6 DEF CarryOn
<1>6. ASSUME NEW c \in Request, Drop(c) PROVE FALSE  BY <1>2, <1>6 DEF Drop, store
<1>7. UNCHANGED vars \/ (\E j \in Id : AgentEnds(j) \/ Merge(j)) \/ (\E q \in Path : Work(q))
      \/ Register \/ MoveRoot => UNCHANGED task
  BY DEF vars, store, AgentEnds, Merge, Work, Register, CreateProject, MoveRoot
<1>. QED  BY <1>2, <1>4, <1>5, <1>6, <1>7 DEF Next

(* A creation that made a tree attaches it, removes it, or is mistaken.    *)
LEMMA CreatorLost ==
  ASSUME IInv, [Next]_vars, UNCHANGED mishaps,
         NEW p \in Path, There(p), There(p)', ~Accounted(p)',
         NEW c \in Request, req[c].op = "create", req[c].path = p
  PROVE  Mistaken(p)
<1>1. p # NoPath /\ req[c].step \in Creating /\ req[c] \in RequestState /\ Fits(req[c])
  BY JobIs DEF There, Fits
<1>2. req[c].step \in {"add", "attach", "undo", "unmake"} /\ req[c].id \in Id /\ p[2] = req[c].id
  <2>1. p[2] = req[c].id  BY <1>1 DEF Fits, PathsOf, Path
  <2>2. p[2] \in Id /\ 0 \notin Id  BY Bounds DEF Path, Id
  <2>3. req[c].step # "insert"  BY <1>1, <2>1, <2>2 DEF Fits
  <2>. QED  BY <1>1, <2>1, <2>3 DEF Fits, Creating
<1>3. ~(req'[c].op = "create" /\ req'[c].path = p)  BY DEF Accounted
<1>4. req'[c] # req[c]  BY <1>3
<1>5. ~Mishap  BY Bounds DEF Mishap, IInv, CountOK
<1>6. ASSUME p # Believed(c) PROVE Mistaken(p)  BY <1>2, <1>4, <1>6 DEF Mistaken
<1>7. ASSUME NEW step, Step(c, step) PROVE FALSE
  <2>1. req'[c] = [req[c] EXCEPT !.step = step]  BY <1>7, JobIs DEF Step
  <2>. QED  BY <1>1, <1>3, <2>1 DEF RequestState
<1>8. CASE Add(c)  BY <1>7, <1>8 DEF Add
<1>9. CASE Attach(c)
  <2>1. PICK i \in Id : i = req[c].id  BY <1>2
  <2>2. Exists(i) /\ task' = [task EXCEPT ![i].tree = p, ![i].branch = "own"]
    BY <1>7, <1>9, <2>1 DEF Attach
  <2>3. task[i] \in TaskRow /\ task \in [Id -> TaskRow \cup {NoTask}]
    BY <2>2, RowIs DEF IInv, StoreOK
  <2>4. task'[i] = [task[i] EXCEPT !.tree = p, !.branch = "own"]  BY <2>2, <2>3
  <2>5. task'[i] \in TaskRow /\ task'[i].tree = p  BY <2>3, <2>4 DEF TaskRow
  <2>6. Exists(i)'  BY <2>5, NoTaskIsNone DEF Exists
  <2>. QED  BY <2>5, <2>6 DEF Accounted
<1>10. CASE Undo(c)
  <2>1. At(c, "undo")  BY <1>10 DEF Undo
  <2>2. CASE There(Placement(req[c].id))
    <3>1. req' = [req EXCEPT ![c].step = "unmake", ![c].path = Placement(req[c].id)]
      BY <1>10, <2>2 DEF Undo
    <3>2. req'[c].op = "create" /\ req'[c].path = Placement(req[c].id)
      BY <1>1, <3>1, JobIs DEF RequestState
    <3>. QED  BY <1>3, <1>6, <2>1, <3>2 DEF Believed
  <2>3. CASE ~There(Placement(req[c].id))  BY <1>6, <2>1, <2>3 DEF Believed
  <2>. QED  BY <2>2, <2>3
<1>11. CASE Unmake(c)  BY <1>11, TreeRemoved
<1>12. ASSUME Ask(c) \/ Insert(c) \/ IsDirty(c) \/ Remove(c) \/ Launch(c) PROVE FALSE
  BY <1>2, <1>12 DEF Ask, Create, Delete, Start, Cleanup, Insert, IsDirty, Remove, Launch, At
<1>13. ~Drop(c)  BY <1>5 DEF Drop
<1>14. ASSUME NEW d \in Request, d # c, Ask(d) \/ CarryOn(d) \/ Drop(d) PROVE FALSE
  <2>1. UNCHANGED req \/ (\E r : req' = [req EXCEPT ![d] = r])
        \/ (\E step : Step(d, step)) \/ Done(d) \/ Insert(d) \/ Undo(d)
    BY <1>14 DEF Ask, Create, Delete, Start, Cleanup, CarryOn, Add, Attach, Unmake, IsDirty,
                 Remove, Launch, Drop, RollBackRow, Leave
  <2>2. req'[c] = req[c]
    BY <1>14, <2>1, JobIs DEF Step, Done, Insert, InsertRow, Undo, RollBackRow, Leave
  <2>. QED  BY <1>4, <2>2
<1>15. UNCHANGED vars \/ (\E j \in Id : AgentEnds(j) \/ Merge(j)) \/ (\E q \in Path : Work(q))
       \/ RemoveProject \/ Register \/ MoveRoot => UNCHANGED req
  BY DEF vars, AgentEnds, Merge, Work, RemoveProject, Register, MoveRoot
<1>. QED  BY <1>4, <1>8, <1>9, <1>10, <1>11, <1>12, <1>13, <1>14, <1>15 DEF Next, CarryOn

(* A worktree that belonged to a task or a creation is lost sight of only  *)
(* with its project, by a failure, or by a request about its task that     *)
(* takes the task's tree to be another.                                    *)
THEOREM TreesAreAccountedFor == Spec => TreesStayAccounted
<1>1. ASSUME IInv, [Next]_vars, NEW p \in Path, There(p), Accounted(p), There(p)', ~Accounted(p)',
             ~RemoveProject, UNCHANGED mishaps
      PROVE  Mistaken(p)
  <2>1. CASE \E i \in Id : Exists(i) /\ task[i].tree = p
    <3>1. PICK i \in Id : Exists(i) /\ task[i].tree = p  BY <2>1
    <3>2. ~(Exists(i)' /\ task'[i].tree = p)  BY <1>1 DEF Accounted
    <3>. QED  BY <1>1, <3>1, <3>2, RowLost
  <2>2. CASE \E c \in Request : req[c].op = "create" /\ req[c].path = p
    BY <1>1, <2>2, CreatorLost
  <2>. QED  BY <1>1, <2>1, <2>2 DEF Accounted
<1>2. ASSUME IInv, [Next]_vars
      PROVE  \A p \in Path :
               (There(p) /\ Accounted(p) /\ There(p)' /\ ~Accounted(p)') =>
                 \/ RemoveProject
                 \/ mishaps' # mishaps
                 \/ \E c \in Request : req'[c] # req[c] /\ p[2] = req[c].id /\ p # Believed(c)
  BY <1>1, <1>2 DEF Mistaken
<1>. QED  BY <1>2, TasksInvariant, PTL DEF Spec, TreesStayAccounted
=============================================================================
