------------------------------- MODULE Tasks -------------------------------
(* Tasks and their worktrees (http/tasks.rs, http/projects.rs, worktree.rs,*)
(* git.rs, store/tasks.rs, store/projects.rs): creating a task and undoing *)
(* a creation that failed, deleting it, cleaning its worktree up, starting *)
(* an agent in it, removing and registering its project.                   *)
(*                                                                         *)
(* One project and tasks of one title: where a task's worktree goes is     *)
(* then decided by the worktree root and the task's id, which is given out *)
(* again once it is the highest no longer in use.  A request is carried    *)
(* out step by step, a step ending where its handler awaits git or tmux;   *)
(* one whose client goes away, or whose daemon dies, is dropped there.     *)
(* Sessions has the details of an agent's start and end.                   *)
EXTENDS Integers, FiniteSets, FiniteSetsExt

CONSTANTS
  Request,      (* requests that can be in flight at the same time         *)
  Key,          (* idempotency keys                                        *)
  NoKey,        (* a creation without one                                  *)
  Creation,     (* the creations asked for: a key, and whether a worktree  *)
                (* is wanted                                               *)
  Cleaning,     (* the cleanups asked for: by force, with the branch       *)
  Root,         (* values of the setting worktree_root                     *)
  NoPath,       (* a task without a worktree, or one in the repository     *)
  MaxTask,      (* bound: the highest id of a task                         *)
  MaxCreates,   (* bound: rows inserted                                    *)
  MaxMishaps    (* bound: dropped requests, failures of git, a root moved  *)

Id     == 1 .. MaxTask
Serial == 1 .. MaxCreates
Path   == Root \X Id

ASSUME TasksAssumption ==
  /\ MaxTask \in Nat /\ MaxCreates \in Nat /\ MaxMishaps \in Nat
  /\ Root # {} /\ NoKey \notin Key /\ NoPath \notin Path
  /\ Creation \subseteq (Key \cup {NoKey}) \X BOOLEAN
  /\ Cleaning \subseteq BOOLEAN \X BOOLEAN

VARIABLES
  project,    (* whether the repository is registered                      *)
  root,       (* the worktree_root setting                                 *)
  task,       (* the tasks table                                           *)
  live,       (* the tasks with a session that has not ended               *)
  agent,      (* where the tmux session of a task's name runs              *)
  tree,       (* the worktrees git has a record of                         *)
  branch,     (* the branches of the tasks                                 *)
  req,        (* requests in flight                                        *)
  creates,    (* rows inserted so far                                      *)
  mishaps

store == <<project, root, task, live>>
disk  == <<tree, branch>>
vars  == <<store, agent, disk, req, creates, mishaps>>

-----------------------------------------------------------------------------
(* Types                                                                   *)

(* `serial` tells apart the tasks that have one id after the other.        *)
TaskRow == [serial : Serial, key : Key \cup {NoKey}, wants : BOOLEAN,
            tree : Path \cup {NoPath}, branch : {"base", "own"}]
NoTask  == [serial |-> 0]

(* What git knows of a worktree: one that was "deleted" has no directory.  *)
Tree    == {"clean", "dirty", "deleted"}
NoTree  == "none"

Branch  == {"merged", "unmerged"}
NoBranch == "none"

(* A tmux session runs in a tree, or in the repository (NoPath).  `past`   *)
(* are the requests that were in flight already when it was started.       *)
Agent   == [runs : BOOLEAN, at : Path \cup {NoPath}, past : SUBSET Request]
NoAgent == [runs |-> FALSE, at |-> NoPath, past |-> {}]

RequestState == [
  step   : {"free", "insert", "add", "attach", "undo", "unmake", "dirty",
            "remove", "launch"},
  op     : {"none", "create", "delete", "cleanup", "start"},
  id     : Id \cup {0},              (* the task the request is about ...   *)
  serial : Serial \cup {0},          (* ... as it was when it was loaded    *)
  path   : Path \cup {NoPath},
  key    : Key \cup {NoKey}, wants : BOOLEAN,
  force  : BOOLEAN, drop : BOOLEAN ] (* drop: with the branch               *)

Free == [step |-> "free", op |-> "none", id |-> 0, serial |-> 0, path |-> NoPath,
         key |-> NoKey, wants |-> FALSE, force |-> FALSE, drop |-> FALSE]

TypeOK ==
  /\ project \in BOOLEAN /\ root \in Root
  /\ task \in [Id -> TaskRow \cup {NoTask}]
  /\ live \subseteq {i \in Id : task[i] # NoTask}
  /\ agent \in [Id -> Agent]
  /\ tree \in [Path -> Tree \cup {NoTree}]
  /\ branch \in [Id -> Branch \cup {NoBranch}]
  /\ req \in [Request -> RequestState]
  /\ creates \in 0 .. MaxCreates /\ mishaps \in 0 .. MaxMishaps
  /\ ~project => \A i \in Id : task[i] = NoTask

-----------------------------------------------------------------------------
Exists(i)  == task[i] # NoTask
Known(p)   == tree[p] # NoTree
There(p)   == p # NoPath /\ Known(p) /\ tree[p] # "deleted"
At(c, step) == req[c].step = step

Mishap    == mishaps < MaxMishaps /\ mishaps' = mishaps + 1
Step(c, step) == req' = [req EXCEPT ![c].step = step]
(* A request that ends is no longer told from the ones that come later.    *)
Done(c)   == req' = [req EXCEPT ![c] = Free]
Forget(c, a) == [i \in Id |-> [a[i] EXCEPT !.past = @ \ {c}]]
Leave(c)  == Done(c) /\ agent' = Forget(c, agent)

(* placement: the worktree of the i-th task under the present root.        *)
Placement(i) == <<root, i>>

(* INTEGER PRIMARY KEY without AUTOINCREMENT: one more than the highest.   *)
NextId == 1 + Max({0} \cup {i \in Id : Exists(i)})

(* Deleting a row deletes its sessions' rows with it; tmux is not told.    *)
DropRow(i) ==
  /\ task' = [task EXCEPT ![i] = NoTask]
  /\ live' = live \ {i}

-----------------------------------------------------------------------------
(* Creating a task                                                         *)

Used(k) == \E i \in Id : Exists(i) /\ k # NoKey /\ task[i].key = k

(* create: a key that was used is answered with the task made under it,    *)
(* and nothing else happens; otherwise git is asked for the base branch.   *)
Create(c, k, wants) ==
  /\ At(c, "free")
  /\ project
  /\ ~Used(k)
  /\ req' = [req EXCEPT ![c] = [Free EXCEPT !.step = "insert", !.op = "create",
                                            !.key = k, !.wants = wants]]
  /\ UNCHANGED <<store, agent, disk, creates, mishaps>>

(* The row goes in as it is before it has a worktree.                      *)
InsertRow(c, i) ==
  LET serial == creates + 1 IN
  /\ serial \in Serial /\ i \in Id
  /\ task' = [task EXCEPT ![i] = [serial |-> serial, key |-> req[c].key,
                wants |-> req[c].wants, tree |-> NoPath, branch |-> "base"]]
  /\ creates' = serial
  /\ IF req[c].wants
     THEN /\ req' = [req EXCEPT ![c].step = "add", ![c].id = i, ![c].serial = serial,
                                ![c].path = Placement(i)]
          /\ UNCHANGED agent
     ELSE Leave(c)

(* create_task: the foreign key refuses a task of no project and the       *)
(* unique index a key that was used in the meantime.                       *)
Insert(c) ==
  /\ At(c, "insert")
  /\ IF project /\ ~Used(req[c].key)
     THEN InsertRow(c, NextId)
     ELSE Leave(c) /\ UNCHANGED <<task, creates>>
  /\ UNCHANGED <<project, root, live, disk, mishaps>>

(* git worktree add -b: the branch must not exist, and is made before the  *)
(* directory, which must not exist either, nor be on git's record.  What   *)
(* was made stays when the rest fails, or takes too long.                  *)
Add(c) ==
  LET i == req[c].id  p == req[c].path
      made    == [branch EXCEPT ![i] = "merged"]
      grown   == [tree EXCEPT ![p] = "clean"]
  IN
  /\ At(c, "add")
  /\ \/ branch[i] # NoBranch /\ Step(c, "undo") /\ UNCHANGED <<disk, mishaps>>
     \/ /\ branch[i] = NoBranch /\ Known(p)
        /\ branch' = made /\ Step(c, "undo") /\ UNCHANGED <<tree, mishaps>>
     \/ /\ branch[i] = NoBranch /\ ~Known(p)
        /\ branch' = made /\ tree' = grown /\ Step(c, "attach") /\ UNCHANGED mishaps
     \/ /\ branch[i] = NoBranch /\ ~Known(p) /\ Mishap
        /\ branch' = made /\ tree' \in {tree, grown} /\ Step(c, "undo")
  /\ UNCHANGED <<store, agent, creates>>

(* attach_worktree: a row that is gone, or was replaced by another of its  *)
(* id, is not told from the one the request made.                          *)
Attach(c) ==
  LET i == req[c].id IN
  /\ At(c, "attach")
  /\ IF Exists(i)
     THEN /\ task' = [task EXCEPT ![i].tree = req[c].path, ![i].branch = "own"]
          /\ Leave(c)
     ELSE Step(c, "undo") /\ UNCHANGED <<task, agent>>
  /\ UNCHANGED <<project, root, live, disk, creates, mishaps>>

(* Mutant: a failed creation keeps its row.                                *)
RollBackRow_Keeps(c) == Leave(c) /\ UNCHANGED <<task, live>>

(* The row goes last; that it is gone already is only logged.              *)
RollBackRow(c) == Leave(c) /\ DropRow(req[c].id)

(* Mutant: only the row is rolled back.                                    *)
Undo_RowOnly(c) ==
  /\ At(c, "undo") /\ RollBackRow(c)
  /\ UNCHANGED <<project, root, disk, creates, mishaps>>

(* roll_back: where the tree would be is worked out anew.                  *)
Undo(c) ==
  /\ At(c, "undo")
  /\ IF There(Placement(req[c].id))
     THEN /\ req' = [req EXCEPT ![c].step = "unmake", ![c].path = Placement(req[c].id)]
          /\ UNCHANGED <<task, live, agent>>
     ELSE RollBackRow(c)
  /\ UNCHANGED <<project, root, disk, creates, mishaps>>

(* git branch -D or -d: not a branch that is checked out or not there, and *)
(* without force none that has commits of its own.                         *)
Deletable(i, force, trees) ==
  /\ branch[i] # NoBranch
  /\ \A r \in Root : trees[<<r, i>>] = NoTree
  /\ force \/ branch[i] = "merged"

Unbranch(i) == branch' = [branch EXCEPT ![i] = NoBranch]

(* The directory and the branch are removed by force, and a failure only   *)
(* logged: a tree that could not be removed keeps its branch.              *)
Unmake(c) ==
  LET i == req[c].id  bare == [tree EXCEPT ![req[c].path] = NoTree] IN
  /\ At(c, "unmake")
  /\ \/ /\ Known(req[c].path)
        /\ tree' = bare /\ UNCHANGED mishaps
        /\ IF Deletable(i, TRUE, bare) THEN Unbranch(i) ELSE UNCHANGED branch
     \/ ~Known(req[c].path) /\ UNCHANGED <<disk, mishaps>>
     \/ Mishap /\ tree' \in {tree, bare} /\ UNCHANGED branch
  /\ RollBackRow(c)
  /\ UNCHANGED <<project, root, creates>>

-----------------------------------------------------------------------------
(* Removing a worktree                                                     *)

(* Every such request loads the task and looks for a live session first.   *)
Load(c, op, i) == [Free EXCEPT !.op = op, !.id = i, !.serial = task[i].serial,
                               !.path = task[i].tree]

(* Mutant: a task can be deleted while its agent runs.                     *)
Delete_Live(c, i) ==
  /\ At(c, "free") /\ Exists(i)
  /\ IF task[i].tree = NoPath
     THEN DropRow(i) /\ UNCHANGED req
     ELSE /\ req' = [req EXCEPT ![c] = [Load(c, "delete", i) EXCEPT
                       !.step = "remove", !.force = TRUE]]
          /\ UNCHANGED <<task, live>>
  /\ UNCHANGED <<project, root, agent, disk, creates, mishaps>>

(* delete: at once without a worktree; with one, only by force, which      *)
(* keeps the branch.                                                       *)
Delete(c, i) ==
  /\ At(c, "free") /\ Exists(i) /\ i \notin live
  /\ IF task[i].tree = NoPath
     THEN DropRow(i) /\ UNCHANGED req
     ELSE /\ req' = [req EXCEPT ![c] = [Load(c, "delete", i) EXCEPT
                       !.step = "remove", !.force = TRUE]]
          /\ UNCHANGED <<task, live>>
  /\ UNCHANGED <<project, root, agent, disk, creates, mishaps>>

(* cleanup_worktree: without force, git is asked whether it is dirty.      *)
Cleanup(c, i, force, drop) ==
  /\ At(c, "free") /\ Exists(i) /\ i \notin live
  /\ task[i].tree # NoPath
  /\ req' = [req EXCEPT ![c] = [Load(c, "cleanup", i) EXCEPT
               !.step = IF force THEN "remove" ELSE "dirty", !.force = force, !.drop = drop]]
  /\ UNCHANGED <<store, agent, disk, creates, mishaps>>

(* A directory that is not there has nothing to lose.                      *)
IsDirty(c) ==
  /\ At(c, "dirty")
  /\ IF (There(req[c].path) /\ tree[req[c].path] = "dirty") \/ ~project
     THEN Leave(c)
     ELSE Step(c, "remove") /\ UNCHANGED agent
  /\ UNCHANGED <<store, disk, creates, mishaps>>

(* worktree::remove: a directory somebody deleted is pruned, and git       *)
(* refuses to remove one that has changes, unless forced.                  *)
Pruned   == [p \in Path |-> IF tree[p] = "deleted" THEN NoTree ELSE tree[p]]
Removed(p) == IF There(p) THEN [tree EXCEPT ![p] = NoTree] ELSE Pruned
Refuses(c) == There(req[c].path) /\ tree[req[c].path] = "dirty" /\ ~req[c].force

(* detach_worktree: a task whose branch is gone is back on its base.       *)
Detach(i, kept) ==
  [task EXCEPT ![i].tree = NoPath, ![i].branch = IF kept THEN @ ELSE "base"]

(* delete: the row follows the tree, whichever task has the id by now.     *)
Deleted(c) ==
  /\ req[c].op = "delete"
  /\ DropRow(req[c].id)
  /\ UNCHANGED branch

(* cleanup: the branch follows if asked for, and only then the task        *)
(* forgets its tree; a branch git will not delete leaves it attached to a  *)
(* tree that is gone.                                                      *)
CleanedUp(c) ==
  LET i == req[c].id
      gone == req[c].drop /\ Deletable(i, req[c].force, Removed(req[c].path))
  IN
  /\ req[c].op = "cleanup"
  /\ task' = IF Exists(i) /\ (gone \/ ~req[c].drop) THEN Detach(i, ~req[c].drop) ELSE task
  /\ IF gone THEN Unbranch(i) ELSE UNCHANGED branch
  /\ UNCHANGED live

(* Mutant: git is told to force in any case.                               *)
Remove_Forced(c) ==
  /\ At(c, "remove")
  /\ tree' = Removed(req[c].path) /\ (Deleted(c) \/ CleanedUp(c)) /\ UNCHANGED mishaps
  /\ Leave(c)
  /\ UNCHANGED <<project, root, creates>>

(* tear_down, and what the two handlers do after it; a removal that failed *)
(* changes nothing.                                                        *)
Remove(c) ==
  /\ At(c, "remove")
  /\ \/ ~Refuses(c) /\ tree' = Removed(req[c].path)
        /\ (Deleted(c) \/ CleanedUp(c)) /\ UNCHANGED mishaps
     \/ Refuses(c) /\ UNCHANGED <<task, live, disk, mishaps>>
     \/ Mishap /\ UNCHANGED <<task, live, disk>>
  /\ Leave(c)
  /\ UNCHANGED <<project, root, creates>>

-----------------------------------------------------------------------------
(* Agents and the project                                                  *)

(* start: the task is loaded, then tmux and the agent's CLI are looked at. *)
Start(c, i) ==
  /\ At(c, "free") /\ Exists(i)
  /\ req' = [req EXCEPT ![c] = [Load(c, "start", i) EXCEPT !.step = "launch"]]
  /\ UNCHANGED <<store, agent, disk, creates, mishaps>>

(* SessionManager::start: not when a tmux session of the name or a live    *)
(* row is there, nor in a directory that is not; the session's row needs   *)
(* the task's.                                                             *)
Launch(c) ==
  LET i == req[c].id  p == req[c].path IN
  /\ At(c, "launch") /\ Done(c)
  /\ IF ~agent[i].runs /\ i \notin live /\ Exists(i) /\ (p = NoPath \/ There(p))
     THEN /\ live' = live \cup {i}
          /\ agent' = [Forget(c, agent) EXCEPT ![i] =
               [runs |-> TRUE, at |-> p, past |-> {d \in Request \ {c} : req[d].step # "free"}]]
     ELSE agent' = Forget(c, agent) /\ UNCHANGED live
  /\ UNCHANGED <<project, root, task, disk, creates, mishaps>>

(* An agent ends, or is stopped, and its row is closed (Sessions).         *)
AgentEnds(i) ==
  /\ agent[i].runs
  /\ agent' = [agent EXCEPT ![i] = NoAgent]
  /\ live' = live \ {i}
  /\ UNCHANGED <<project, root, task, disk, req, creates, mishaps>>

(* live_task_count                                                         *)
NoneLive == live = {}

(* delete_project: its tasks go with it.                                   *)
DeleteProject == project' = FALSE /\ task' = [i \in Id |-> NoTask]

(* projects::delete: none of its tasks may be live; the disk is never      *)
(* touched.                                                                *)
RemoveProject ==
  /\ project /\ NoneLive
  /\ DeleteProject
  /\ UNCHANGED <<root, live, agent, disk, req, creates, mishaps>>

(* create_project: a repository is registered once.                        *)
CreateProject == ~project /\ project' = TRUE

Register ==
  /\ CreateProject
  /\ UNCHANGED <<root, task, live, agent, disk, req, creates, mishaps>>

-----------------------------------------------------------------------------
(* The world                                                               *)

(* The client goes away or the daemon dies: the handler ends where it      *)
(* awaits, its git killed or just done.                                    *)
Drop(c) ==
  /\ ~At(c, "free") /\ Mishap
  /\ Leave(c)
  /\ UNCHANGED <<store, disk, creates>>

MoveRoot ==
  /\ Mishap
  /\ root' \in Root \ {root}
  /\ UNCHANGED <<project, task, live, agent, disk, req, creates>>

(* Somebody works in a tree, commits there, merges the branch, or deletes  *)
(* the directory.                                                          *)
Work(p) ==
  /\ There(p)
  /\ \/ tree' = [tree EXCEPT ![p] = "dirty"] /\ UNCHANGED <<branch, mishaps>>
     \/ /\ tree[p] = "dirty" /\ branch[p[2]] # NoBranch
        /\ tree' = [tree EXCEPT ![p] = "clean"]
        /\ branch' = [branch EXCEPT ![p[2]] = "unmerged"] /\ UNCHANGED mishaps
     \/ Mishap /\ tree' = [tree EXCEPT ![p] = "deleted"] /\ UNCHANGED branch
  /\ UNCHANGED <<store, agent, req, creates>>

Merge(i) ==
  /\ branch[i] = "unmerged"
  /\ branch' = [branch EXCEPT ![i] = "merged"]
  /\ UNCHANGED <<store, agent, tree, req, creates, mishaps>>

-----------------------------------------------------------------------------
Init ==
  /\ project = TRUE /\ root \in Root
  /\ task = [i \in Id |-> NoTask]
  /\ live = {} /\ agent = [i \in Id |-> NoAgent]
  /\ tree = [p \in Path |-> NoTree] /\ branch = [i \in Id |-> NoBranch]
  /\ req = [c \in Request |-> Free]
  /\ creates = 0 /\ mishaps = 0

Ask(c) ==
  \/ \E new \in Creation : Create(c, new[1], new[2])
  \/ \E i \in Id :
       \/ Delete(c, i) \/ Start(c, i)
       \/ \E how \in Cleaning : Cleanup(c, i, how[1], how[2])

CarryOn(c) ==
  \/ Insert(c) \/ Add(c) \/ Attach(c) \/ Undo(c) \/ Unmake(c)
  \/ IsDirty(c) \/ Remove(c) \/ Launch(c)

Next ==
  \/ \E c \in Request : Ask(c) \/ CarryOn(c) \/ Drop(c)
  \/ \E i \in Id : AgentEnds(i) \/ Merge(i)
  \/ \E p \in Path : Work(p)
  \/ RemoveProject \/ Register \/ MoveRoot

Spec == Init /\ [][Next]_vars

-----------------------------------------------------------------------------
(* What holds                                                              *)

Shrinks(p) == There(p) /\ tree'[p] = NoTree
By(c)      == At(c, "unmake") \/ At(c, "remove")

(* Work is never lost by accident: commits that were not merged go only    *)
(* with a cleanup that was forced and told to take the branch, or with a   *)
(* creation being undone, and uncommitted changes only by force or the     *)
(* latter.  Deleting a task destroys no commits.                           *)
WorkSurvives == [][
  /\ \A i \in Id : branch[i] = "unmerged" /\ branch'[i] = NoBranch =>
       \E c \in Request : req[c].id = i /\ (At(c, "unmake")
          \/ (At(c, "remove") /\ req[c].op = "cleanup" /\ req[c].force /\ req[c].drop))
  /\ \A p \in Path : Shrinks(p) /\ tree[p] = "dirty" =>
       \E c \in Request : By(c) /\ req[c].path = p /\ (At(c, "unmake") \/ req[c].force)
  ]_vars

(* A worktree belongs to a task, or to a creation still under way.         *)
Accounted(p) ==
  \/ \E i \in Id : Exists(i) /\ task[i].tree = p
  \/ \E c \in Request : req[c].op = "create" /\ req[c].path = p

(* Where a request that is about a task takes the task's tree to be.       *)
Believed(c) == IF At(c, "undo") THEN Placement(req[c].id) ELSE req[c].path

(* One is lost sight of only when its project is removed, its request is   *)
(* dropped, git fails to undo it, or by a request about its task that      *)
(* takes the task's tree to be another: the root has moved, or a tree was  *)
(* attached since the request loaded the task.                             *)
TreesStayAccounted == [][\A p \in Path :
  (There(p) /\ Accounted(p) /\ There(p)' /\ ~Accounted(p)') =>
     \/ RemoveProject
     \/ mishaps' # mishaps
     \/ \E c \in Request : req'[c] # req[c] /\ p[2] = req[c].id /\ p # Believed(c)]_vars

(* A task that was to have a worktree, has none and never had one is being *)
(* created at this moment, or its creation was dropped: none is left half  *)
(* made by a failure.                                                      *)
HalfMade(i) == Exists(i) /\ task[i].wants /\ task[i].tree = NoPath
Making(i)   == \E c \in Request : req[c].op = "create" /\ req[c].id = i
NoHalfMadeTask == [][\A i \in Id : HalfMade(i)' /\ ~Making(i)' =>
  \/ HalfMade(i) /\ ~Making(i)
  \/ mishaps' # mishaps
  \/ \E c \in Request : At(c, "remove") /\ req[c].id = i]_vars

(* The check for a live session can be outrun but not skipped: a tree is   *)
(* removed from under a task's agent only by a request that was there      *)
(* before the agent.                                                       *)
AgentKeepsItsTree == [][\A i \in Id :
  (agent[i].runs /\ i \in live /\ agent[i].at # NoPath /\ Shrinks(agent[i].at)) =>
     \E c \in Request : By(c) /\ c \in agent[i].past]_vars
=============================================================================
