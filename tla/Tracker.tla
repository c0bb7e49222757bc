------------------------------ MODULE Tracker ------------------------------
(* How the poller reads the status of one session off its terminal         *)
(* (crates/forge-daemon/src/adapters/status.rs, with `examine` of          *)
(* sessions.rs): the tracker it keeps between polls, the two questions it  *)
(* asks tmux in each poll, and the agent that goes on writing to its pane  *)
(* between them.                                                           *)
(*                                                                         *)
(* tmux tells the second in which a pane was last written to.  `Marks` are *)
(* the seconds the state can hold at once; one that nothing remembers may  *)
(* come again, as a later second would.                                    *)
EXTENDS Integers

CONSTANTS
  STALENESS_CAP,     (* polls a belief survives with nothing recognised    *)
  WAITING_DEBOUNCE,  (* polls a new `waiting` must survive                 *)
  Readings,          (* the statuses a screen can be classified as         *)
  Marks, NoMark,     (* tmux's activity marker, and its absence            *)
  TmuxFails,         (* whether a tmux command may fail                    *)
  MaxRestarts        (* bound: restarts of the daemon                      *)

ASSUME TrackerAssumption ==
  /\ STALENESS_CAP \in Nat
  /\ WAITING_DEBOUNCE \in Nat \ {0}
  /\ Readings \subseteq {"idle", "working", "waiting", "error"}
  /\ Marks # {} /\ NoMark \notin Marks
  /\ TmuxFails \in BOOLEAN
  /\ MaxRestarts \in Nat

VARIABLES
  screen,     (* what the pane shows, as the markers would classify it     *)
  process,    (* the agent: "running", "exited" or "failed"                *)
  now,        (* the current second                                        *)
  written,    (* the second the pane was last written to: tmux's marker    *)
  tracker,    (* the poller's tracker of the session                       *)
  phase,      (* where the poller is with this session                     *)
  answer,     (* the marker tmux gave in this poll                         *)
  restarts,   (* restarts of the daemon                                    *)
  shown,      (* history: captures in a row that showed a question         *)
  unread,     (* history: captures in a row that showed nothing known      *)
  missed      (* history: whether what is on screen now was last captured  *)
              (* by a command that failed                                  *)

world   == <<screen, process, now, written>>
history == <<shown, unread, missed>>
vars    == <<world, tracker, phase, answer, restarts, history>>

Status  == {"idle", "working", "waiting", "error", "stopped"}
Blank   == "blank"
Screens == Readings \cup {Blank}

(* stale_polls is counted only as far as the tracker tells it apart;       *)
(* `pending` is how many polls have shown a question not trusted yet.      *)
Staleness == 0 .. STALENESS_CAP + 1
Doubt     == 0 .. WAITING_DEBOUNCE
Activity  == Marks \cup {NoMark}
Trackers  == [status : Status, stale_polls : Staleness, pending : Doubt,
              last_activity : Activity]

TypeOK ==
  /\ screen \in Screens
  /\ process \in {"running", "exited", "failed"}
  /\ now \in Marks /\ written \in Marks
  /\ tracker \in Trackers
  /\ phase \in {"asleep", "ask", "capture", "over"}
  /\ answer \in Activity
  /\ restarts \in 0 .. MaxRestarts
  /\ shown \in 0 .. WAITING_DEBOUNCE + 1
  /\ unread \in Staleness
  /\ missed \in BOOLEAN

-----------------------------------------------------------------------------
(* The tracker                                                             *)

(* Counting no further than tells the difference.                          *)
UpTo(n, most) == IF n > most THEN most ELSE n

(* Mutant: a tracker made anew keeps the marker of the one before it.      *)
New_KeepsMark(status) == [tracker EXCEPT !.status = status, !.stale_polls = 0, !.pending = 0]

New(status) == [status |-> status, stale_polls |-> 0, pending |-> 0, last_activity |-> NoMark]

IsUnchangedSince(activity) ==
  tracker.pending = 0 /\ activity # NoMark /\ tracker.last_activity = activity

Settled(t, status) == [t EXCEPT !.status = status, !.pending = 0]

(* Mutant: seeing what is already believed leaves an older doubt standing. *)
Considered_DoubtStays(t, seen) ==
  IF seen = t.status THEN t
  ELSE IF seen # "waiting" \/ t.pending >= WAITING_DEBOUNCE THEN Settled(t, seen)
  ELSE [t EXCEPT !.pending = @ + 1]

(* Mutant: a question is believed on sight.                                *)
Considered_AtOnce(t, seen) == Settled(t, seen)

(* Only entering `waiting` has to hold before it is believed.              *)
Considered(t, seen) ==
  IF seen = t.status THEN [t EXCEPT !.pending = 0]
  ELSE IF seen # "waiting" \/ t.pending >= WAITING_DEBOUNCE THEN Settled(t, seen)
  ELSE [t EXCEPT !.pending = @ + 1]

(* Mutant: only an agent believed to be working can go stale.              *)
NothingRecognised_WorkingOnly(t) ==
  LET older == [t EXCEPT !.pending = 0, !.stale_polls = UpTo(@ + 1, STALENESS_CAP + 1)] IN
  IF older.stale_polls > STALENESS_CAP /\ t.status = "working"
  THEN [older EXCEPT !.stale_polls = 0, !.status = "idle"]
  ELSE older

(* The belief is kept, up to a point.                                      *)
NothingRecognised(t) ==
  LET older == [t EXCEPT !.pending = 0, !.stale_polls = UpTo(@ + 1, STALENESS_CAP + 1)] IN
  IF older.stale_polls > STALENESS_CAP /\ t.status # "idle"
  THEN [older EXCEPT !.stale_polls = 0, !.status = "idle"]
  ELSE older

(* One poll's evidence; a capture that failed shows nothing.               *)
Polled(t, output) ==
  IF output = Blank THEN NothingRecognised(t)
                    ELSE Considered([t EXCEPT !.stale_polls = 0], output)

-----------------------------------------------------------------------------
(* The agent, and time                                                     *)

(* The agent writes to its pane, which shows something else or the same.   *)
Write(s) ==
  /\ process = "running"
  /\ screen' = s /\ written' = now
  /\ missed' = FALSE
  /\ UNCHANGED <<process, now, tracker, phase, answer, restarts, shown, unread>>

(* Marks are alike: which of those nothing remembers comes next says      *)
(* nothing.                                                                *)
SomeMark(marks) == CHOOSE m \in marks : TRUE

(* A second passes; one in which nothing has happened need not.            *)
Tick ==
  LET held == {now, written, tracker.last_activity, answer} IN
  /\ now \in {written, tracker.last_activity, answer}
  /\ Marks \ held # {}
  /\ now' = SomeMark(Marks \ held)
  /\ UNCHANGED <<screen, process, written, tracker, phase, answer, restarts, history>>

Exit(how) ==
  /\ process = "running"
  /\ process' = how
  /\ UNCHANGED <<screen, now, written, tracker, phase, answer, restarts, history>>

-----------------------------------------------------------------------------
(* The poller                                                              *)

(* pane_state: a dead process decides whatever the screen shows.           *)
LookAtPane ==
  /\ phase = "asleep"
  /\ IF process = "running"
     THEN phase' = "ask" /\ UNCHANGED tracker
     ELSE /\ phase' = "over"
          /\ tracker' = Settled(tracker, IF process = "failed" THEN "error" ELSE "stopped")
  /\ UNCHANGED <<world, answer, restarts, history>>

(* activity: a pane that was not written to since is not captured.         *)
AskActivity ==
  /\ phase = "ask"
  /\ \/ answer' = written
     \/ TmuxFails /\ answer' = NoMark
  /\ phase' = IF IsUnchangedSince(answer') THEN "asleep" ELSE "capture"
  /\ UNCHANGED <<world, tracker, restarts, history>>

(* capture: the marker is remembered whether or not the capture succeeds.  *)
Capture ==
  /\ phase = "capture"
  /\ \E output \in {screen} \cup (IF TmuxFails THEN {Blank} ELSE {}) :
       /\ tracker' = Polled([tracker EXCEPT !.last_activity = answer], output)
       /\ shown'  = IF output = "waiting" THEN UpTo(shown + 1, WAITING_DEBOUNCE + 1) ELSE 0
       /\ unread' = IF output = Blank THEN UpTo(unread + 1, STALENESS_CAP + 1) ELSE 0
       /\ missed' = (output # screen)
  /\ phase' = "asleep"
  /\ answer' = NoMark
  /\ UNCHANGED <<world, restarts>>

(* The daemon restarts: trackers are not persisted, and a new one starts   *)
(* from the status of the row.                                             *)
Restart ==
  /\ phase # "over" /\ restarts < MaxRestarts
  /\ restarts' = restarts + 1
  /\ tracker' = New(tracker.status)
  /\ phase' = "asleep" /\ answer' = NoMark
  /\ shown' = 0 /\ unread' = 0 /\ missed' = FALSE
  /\ UNCHANGED world

-----------------------------------------------------------------------------
Init ==
  /\ screen = Blank /\ process = "running"
  /\ now = SomeMark(Marks) /\ written = now
  /\ tracker = [status |-> "idle", stale_polls |-> 0, pending |-> 0, last_activity |-> NoMark]
  /\ phase = "asleep" /\ answer = NoMark
  /\ restarts = 0
  /\ shown = 0 /\ unread = 0 /\ missed = FALSE

Poll == LookAtPane \/ AskActivity \/ Capture

Next ==
  \/ \E s \in Screens : Write(s)
  \/ Tick
  \/ \E how \in {"exited", "failed"} : Exit(how)
  \/ Poll
  \/ Restart

Spec == Init /\ [][Next]_vars

(* The watch loop's ticker: while the session is live it is polled.        *)
FairSpec == Spec /\ WF_vars(Poll)

-----------------------------------------------------------------------------
(* What holds                                                              *)

(* A human is called only for a question that stayed on screen through     *)
(* WAITING_DEBOUNCE more captures after the first, one after the other:    *)
(* nothing else was seen in between, and no restart came in between.       *)
WaitingIsConfirmed == [][tracker'.status = "waiting" /\ tracker.status # "waiting"
                           => shown' > WAITING_DEBOUNCE]_vars

(* A belief other than idle was recognised, and is not older than          *)
(* STALENESS_CAP captures that recognised nothing.                         *)
BeliefIsRecent == process = "running" /\ tracker.status # "idle" => unread <= STALENESS_CAP

(* A question that stays on screen is told to a human, when it was written *)
(* in a second tmux had not reported yet, unless a capture of that screen  *)
(* fails: the marker is remembered all the same (examine), so that the     *)
(* question may never be captured again.  Captures that failed before it   *)
(* was written, screens in which nothing was recognised, markers tmux did  *)
(* not give, the skip, the debounce and restarts do not lose it.           *)
Asking == process = "running" /\ screen = "waiting"
QuestionIsNoticed ==
  (Asking /\ written \notin {tracker.last_activity, answer})
    ~> (tracker.status = "waiting" \/ ~Asking \/ missed)

(* The tracker is a status reader: what it counts, compares and skips      *)
(* shows only as the reader's doubt.                                       *)
Reader == INSTANCE StatusReader WITH
  belief <- tracker.status, doubt <- tracker.pending > 0, over <- phase = "over"
ReadsStatuses == Reader!Spec

-----------------------------------------------------------------------------
(* Why it holds: the inductive invariant                                   *)

(* The doubt counts no more than what was shown, and the staleness clock   *)
(* counts what was not read.                                               *)
CountsOK ==
  /\ tracker.pending <= shown
  /\ tracker.pending > 0 => tracker.status # "waiting"
  /\ phase # "over" /\ tracker.status # "idle" => unread = tracker.stale_polls /\ unread <= STALENESS_CAP

EndOK == phase = "over" => process # "running"
IInv  == TypeOK /\ CountsOK /\ EndOK
=============================================================================
