------------------------------ MODULE Telegram ------------------------------
(* The Telegram bot (telegram/): the long poll and its offset, the         *)
(* questions it announces with buttons under them, the taps that answer    *)
(* them, and the commands that name a task somewhere in the fleet.         *)
(*                                                                         *)
(* Every machine has one task here, and the sessions of all are numbered   *)
(* from one, as ids are those of a daemon.  A machine's events reach the   *)
(* bot in order (EventFeed); what its poller reads and when it says so is  *)
(* cut down to what a question needs (Sessions and Tracker have the rest). *)
EXTENDS Integers, Sequences, FiniteSets

CONSTANTS
  Machine,      (* the fleet                                               *)
  Command,      (* commands, each with what it names: the machines whose   *)
                (* task has that id or name, and those where a name begins *)
                (* with it                                                 *)
  MaxSession,   (* bound: sessions of a task                               *)
  MaxQuestion,  (* bound: questions that each task puts on its screen      *)
  MaxUpdates,   (* bound: messages and taps                                *)
  MaxMishaps    (* bound: crashes, machines that do not answer, messages   *)
                (* that are not sent and offsets that are not stored       *)

Question == Nat \ {0}
Session  == 1 .. MaxSession
Nothing  == 0
Id       == Nat \ {0}

ASSUME TelegramAssumption ==
  /\ MaxSession \in Nat \ {0} /\ MaxQuestion \in [Machine -> Nat]
  /\ MaxUpdates \in Nat /\ MaxMishaps \in Nat
  /\ Command \subseteq [what : {"stop", "ask"},
                         names : [exact : SUBSET Machine, prefix : SUBSET Machine]]

VARIABLES
  agent,        (* each machine's agent                                    *)
  poller,       (* the session whose waiting is about to be announced      *)
  log,          (* each machine's events; an id is an index                *)
  asks,         (* each machine's questions so far                         *)
  watch,        (* how far the bot has followed each machine               *)
  outstanding,  (* the question each session is known to sit on            *)
  chat,         (* the prompts with buttons in the chat                    *)
  updates,      (* what was sent to the bot                                *)
  bot,          (* the loop of the bot                                     *)
  stored,       (* the update the stored offset confirms                   *)
  unwritten,    (* history: updates whose offset could not be stored       *)
  claimed,      (* the prompts that were answered from the chat            *)
  handled,      (* the last update that was handled                        *)
  mishaps

machines == <<agent, poller, log, asks>>
memory   == <<watch, outstanding, bot>>
vars     == <<machines, memory, chat, updates, stored, unwritten, claimed, handled, mishaps>>

-----------------------------------------------------------------------------
(* Types                                                                   *)

(* `question` is on the screen, and `waits` is what the poller believes.   *)
Agent == [session : 0 .. MaxSession, alive : BOOLEAN,
          question : Question \cup {Nothing}, waits : BOOLEAN]

(* An event about a session: that it waits, or anything else.  `shows` is  *)
(* the question on the screen that goes with it.                           *)
Event == [session : Session, waiting : BOOLEAN, shows : Question \cup {Nothing}]

(* What a pair of buttons carries, and what is shown above it.             *)
Prompt == [machine : Machine, session : Session, asked : Id, shows : Question]

(* Noise: strangers, chatter, and buttons the bot did not make.            *)
Update == [what : {"noise"}]
     \cup [what : {"tap"}, prompt : Prompt]
     \cup Command

Key == Machine \X Session

Bot == [step : {"polling", "handling", "answering", "resolving", "acting", "remembering"},
        at : Nat, upto : Nat, target : SUBSET Machine]
Started(offset) == [step |-> "polling", at |-> offset, upto |-> offset, target |-> {}]

TypeOK ==
  /\ agent \in [Machine -> Agent] /\ poller \in [Machine -> 0 .. MaxSession]
  /\ log \in [Machine -> Seq(Event)]
  /\ asks \in [Machine -> Nat] /\ \A m \in Machine : asks[m] <= MaxQuestion[m]
  /\ watch \in [Machine -> Nat] /\ \A m \in Machine : watch[m] <= Len(log[m])
  /\ outstanding \in [Key -> Nat]
  /\ chat \subseteq Prompt /\ claimed \subseteq chat
  /\ updates \in Seq(Update)
  /\ bot \in Bot /\ bot.at <= bot.upto /\ bot.upto <= Len(updates)
  /\ stored \in 0 .. handled /\ handled \in 0 .. Len(updates)
  /\ unwritten \subseteq Nat
  /\ mishaps \in 0 .. MaxMishaps

-----------------------------------------------------------------------------
(* The machines                                                            *)

Mishap == mishaps < MaxMishaps /\ mishaps' = mishaps + 1

Says(m, s, waiting, shows) ==
  log' = [log EXCEPT ![m] = Append(@, [session |-> s, waiting |-> waiting, shows |-> shows])]

Outside == UNCHANGED <<memory, chat, updates, stored, unwritten, claimed, handled, mishaps>>

(* A question is put on the screen, the next one perhaps before the poller *)
(* has looked; somebody at the keyboard answers it.                        *)
Asks(m) ==
  /\ agent[m].alive /\ asks[m] < MaxQuestion[m] /\ asks' = [asks EXCEPT ![m] = @ + 1]
  /\ agent' = [agent EXCEPT ![m].question = asks[m] + 1]
  /\ UNCHANGED <<poller, log>> /\ Outside

Answered(m) ==
  /\ agent[m].question # Nothing
  /\ agent' = [agent EXCEPT ![m].question = Nothing]
  /\ UNCHANGED <<poller, log, asks>> /\ Outside

(* act_on: a change of status is announced; that it is to waiting once     *)
(* more, after the screen was read again.                                  *)
Notices(m) ==
  /\ agent[m].alive /\ poller[m] = 0
  /\ agent[m].waits # (agent[m].question # Nothing)
  /\ agent' = [agent EXCEPT ![m].waits = ~@]
  /\ poller' = [poller EXCEPT ![m] = IF agent[m].waits THEN 0 ELSE agent[m].session]
  /\ Says(m, agent[m].session, FALSE, Nothing)
  /\ UNCHANGED asks /\ Outside

Announces(m) ==
  /\ poller[m] # 0
  /\ Says(m, poller[m], TRUE,
          IF poller[m] = agent[m].session THEN agent[m].question ELSE Nothing)
  /\ poller' = [poller EXCEPT ![m] = 0]
  /\ UNCHANGED <<agent, asks>> /\ Outside

Ended(m) ==
  /\ agent' = [agent EXCEPT ![m].alive = FALSE, ![m].question = Nothing, ![m].waits = FALSE]
  /\ Says(m, agent[m].session, FALSE, Nothing)

Ends(m) == agent[m].alive /\ Ended(m) /\ UNCHANGED <<poller, asks>> /\ Outside

Starts(m) ==
  /\ ~agent[m].alive /\ agent[m].session < MaxSession
  /\ agent' = [agent EXCEPT ![m].session = @ + 1, ![m].alive = TRUE]
  /\ Says(m, agent[m].session + 1, FALSE, Nothing)
  /\ UNCHANGED <<poller, asks>> /\ Outside

-----------------------------------------------------------------------------
(* What the bot announces                                                  *)

key(m, s) == <<m, s>>

(* Mutant: what else happens to a session leaves its question standing.    *)
Forget_Nothing(m, s) == UNCHANGED outstanding

(* forget                                                                  *)
Forget(m, s) == outstanding' = [outstanding EXCEPT ![key(m, s)] = 0]

(* push_from: the question is remembered before anybody sees it.  Buttons  *)
(* go only under what looks like a permission prompt.                      *)
Push(m) ==
  LET i == watch[m] + 1  e == log[m][i] IN
  /\ i <= Len(log[m]) /\ watch' = [watch EXCEPT ![m] = i]
  /\ IF e.waiting
     THEN outstanding' = [outstanding EXCEPT ![key(m, e.session)] = i]
     ELSE Forget(m, e.session)
  /\ \/ /\ e.waiting /\ e.shows # Nothing
        /\ chat' = chat \cup {[machine |-> m, session |-> e.session, asked |-> i,
                               shows |-> e.shows]}
        /\ UNCHANGED mishaps
     \/ (~e.waiting \/ e.shows = Nothing) /\ UNCHANGED <<chat, mishaps>>
     \/ e.waiting /\ Mishap /\ UNCHANGED chat
  /\ UNCHANGED <<machines, bot, updates, stored, unwritten, claimed, handled>>

-----------------------------------------------------------------------------
(* The long poll                                                           *)

Loop == UNCHANGED <<agent, poller, log, asks, watch, chat, updates>>
At(step) == bot.step = step
Turn(step) == bot' = [bot EXCEPT !.step = step]

(* get_updates: everything from the offset on.                             *)
GetUpdates ==
  /\ At("polling") /\ Len(updates) > bot.at
  /\ bot' = [bot EXCEPT !.step = "handling", !.at = @ + 1, !.upto = Len(updates)]
  /\ UNCHANGED <<outstanding, stored, unwritten, claimed, handled, mishaps>> /\ Loop

(* On to the next update of the batch, or to the next poll: the offset in  *)
(* memory has advanced.                                                    *)
NextInBatch ==
  bot' = IF bot.at < bot.upto THEN [bot EXCEPT !.step = "handling", !.at = @ + 1]
         ELSE Started(bot.at)

(* Mutant: the offset is stored once a batch is done.                      *)
Remember_Batch ==
  /\ At("remembering")
  /\ stored' = IF bot.at = bot.upto THEN bot.at ELSE stored
  /\ NextInBatch
  /\ UNCHANGED <<outstanding, unwritten, claimed, handled, mishaps>> /\ Loop

(* remember_offset: one that cannot be stored is in the log, and the bot   *)
(* goes on.                                                                *)
Remember ==
  /\ At("remembering")
  /\ \/ stored' = bot.at /\ UNCHANGED <<unwritten, mishaps>>
     \/ Mishap /\ unwritten' = unwritten \cup {bot.at} /\ UNCHANGED stored
  /\ NextInBatch
  /\ UNCHANGED <<outstanding, claimed, handled>> /\ Loop

Current == updates[bot.at]
Handling == At("handling") /\ handled' = IF bot.at > handled THEN bot.at ELSE handled

Ignore ==
  /\ Handling /\ Current.what = "noise"
  /\ Turn("remembering")
  /\ UNCHANGED <<outstanding, stored, unwritten, claimed, mishaps>> /\ Loop

(* tap: the session still sits on the very question the button is for.     *)
Asked(p) == outstanding[key(p.machine, p.session)] = p.asked

(* Mutant: a tap that expires is left for the next poll.                   *)
Expire_Again ==
  /\ Handling /\ Current.what = "tap" /\ ~Asked(Current.prompt)
  /\ bot' = Started(bot.at - 1)
  /\ UNCHANGED <<outstanding, stored, unwritten, claimed, mishaps>> /\ Loop

Expire ==
  /\ Handling /\ Current.what = "tap" /\ ~Asked(Current.prompt)
  /\ Turn("remembering")
  /\ UNCHANGED <<outstanding, stored, unwritten, claimed, mishaps>> /\ Loop

(* Mutant: a question is not taken back when it is answered.               *)
Claim_Keeps ==
  /\ Handling /\ Current.what = "tap" /\ Asked(Current.prompt)
  /\ claimed' = claimed \cup {Current.prompt}
  /\ Turn("answering")
  /\ UNCHANGED <<outstanding, stored, unwritten, mishaps>> /\ Loop

(* handle_tap: deciding and claiming are one.                              *)
Claim ==
  /\ Handling /\ Current.what = "tap" /\ Asked(Current.prompt)
  /\ outstanding' = [outstanding EXCEPT ![key(Current.prompt.machine, Current.prompt.session)] = 0]
  /\ claimed' = claimed \cup {Current.prompt}
  /\ Turn("answering")
  /\ UNCHANGED <<stored, unwritten, mishaps>> /\ Loop

Others == UNCHANGED <<log, poller, asks, watch, outstanding, chat, updates, stored, unwritten,
                      claimed, handled>>

(* send_answer: the keys go to the session the task has by now, if any.    *)
SendAnswer(m) == agent' = [agent EXCEPT ![m].question = Nothing]

(* accepted: a machine that is not reached, or refuses; the chat is told.  *)
NotAccepted == Mishap /\ UNCHANGED agent

(* machine.answer                                                          *)
MachineAnswer(m) ==
  \/ SendAnswer(m) /\ UNCHANGED mishaps
  \/ NotAccepted

Answer(m) ==
  /\ At("answering") /\ m = Current.prompt.machine
  /\ MachineAnswer(m)
  /\ Turn("remembering") /\ Others

-----------------------------------------------------------------------------
(* Commands                                                                *)

Hear ==
  /\ Handling /\ Current.what \in {"stop", "ask"}
  /\ Turn("resolving")
  /\ UNCHANGED <<outstanding, stored, unwritten, claimed, mishaps>> /\ Loop

(* task_candidates: of the machines that answered.                         *)
Candidates(names, answering) ==
  [exact |-> names.exact \cap answering, prefix |-> names.prefix \cap answering]

(* resolve: an id or a name before the beginning of one, and only if it is *)
(* the only one.                                                           *)
Resolve(names) ==
  LET match == IF names.exact # {} THEN names.exact ELSE names.prefix
  IN  IF Cardinality(match) = 1 THEN match ELSE {}

(* find_task: a machine that does not answer is left out.                  *)
Find(answering) ==
  /\ At("resolving")
  /\ \/ answering = Machine /\ UNCHANGED mishaps
     \/ answering # Machine /\ Mishap
  /\ bot' = LET found == Resolve(Candidates(Current.names, answering)) IN
            [bot EXCEPT !.target = found,
                        !.step = IF found = {} THEN "remembering" ELSE "acting"]
  /\ UNCHANGED <<outstanding, stored, unwritten, claimed, handled>> /\ Loop

(* send_instruction: what is typed answers what is asked.                  *)
SendInstruction(m) == agent[m].alive /\ agent' = [agent EXCEPT ![m].question = Nothing]

(* machine.stop, machine.instruct                                          *)
Act(m) ==
  /\ At("acting") /\ m \in bot.target
  /\ \/ /\ Current.what = "stop" /\ agent[m].alive
        /\ Ended(m) /\ UNCHANGED mishaps
     \/ Current.what = "ask" /\ SendInstruction(m) /\ UNCHANGED <<log, mishaps>>
     \/ ~agent[m].alive /\ UNCHANGED <<agent, log, mishaps>>
     \/ NotAccepted /\ UNCHANGED log
  /\ bot' = [bot EXCEPT !.step = "remembering", !.target = {}]
  /\ UNCHANGED <<poller, asks, watch, outstanding, chat, updates, stored, unwritten, claimed,
                 handled>>

-----------------------------------------------------------------------------
(* People, and the end of the daemon                                       *)

Sends(u) ==
  /\ Len(updates) < MaxUpdates
  /\ updates' = Append(updates, u)
  /\ UNCHANGED <<machines, memory, chat, stored, unwritten, claimed, handled, mishaps>>

(* Buttons come off one message, but the others who were told have theirs, *)
(* and taking them off may fail: any prompt may be tapped at any time.     *)
Tap(p)   == Sends([what |-> "tap", prompt |-> p])
Noise    == Sends([what |-> "noise"])
Order(c) == Sends(c)

(* What is in memory is gone, and the machines are followed from now on.   *)
Crash ==
  /\ Mishap
  /\ bot' = Started(stored)
  /\ outstanding' = [k \in Key |-> 0]
  /\ watch' = [m \in Machine |-> Len(log[m])]
  /\ UNCHANGED <<machines, chat, updates, stored, unwritten, claimed, handled>>

-----------------------------------------------------------------------------
Init ==
  /\ agent = [m \in Machine |-> [session |-> 0, alive |-> FALSE, question |-> Nothing,
                                 waits |-> FALSE]]
  /\ poller = [m \in Machine |-> 0] /\ log = [m \in Machine |-> <<>>] /\ asks = [m \in Machine |-> 0]
  /\ watch = [m \in Machine |-> 0] /\ outstanding = [k \in Key |-> 0]
  /\ chat = {} /\ updates = <<>> /\ bot = Started(0)
  /\ stored = 0 /\ unwritten = {} /\ claimed = {} /\ handled = 0 /\ mishaps = 0

Agents(m) == Asks(m) \/ Answered(m) \/ Ends(m) \/ Starts(m)
Polls(m)  == Notices(m) \/ Announces(m)
Run ==
  \/ GetUpdates \/ Remember \/ Ignore \/ Expire \/ Claim \/ Hear
  \/ \E m \in Machine : Answer(m) \/ Act(m)
  \/ \E answering \in SUBSET Machine : Find(answering)
People ==
  \/ \E p \in chat : Tap(p)
  \/ Noise
  \/ \E c \in Command : Order(c)

Next ==
  \/ \E m \in Machine : Agents(m) \/ Polls(m) \/ Push(m)
  \/ Run \/ People \/ Crash

Spec == Init /\ [][Next]_vars

(* The loop of the bot is a task of its own, and its requests time out.    *)
FairSpec == Spec /\ WF_vars(Run)

-----------------------------------------------------------------------------
(* What holds                                                              *)

(* A question is answered from the chat once at most: whoever else taps,   *)
(* however often, and whatever Telegram delivers again after a crash.      *)
OneAnswerPerPrompt == [][At("handling") /\ At("answering")' =>
  Current.prompt \notin claimed]_vars

(* What a tap is compared with is never older than what the bot has heard: *)
(* a session it takes for waiting is one whose waiting is the last it was  *)
(* told of it, so that a tap whose session has moved on expires as soon as *)
(* the news is there.                                                      *)
HeardEndsIt == \A m \in Machine, s \in Session :
  LET i == outstanding[key(m, s)] IN
  i # 0 => /\ i <= watch[m] /\ log[m][i].waiting /\ log[m][i].session = s
           /\ \A j \in i + 1 .. watch[m] : log[m][j].session # s

(* A crash has one update handled again at most, the last one, and none    *)
(* skipped; any other that is handled again is one whose own offset could  *)
(* not be stored.                                                          *)
ReplaysTheLastOnly == [][At("handling") /\ ~At("handling")' =>
  bot.at \in {handled, handled + 1} \cup unwritten]_vars

(* The bot gets to the end of what it was sent, past an update that cannot *)
(* be acted on or whose offset cannot be stored as past any other.         *)
UpdatesAreHandled == []<>(At("polling") /\ bot.at = Len(updates))
=============================================================================
