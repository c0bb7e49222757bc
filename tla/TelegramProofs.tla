--------------------------- MODULE TelegramProofs ---------------------------
(* What TLAPS proves of Telegram, for every fleet, all commands and any    *)
(* number of sessions, questions, updates and mishaps: one answer for each *)
(* prompt, taps that are compared with the latest news, and what a crash   *)
(* has the bot handle again.                                               *)
EXTENDS Telegram, TLAPS

-----------------------------------------------------------------------------
(* The invariant                                                           *)

AgentOK == \A m \in Machine : agent[m].alive => agent[m].session > 0

(* A tap that was sent is for a prompt that is in the chat.                *)
TapsOK == \A i \in 1 .. Len(updates) :
  updates[i] \in Update /\ (updates[i].what = "tap" => updates[i].prompt \in chat)

(* How far the bot has come in memory.                                     *)
Done == IF At("polling") THEN bot.at ELSE bot.at - 1

(* That is at least what is stored, every update until there was handled,  *)
(* and of those beyond what is stored only the last can have an offset     *)
(* that it was not tried to store.                                         *)
OffsetOK ==
  /\ ~At("polling") => bot.at > 0
  /\ stored <= Done /\ Done <= handled
  /\ ~At("polling") /\ ~At("handling") => handled >= bot.at
  /\ \A i \in stored + 1 .. handled : i < handled \/ i <= Done => i \in unwritten

(* A prompt is for news the bot has had, and once it is claimed its        *)
(* question is outstanding no more.                                        *)
PromptsOK == \A p \in chat :
  /\ p.asked <= watch[p.machine]
  /\ p \in claimed => outstanding[key(p.machine, p.session)] # p.asked

IInv == TypeOK /\ AgentOK /\ TapsOK /\ OffsetOK /\ PromptsOK /\ HeardEndsIt

(* What the constants are, without the commands.                           *)
LEMMA Bounds == /\ MaxSession \in Nat \ {0} /\ MaxMishaps \in Nat
                /\ MaxQuestion \in [Machine -> Nat]
BY TelegramAssumption

-----------------------------------------------------------------------------
(* The machines                                                            *)

(* What the machines do leaves the bot alone and lets their logs grow.     *)
LogGrows == \A m \in Machine : /\ Len(log[m]) <= Len(log'[m])
                               /\ \A i \in 1 .. Len(log[m]) : log'[m][i] = log[m][i]

MachinesOK ==
  /\ agent \in [Machine -> Agent] /\ poller \in [Machine -> 0 .. MaxSession]
  /\ log \in [Machine -> Seq(Event)]
  /\ asks \in [Machine -> Nat] /\ \A m \in Machine : asks[m] <= MaxQuestion[m]
  /\ AgentOK

(* A machine that says something adds to its log.                          *)
LEMMA SaysGrows ==
  ASSUME TypeOK, NEW m \in Machine, NEW s \in Session, NEW w \in BOOLEAN,
         NEW q \in Question \cup {Nothing}, Says(m, s, w, q)
  PROVE  log' \in [Machine -> Seq(Event)] /\ LogGrows
<1> DEFINE e == [session |-> s, waiting |-> w, shows |-> q]
<1>1. e \in Event  BY DEF Event
<1>2. log \in [Machine -> Seq(Event)] /\ log' = [log EXCEPT ![m] = Append(log[m], e)]
  BY DEF TypeOK, Says
<1> HIDE DEF e
<1>3. Append(log[m], e) \in Seq(Event)  BY <1>1, <1>2
<1>4. \A n \in Machine : log'[n] = IF n = m THEN Append(log[m], e) ELSE log[n]
  BY <1>2
<1>5. /\ Len(log[m]) <= Len(Append(log[m], e))
      /\ \A i \in 1 .. Len(log[m]) : Append(log[m], e)[i] = log[m][i]
  BY <1>1, <1>2
<1>6. ASSUME NEW n \in Machine
      PROVE  Len(log[n]) <= Len(log'[n]) /\ \A i \in 1 .. Len(log[n]) : log'[n][i] = log[n][i]
  <2>1. CASE n = m  BY <1>4, <1>5, <2>1
  <2>2. CASE n # m
    <3>1. log'[n] = log[n] /\ Len(log[n]) \in Nat  BY <1>2, <1>4, <2>2
    <3>. QED  BY <3>1
  <2>. QED  BY <2>1, <2>2
<1>. QED  BY <1>2, <1>3, <1>6 DEF LogGrows

(* A log that stays as it is has lost nothing.                             *)
LEMMA SameGrows == ASSUME TypeOK, UNCHANGED log PROVE LogGrows
<1>1. \A m \in Machine : Len(log[m]) \in Nat  BY DEF TypeOK
<1>. QED  BY <1>1 DEF LogGrows

(* An agent that is changed in one machine.                                *)
LEMMA AgentChanges ==
  ASSUME TypeOK, AgentOK, NEW m \in Machine, NEW a \in Agent, a.alive => a.session > 0,
         agent' = [agent EXCEPT ![m] = a]
  PROVE  agent' \in [Machine -> Agent] /\ AgentOK'
<1>1. agent \in [Machine -> Agent]  BY DEF TypeOK
<1>2. agent' \in [Machine -> Agent]  BY <1>1
<1>3. \A n \in Machine : agent'[n] = IF n = m THEN a ELSE agent[n]  BY <1>1
<1>. QED  BY <1>2, <1>3 DEF AgentOK
(* What a machine's agent may become.                                      *)
LEMMA NewAgents ==
  ASSUME NEW a \in Agent
  PROVE  /\ a.session \in 0 .. MaxSession
         /\ \A q \in Question \cup {Nothing} :
              [a EXCEPT !.question = q] \in Agent /\ [a EXCEPT !.question = q].session = a.session
         /\ [a EXCEPT !.waits = ~@] \in Agent /\ [a EXCEPT !.waits = ~@].session = a.session
         /\ [a EXCEPT !.alive = FALSE, !.question = Nothing, !.waits = FALSE] \in Agent
         /\ ~[a EXCEPT !.alive = FALSE, !.question = Nothing, !.waits = FALSE].alive
         /\ a.session < MaxSession =>
              /\ [a EXCEPT !.session = @ + 1, !.alive = TRUE] \in Agent
              /\ [a EXCEPT !.session = @ + 1, !.alive = TRUE].session > 0
<1>1. a = [session |-> a.session, alive |-> a.alive, question |-> a.question, waits |-> a.waits]
      /\ a.session \in 0 .. MaxSession /\ a.alive \in BOOLEAN /\ a.waits \in BOOLEAN
      /\ a.question \in Question \cup {Nothing}
  BY DEF Agent
<1>2. a.session < MaxSession => a.session + 1 \in 0 .. MaxSession /\ a.session + 1 > 0
  BY <1>1, Bounds
<1>3. \A q \in Question \cup {Nothing} : [a EXCEPT !.question = q] \in Agent
  BY DEF Agent
<1>4. [a EXCEPT !.waits = ~@] \in Agent
  BY DEF Agent
<1>5. [a EXCEPT !.alive = FALSE, !.question = Nothing, !.waits = FALSE] \in Agent
  BY DEF Agent
<1>6. a.session < MaxSession => /\ [a EXCEPT !.session = @ + 1, !.alive = TRUE] \in Agent
                                /\ [a EXCEPT !.session = @ + 1, !.alive = TRUE].session > 0
  BY <1>2 DEF Agent
<1>. QED  BY <1>1, <1>3, <1>4, <1>5, <1>6 DEF Agent

(* What is known of a machine before it steps.                             *)
LEMMA Before ==
  ASSUME IInv, NEW m \in Machine
  PROVE  /\ TypeOK /\ AgentOK /\ agent \in [Machine -> Agent] /\ agent[m] \in Agent
         /\ poller \in [Machine -> 0 .. MaxSession]
         /\ log \in [Machine -> Seq(Event)] /\ asks \in [Machine -> Nat]
         /\ \A n \in Machine : asks[n] <= MaxQuestion[n]
         /\ agent[m].session \in 0 .. MaxSession
         /\ agent[m].alive => agent[m].session \in Session
         /\ agent[m].question \in Question \cup {Nothing}
<1>1. /\ TypeOK /\ AgentOK /\ agent \in [Machine -> Agent] /\ agent[m] \in Agent
      /\ poller \in [Machine -> 0 .. MaxSession]
      /\ log \in [Machine -> Seq(Event)] /\ asks \in [Machine -> Nat]
      /\ \A n \in Machine : asks[n] <= MaxQuestion[n]
  BY DEF IInv, TypeOK
<1>2. agent[m].session \in 0 .. MaxSession /\ agent[m].question \in Question \cup {Nothing}
  BY <1>1 DEF Agent
<1>3. agent[m].alive => agent[m].session > 0  BY <1>1 DEF AgentOK
<1>4. agent[m].session > 0 => agent[m].session \in Session  BY <1>2, Bounds DEF Session
<1>. QED  BY <1>1, <1>2, <1>3, <1>4

(* An agent that ends, by itself or because the bot stops it.              *)
LEMMA EndedOK ==
  ASSUME IInv, NEW m \in Machine, agent[m].alive, Ended(m)
  PROVE  /\ agent' \in [Machine -> Agent] /\ AgentOK'
         /\ log' \in [Machine -> Seq(Event)] /\ LogGrows
<1> DEFINE a == [agent[m] EXCEPT !.alive = FALSE, !.question = Nothing, !.waits = FALSE]
<1>1. a \in Agent /\ ~a.alive  BY Before, NewAgents
<1>2. agent' = [agent EXCEPT ![m] = a]  BY Before DEF Ended
<1>3. Says(m, agent[m].session, FALSE, Nothing)  BY DEF Ended
<1> HIDE DEF a
<1>. QED  BY <1>1, <1>2, <1>3, Before, AgentChanges, SaysGrows

(* A step of a machine is none of the bot's.                               *)
LEMMA MachinesStep ==
  ASSUME IInv, NEW m \in Machine, Agents(m) \/ Polls(m)
  PROVE  MachinesOK' /\ LogGrows /\ Outside
<1>1. CASE Asks(m)
  <2> DEFINE a == [agent[m] EXCEPT !.question = asks[m] + 1]
  <2>1. asks[m] + 1 \in Question /\ asks[m] + 1 <= MaxQuestion[m] /\ agent[m].alive
    BY <1>1, Before, Bounds DEF Asks, Question
  <2>2. a \in Agent /\ a.session = agent[m].session  BY Before, <2>1, NewAgents
  <2>3. agent' = [agent EXCEPT ![m] = a]  BY Before, <1>1 DEF Asks
  <2>4. asks' = [asks EXCEPT ![m] = asks[m] + 1] /\ UNCHANGED <<poller, log>> /\ Outside
    BY <1>1, Before DEF Asks
  <2> HIDE DEF a
  <2>5. agent' \in [Machine -> Agent] /\ AgentOK'
    BY Before, <2>1, <2>2, <2>3, AgentChanges DEF AgentOK
  <2>6. asks' \in [Machine -> Nat] /\ \A n \in Machine : asks'[n] <= MaxQuestion[n]
    BY Before, <2>1, <2>4, Bounds DEF Question
  <2>. QED  BY Before, <2>4, <2>5, <2>6, SameGrows DEF MachinesOK
<1>2. CASE Answered(m)
  <2> DEFINE a == [agent[m] EXCEPT !.question = Nothing]
  <2>1. a \in Agent /\ a.session = agent[m].session /\ a.alive = agent[m].alive
    BY ZenonT(30), Before, NewAgents DEF Agent
  <2>2. agent' = [agent EXCEPT ![m] = a] /\ UNCHANGED <<poller, log, asks>> /\ Outside
    BY Before, <1>2 DEF Answered
  <2> HIDE DEF a
  <2>3. agent' \in [Machine -> Agent] /\ AgentOK'
    BY Before, <2>1, <2>2, AgentChanges DEF AgentOK
  <2>. QED  BY Before, <2>2, <2>3, SameGrows DEF MachinesOK
<1>3. CASE Notices(m)
  <2> DEFINE a == [agent[m] EXCEPT !.waits = ~@]
             q == IF agent[m].waits THEN 0 ELSE agent[m].session
  <2>1. a \in Agent /\ a.session = agent[m].session /\ a.alive = agent[m].alive
    BY ZenonT(30), Before, NewAgents DEF Agent
  <2>2. agent' = [agent EXCEPT ![m] = a] /\ poller' = [poller EXCEPT ![m] = q]
        /\ UNCHANGED asks /\ Outside /\ Says(m, agent[m].session, FALSE, Nothing) /\ agent[m].alive
    BY Before, <1>3 DEF Notices
  <2>3. q \in 0 .. MaxSession  BY Before, Bounds
  <2> HIDE DEF a, q
  <2>4. agent' \in [Machine -> Agent] /\ AgentOK'
    BY Before, <2>1, <2>2, AgentChanges DEF AgentOK
  <2>5. poller' \in [Machine -> 0 .. MaxSession]  BY Before, <2>2, <2>3
  <2>. QED  BY Before, <2>2, <2>4, <2>5, SaysGrows DEF MachinesOK
<1>4. CASE Announces(m)
  <2> DEFINE q == IF poller[m] = agent[m].session THEN agent[m].question ELSE Nothing
  <2>0. poller[m] \in 0 .. MaxSession /\ poller[m] # 0 /\ Says(m, poller[m], TRUE, q)
    BY Before, <1>4 DEF Announces
  <2>1. poller[m] \in Session /\ q \in Question \cup {Nothing}
    BY Before, <2>0, Bounds DEF Session
  <2>2. poller' = [poller EXCEPT ![m] = 0] /\ UNCHANGED <<agent, asks>> /\ Outside
    BY <1>4 DEF Announces
  <2> HIDE DEF q
  <2>3. poller' \in [Machine -> 0 .. MaxSession]  BY Before, <2>2, Bounds
  <2>4. AgentOK'  BY Before, <2>2 DEF AgentOK
  <2>. QED  BY Before, <2>0, <2>1, <2>2, <2>3, <2>4, SaysGrows DEF MachinesOK
<1>5. CASE Ends(m)
  BY Before, <1>5, EndedOK DEF Ends, MachinesOK
<1>6. CASE Starts(m)
  <2> DEFINE a == [agent[m] EXCEPT !.session = @ + 1, !.alive = TRUE]
  <2>0. agent[m].session < MaxSession /\ agent[m].session + 1 \in Session
    BY Before, <1>6, Bounds DEF Starts, Session
  <2>1. a \in Agent /\ a.session > 0
    BY Before, <2>0, NewAgents
  <2>2. Says(m, agent[m].session + 1, FALSE, Nothing) /\ UNCHANGED <<poller, asks>> /\ Outside
    BY <1>6 DEF Starts
  <2>4. agent' = [agent EXCEPT ![m] = a]
    BY Before, <1>6 DEF Starts
  <2> HIDE DEF a
  <2>3. agent' \in [Machine -> Agent] /\ AgentOK'  BY Before, <2>1, <2>4, AgentChanges
  <2>. QED  BY Before, <2>0, <2>2, <2>3, SaysGrows DEF MachinesOK
<1>. QED  BY <1>1, <1>2, <1>3, <1>4, <1>5, <1>6 DEF Agents, Polls

-----------------------------------------------------------------------------
(* What each part of the invariant rests on                                *)

(* News the bot has heard stays as it is.                                  *)
LEMMA HeardStays ==
  ASSUME IInv, LogGrows, log' \in [Machine -> Seq(Event)], UNCHANGED <<watch, outstanding>>
  PROVE  HeardEndsIt' /\ \A m \in Machine : watch'[m] <= Len(log'[m])
<1>1. /\ log \in [Machine -> Seq(Event)] /\ watch \in [Machine -> Nat]
      /\ outstanding \in [Key -> Nat] /\ \A m \in Machine : watch[m] <= Len(log[m])
  BY DEF IInv, TypeOK
<1>2. ASSUME NEW m \in Machine
      PROVE  Len(log[m]) \in Nat /\ Len(log'[m]) \in Nat /\ Len(log[m]) <= Len(log'[m])
             /\ \A i \in 1 .. watch[m] : log'[m][i] = log[m][i]
  BY <1>1 DEF LogGrows
<1>3. ASSUME NEW m \in Machine, NEW s \in Session, outstanding[key(m, s)] # 0
      PROVE  LET i == outstanding[key(m, s)] IN
             /\ i <= watch[m] /\ log'[m][i].waiting /\ log'[m][i].session = s
             /\ \A j \in i + 1 .. watch[m] : log'[m][j].session # s
  <2> DEFINE i == outstanding[key(m, s)]
  <2>1. i \in Nat \ {0}  BY <1>1, <1>3 DEF key, Key
  <2>2. /\ i <= watch[m] /\ log[m][i].waiting /\ log[m][i].session = s
        /\ \A j \in i + 1 .. watch[m] : log[m][j].session # s
    BY <1>3 DEF IInv, HeardEndsIt
  <2> HIDE DEF i
  <2>3. i \in 1 .. watch[m] /\ \A j \in i + 1 .. watch[m] : j \in 1 .. watch[m]
    BY <1>1, <2>1, <2>2
  <2>4. /\ log'[m][i].waiting /\ log'[m][i].session = s
        /\ \A j \in i + 1 .. watch[m] : log'[m][j].session # s
    BY <1>2, <2>2, <2>3
  <2>. QED  BY <2>2, <2>4 DEF i
<1>4. HeardEndsIt'  BY <1>3 DEF HeardEndsIt
<1>5. \A m \in Machine : watch'[m] <= Len(log'[m])
  BY <1>1, <1>2
<1>. QED  BY <1>4, <1>5

(* The bot, where it is and what it has stored.                            *)
BotOK == /\ bot \in Bot /\ bot.at <= bot.upto /\ bot.upto <= Len(updates)
         /\ stored \in 0 .. handled /\ handled \in 0 .. Len(updates)
         /\ unwritten \subseteq Nat /\ mishaps \in 0 .. MaxMishaps /\ OffsetOK

(* A step of the machines, of the bot, or of both, which hears nothing new *)
(* and claims no prompt.                                                   *)
LEMMA QuietStep ==
  ASSUME IInv, MachinesOK', LogGrows, BotOK',
         UNCHANGED <<watch, outstanding, chat, updates, claimed>>
  PROVE  IInv'
<1>1. log' \in [Machine -> Seq(Event)]  BY DEF MachinesOK
<1>2. HeardEndsIt' /\ \A m \in Machine : watch'[m] <= Len(log'[m])  BY <1>1, HeardStays
<1>3. TapsOK'  BY DEF IInv, TapsOK
<1>4. PromptsOK'  BY DEF IInv, PromptsOK
<1>5. TypeOK'  BY <1>2 DEF IInv, TypeOK, MachinesOK, BotOK
<1>. QED  BY <1>2, <1>3, <1>4, <1>5 DEF IInv, MachinesOK, BotOK

(* Where the bot is before it steps.                                       *)
LEMMA BotBefore ==
  ASSUME IInv
  PROVE  /\ bot \in Bot /\ bot.at \in Nat /\ bot.upto \in Nat /\ bot.at <= bot.upto
         /\ Len(updates) \in Nat /\ bot.upto <= Len(updates) /\ updates \in Seq(Update)
         /\ stored \in Nat /\ handled \in Nat /\ stored <= handled /\ Done \in Nat
         /\ handled <= Len(updates) /\ mishaps \in 0 .. MaxMishaps /\ OffsetOK
         /\ bot.step = "polling" => bot.at = Done
         /\ bot.step # "polling" => bot.at = Done + 1 /\ bot.at \in 1 .. Len(updates)
         /\ unwritten \subseteq Nat
         /\ MachinesOK
<1>1. /\ bot \in Bot /\ bot.at <= bot.upto
      /\ bot.upto <= Len(updates) /\ updates \in Seq(Update)
      /\ stored \in 0 .. handled /\ handled \in 0 .. Len(updates)
      /\ unwritten \subseteq Nat /\ mishaps \in 0 .. MaxMishaps /\ OffsetOK
  BY DEF IInv, TypeOK
<1>2. bot.at \in Nat /\ bot.upto \in Nat /\ Len(updates) \in Nat  BY <1>1 DEF Bot
<1>3. stored \in Nat /\ handled \in Nat /\ stored <= handled /\ handled <= Len(updates)
  BY <1>1, <1>2
<1>4. /\ Done \in Nat /\ (bot.step = "polling" => bot.at = Done)
      /\ bot.step # "polling" => bot.at = Done + 1 /\ bot.at \in 1 .. Len(updates)
  BY <1>1, <1>2 DEF OffsetOK, Done, At
<1>5. MachinesOK  BY DEF IInv, TypeOK, MachinesOK
<1>. QED  BY <1>1, <1>2, <1>3, <1>4, <1>5

(* The bot goes on to another step with the update it is at.               *)
LEMMA TurnOK ==
  ASSUME IInv, ~At("polling"), NEW step \in {"answering", "resolving", "acting", "remembering"},
         NEW t \in SUBSET Machine, bot' = [bot EXCEPT !.step = step, !.target = t],
         \/ At("handling") /\ handled' = IF bot.at > handled THEN bot.at ELSE handled
         \/ ~At("handling") /\ UNCHANGED handled,
         UNCHANGED <<updates, stored, unwritten>>, mishaps' \in 0 .. MaxMishaps
  PROVE  BotOK'
<1>1. /\ bot' \in Bot /\ bot'.step = step /\ bot'.at = bot.at /\ bot'.upto = bot.upto
  BY BotBefore DEF Bot
<1>2. bot.at = Done + 1 /\ bot.at \in 1 .. Len(updates) /\ Done \in Nat
  BY BotBefore DEF At
<1>3. handled' \in Nat /\ handled' >= bot.at /\ handled' <= Len(updates) /\ handled <= handled'
      /\ (handled' = handled \/ (handled' = bot.at /\ handled < bot.at))
  <2>1. CASE At("handling")  BY <2>1, <1>2, BotBefore DEF At
  <2>2. CASE ~At("handling")  BY <2>2, <1>2, BotBefore DEF At, OffsetOK
  <2>. QED  BY <2>1, <2>2
<1>4. OffsetOK'
  <2>1. Done' = Done /\ ~At("polling")'  BY <1>1 DEF Done, At
  <2>2. /\ stored <= Done /\ Done <= handled
        /\ \A i \in stored + 1 .. handled : i < handled \/ i <= Done => i \in unwritten
    BY BotBefore DEF OffsetOK
  <2>3. ASSUME NEW i \in stored + 1 .. handled', i < handled' \/ i <= Done
        PROVE  i \in unwritten
    <3>1. i <= handled  BY <1>2, <1>3, <2>2, <2>3, BotBefore
    <3>2. i \in stored + 1 .. handled  BY <3>1, BotBefore
    <3>3. i < handled \/ i <= Done  BY <1>2, <1>3, <2>2, <2>3, <3>1, BotBefore
    <3>. QED  BY <2>2, <3>2, <3>3
  <2>4. stored <= Done /\ Done <= handled'  BY <1>2, <1>3, BotBefore, <2>2
  <2>5. bot'.at > 0 /\ handled' >= bot'.at  BY <1>1, <1>2, <1>3
  <2>. QED  BY <2>1, <2>3, <2>4, <2>5 DEF OffsetOK
<1>5. stored' \in 0 .. handled' /\ handled' \in 0 .. Len(updates')
  BY <1>2, <1>3, BotBefore
<1>. QED  BY <1>1, <1>4, <1>5, BotBefore DEF BotOK

-----------------------------------------------------------------------------
(* The bot                                                                 *)

(* A step of the bot that leaves the machines alone.                       *)
LEMMA LoopKeeps ==
  ASSUME IInv, UNCHANGED machines
  PROVE  MachinesOK' /\ LogGrows
<1>1. MachinesOK  BY BotBefore
<1>. QED  BY <1>1, SameGrows DEF machines, MachinesOK, AgentOK, IInv

(* The bot takes up the next update.                                       *)
LEMMA NextUpdate ==
  ASSUME NEW b \in Bot, NEW n \in Nat
  PROVE  /\ LET c == [b EXCEPT !.step = "handling", !.at = @ + 1, !.upto = n] IN
              c \in Bot /\ c.step = "handling" /\ c.at = b.at + 1 /\ c.upto = n
         /\ LET c == [b EXCEPT !.step = "handling", !.at = @ + 1] IN
              c \in Bot /\ c.step = "handling" /\ c.at = b.at + 1 /\ c.upto = b.upto
<1>1. b.at + 1 \in Nat  BY DEF Bot
<1>. QED  BY <1>1, Zenon DEF Bot

(* A batch of updates is fetched.                                          *)
LEMMA GetUpdatesStep == ASSUME IInv, GetUpdates PROVE IInv'
<1>1. /\ bot.step = "polling" /\ Len(updates) > bot.at
      /\ bot' = [bot EXCEPT !.step = "handling", !.at = @ + 1, !.upto = Len(updates)]
      /\ UNCHANGED machines /\ UNCHANGED <<watch, outstanding, chat, updates, claimed>>
      /\ UNCHANGED <<stored, unwritten, handled, mishaps>>
  BY DEF GetUpdates, Loop, At, machines
<1>2. bot' \in Bot /\ bot'.step = "handling" /\ bot'.at = bot.at + 1 /\ bot'.upto = Len(updates)
  BY <1>1, BotBefore, NextUpdate
<1>3. Done' = Done /\ bot'.at > 0 /\ At("handling")'  BY <1>1, <1>2, BotBefore DEF Done, At
<1>4. OffsetOK'  BY <1>1, <1>3, BotBefore DEF OffsetOK, At
<1>5. BotOK'  BY <1>1, <1>2, <1>4, BotBefore DEF BotOK
<1>. QED  BY <1>1, <1>5, LoopKeeps, QuietStep

(* The offset is stored, once the update has been handled, or cannot be.   *)
LEMMA RememberStep == ASSUME IInv, Remember PROVE IInv'
<1>1. /\ bot.step = "remembering" /\ mishaps' \in 0 .. MaxMishaps
      /\ \/ stored' = bot.at /\ unwritten' = unwritten
         \/ stored' = stored /\ unwritten' = unwritten \cup {bot.at}
      /\ bot' = IF bot.at < bot.upto THEN [bot EXCEPT !.step = "handling", !.at = @ + 1]
                ELSE Started(bot.at)
      /\ UNCHANGED machines /\ UNCHANGED <<watch, outstanding, chat, updates, claimed, handled>>
  BY BotBefore, Bounds DEF Remember, NextInBatch, Loop, At, Mishap, machines
<1>2. /\ bot' \in Bot /\ bot'.at \in Nat /\ bot'.at <= bot'.upto /\ bot'.upto <= Len(updates)
      /\ \/ bot'.step = "handling" /\ bot'.at = bot.at + 1
         \/ bot'.step = "polling" /\ bot'.at = bot.at
  <2>1. CASE bot.at < bot.upto
    <3>1. bot' \in Bot /\ bot'.step = "handling" /\ bot'.at = bot.at + 1 /\ bot'.upto = bot.upto
      BY <1>1, <2>1, BotBefore, NextUpdate
    <3>. QED  BY <2>1, <3>1, BotBefore
  <2>2. CASE ~(bot.at < bot.upto)
    <3>1. bot' \in Bot /\ bot'.step = "polling" /\ bot'.at = bot.at /\ bot'.upto = bot.at
      BY <1>1, <2>2, BotBefore DEF Bot, Started
    <3>. QED  BY <3>1, BotBefore
  <2>. QED  BY <2>1, <2>2
<1>3. bot.at = Done + 1 /\ Done \in Nat /\ stored <= Done /\ handled >= bot.at
  BY <1>1, BotBefore DEF OffsetOK, At
<1>4. Done' = bot.at  BY <1>2, <1>3 DEF Done, At
<1>5. OffsetOK'
  <2>1. ASSUME NEW i \in stored' + 1 .. handled, i < handled \/ i <= bot.at
        PROVE  i \in unwritten'
    <3>1. CASE i = bot.at
      <4>1. stored' = stored  BY <1>1, <1>3, <2>1, <3>1, BotBefore
      <4>. QED  BY <1>1, <1>3, <3>1, <4>1, BotBefore
    <3>2. CASE i # bot.at
      <4>1. i \in stored + 1 .. handled  BY <1>1, <1>3, <2>1, BotBefore
      <4>2. i < handled \/ i <= Done  BY <1>3, <2>1, <3>2, <4>1, BotBefore
      <4>3. i \in unwritten  BY <4>1, <4>2, BotBefore DEF OffsetOK
      <4>. QED  BY <1>1, <4>3
    <3>. QED  BY <3>1, <3>2
  <2>2. stored' <= bot.at /\ bot.at <= handled  BY <1>1, <1>3, BotBefore
  <2>3. (~At("polling") => bot.at > 0)' /\ ~(~At("polling") /\ ~At("handling"))'
    BY <1>2, BotBefore DEF At
  <2>. QED  BY <1>1, <1>4, <2>1, <2>2, <2>3 DEF OffsetOK
<1>6. stored' \in 0 .. handled /\ unwritten' \subseteq Nat  BY <1>1, <1>3, BotBefore
<1>7. BotOK'  BY <1>1, <1>2, <1>5, <1>6, BotBefore DEF BotOK
<1>. QED  BY <1>1, <1>7, LoopKeeps, QuietStep

(* An update that is handled, and claims nothing.                          *)
LEMMA HandledStep == ASSUME IInv, Ignore \/ Expire \/ Hear PROVE IInv'
<1>1. PICK step \in {"resolving", "remembering"} : Turn(step)
  BY DEF Ignore, Expire, Hear
<1>2. /\ bot.step = "handling" /\ handled' = (IF bot.at > handled THEN bot.at ELSE handled)
      /\ UNCHANGED machines /\ UNCHANGED <<watch, outstanding, chat, updates, claimed>>
      /\ UNCHANGED <<stored, unwritten, mishaps>>
  BY DEF Ignore, Expire, Hear, Handling, Loop, At, machines
<1>3. bot' = [bot EXCEPT !.step = step, !.target = bot.target] /\ bot.target \in SUBSET Machine
  BY <1>1, BotBefore DEF Turn, Bot
<1>4. BotOK'  BY <1>2, <1>3, TurnOK, BotBefore DEF At
<1>. QED  BY <1>2, <1>4, LoopKeeps, QuietStep

(* What a tap says and the agent hears.                                    *)
LEMMA AnswerStep == ASSUME IInv, NEW m \in Machine, Answer(m) PROVE IInv'
<1>1. /\ bot.step = "answering" /\ Turn("remembering") /\ mishaps' \in 0 .. MaxMishaps
      /\ UNCHANGED <<log, poller, asks, watch, outstanding, chat, updates>>
      /\ UNCHANGED <<stored, unwritten, claimed, handled>>
  BY BotBefore, Bounds DEF Answer, MachineAnswer, SendAnswer, NotAccepted, At, Others, Mishap
<1>2. bot' = [bot EXCEPT !.step = "remembering", !.target = bot.target]
      /\ bot.target \in SUBSET Machine
  BY <1>1, BotBefore DEF Turn, Bot
<1>3. BotOK'  BY <1>1, <1>2, TurnOK, BotBefore DEF At
<1>4. agent' \in [Machine -> Agent] /\ AgentOK'
  <2>1. CASE agent' = [agent EXCEPT ![m].question = Nothing]
    <3> DEFINE a == [agent[m] EXCEPT !.question = Nothing]
    <3>1. a \in Agent /\ a.session = agent[m].session /\ a.alive = agent[m].alive
      BY ZenonT(30), Before, NewAgents DEF Agent
    <3>2. agent' = [agent EXCEPT ![m] = a]  BY Before, <2>1
    <3> HIDE DEF a
    <3>. QED  BY Before, <3>1, <3>2, AgentChanges DEF AgentOK
  <2>2. CASE UNCHANGED agent  BY <2>2, Before DEF AgentOK
  <2>. QED  BY <2>1, <2>2 DEF Answer, MachineAnswer, SendAnswer, NotAccepted
<1>5. MachinesOK'  BY <1>1, <1>4, Before DEF MachinesOK
<1>. QED  BY <1>1, <1>3, <1>5, Before, SameGrows, QuietStep

(* The task that a command names is looked for.                            *)
LEMMA FindStep == ASSUME IInv, NEW answering \in SUBSET Machine, Find(answering) PROVE IInv'
<1> DEFINE found == Resolve(Candidates(Current.names, answering))
           step  == IF found = {} THEN "remembering" ELSE "acting"
<1>1. /\ bot.step = "resolving" /\ mishaps' \in 0 .. MaxMishaps
      /\ UNCHANGED machines /\ UNCHANGED <<watch, outstanding, chat, updates, claimed>>
      /\ UNCHANGED <<stored, unwritten, handled>>
  BY BotBefore, Bounds DEF Find, Loop, At, Mishap, machines
<1>2. bot' = [bot EXCEPT !.step = step, !.target = found]
  <2>1. bot' = [bot EXCEPT !.target = found, !.step = step]  BY DEF Find
  <2>. QED  BY <2>1, BotBefore DEF Bot
<1>3. found \in SUBSET Machine  BY DEF Resolve, Candidates
<1>4. step \in {"remembering", "acting"}  OBVIOUS
<1> HIDE DEF found, step
<1>5. BotOK'  BY <1>1, <1>2, <1>3, <1>4, TurnOK DEF At
<1>. QED  BY <1>1, <1>5, LoopKeeps, QuietStep

(* A command reaches its machine, or does not.                             *)
LEMMA ActStep == ASSUME IInv, NEW m \in Machine, Act(m) PROVE IInv'
<1>1. /\ bot.step = "acting" /\ bot' = [bot EXCEPT !.step = "remembering", !.target = {}]
      /\ mishaps' \in 0 .. MaxMishaps
      /\ UNCHANGED <<poller, asks, watch, outstanding, chat, updates>>
      /\ UNCHANGED <<stored, unwritten, claimed, handled>>
  BY BotBefore, Bounds DEF Act, NotAccepted, At, Mishap
<1>2. BotOK'
  <2>1. {} \in SUBSET Machine /\ ~At("polling") /\ ~At("handling")
       /\ UNCHANGED <<handled, updates, stored, unwritten>>
    BY <1>1 DEF At
  <2>. QED  BY <1>1, <2>1, TurnOK
<1>3. /\ agent' \in [Machine -> Agent] /\ AgentOK'
      /\ log' \in [Machine -> Seq(Event)] /\ LogGrows
  <2>1. CASE agent[m].alive /\ Ended(m)  BY <2>1, EndedOK
  <2>2. CASE agent' = [agent EXCEPT ![m].question = Nothing] /\ UNCHANGED log
    <3> DEFINE a == [agent[m] EXCEPT !.question = Nothing]
    <3>1. a \in Agent /\ a.session = agent[m].session /\ a.alive = agent[m].alive
      BY ZenonT(30), Before, NewAgents DEF Agent
    <3>2. agent' = [agent EXCEPT ![m] = a]  BY Before, <2>2
    <3> HIDE DEF a
    <3>. QED  BY Before, <2>2, <3>1, <3>2, AgentChanges, SameGrows DEF AgentOK
  <2>3. CASE UNCHANGED <<agent, log>>  BY <2>3, Before, SameGrows DEF AgentOK
  <2>. QED  BY <2>1, <2>2, <2>3 DEF Act, SendInstruction, NotAccepted
<1>4. MachinesOK'  BY <1>1, <1>3, Before DEF MachinesOK
<1>. QED  BY <1>1, <1>2, <1>3, <1>4, QuietStep

(* A prompt that is claimed leaves its session with no question.           *)
LEMMA ClaimStep == ASSUME IInv, Claim PROVE IInv'
<1> DEFINE p == Current.prompt
           k == key(p.machine, p.session)
<1>1. /\ bot.step = "handling" /\ Current.what = "tap" /\ Turn("answering")
      /\ outstanding' = [outstanding EXCEPT ![k] = 0] /\ claimed' = claimed \cup {p}
      /\ handled' = (IF bot.at > handled THEN bot.at ELSE handled)
      /\ UNCHANGED machines /\ UNCHANGED <<watch, chat, updates, stored, unwritten, mishaps>>
  BY DEF Claim, Handling, Loop, At, machines
<1>2. p \in chat /\ p \in Prompt /\ k \in Key
  <2>1. bot.at \in 1 .. Len(updates)  BY <1>1, BotBefore
  <2>2. p \in chat  BY <1>1, <2>1 DEF Current, IInv, TapsOK
  <2>3. p \in Prompt  BY <2>2 DEF IInv, TypeOK
  <2>. QED  BY <2>2, <2>3 DEF Prompt, key, Key
<1>3. bot' = [bot EXCEPT !.step = "answering", !.target = bot.target]
      /\ bot.target \in SUBSET Machine
  BY <1>1, BotBefore DEF Turn, Bot
<1>4. BotOK'  BY <1>1, <1>3, TurnOK, BotBefore DEF At
<1>5. MachinesOK' /\ LogGrows  BY <1>1, LoopKeeps
<1> HIDE DEF k, p
<1>6. outstanding' \in [Key -> Nat] /\ \A l \in Key : outstanding'[l] \in {0, outstanding[l]}
      /\ outstanding'[k] = 0
  BY <1>1, <1>2 DEF IInv, TypeOK
<1>7. PromptsOK'
  <2>1. ASSUME NEW q \in chat, q \in claimed'
        PROVE  outstanding'[key(q.machine, q.session)] # q.asked
    <3>1. q \in Prompt /\ q.asked # 0 /\ key(q.machine, q.session) \in Key
      BY DEF IInv, TypeOK, Prompt, Id, key, Key
    <3>2. CASE q = p  BY <3>1, <3>2, <1>6 DEF k
    <3>3. CASE q # p
      <4>1. outstanding[key(q.machine, q.session)] # q.asked
        BY <1>1, <2>1, <3>3 DEF IInv, PromptsOK
      <4>. QED  BY <3>1, <4>1, <1>6
    <3>. QED  BY <3>2, <3>3
  <2>. QED  BY <1>1, <2>1 DEF PromptsOK, IInv
<1>8. HeardEndsIt'
  <2>1. \A m \in Machine, s \in Session : key(m, s) \in Key  BY DEF key, Key
  <2>. QED  BY <1>1, <1>6, <2>1 DEF HeardEndsIt, IInv, machines
<1>9. TapsOK'  BY <1>1 DEF IInv, TapsOK
<1>10. TypeOK'
  BY <1>1, <1>2, <1>4, <1>5, <1>6 DEF IInv, TypeOK, MachinesOK, BotOK, machines
<1>. QED  BY <1>4, <1>5, <1>7, <1>8, <1>9, <1>10 DEF IInv, MachinesOK, BotOK

(* Hearing of a session: its question is the news, or is forgotten.        *)
LEMMA PushStep == ASSUME IInv, NEW m \in Machine, Push(m) PROVE IInv'
<1> DEFINE i == watch[m] + 1
           e == log[m][i]
           k == key(m, e.session)
           q == IF e.waiting THEN i ELSE 0
           p == [machine |-> m, session |-> e.session, asked |-> i, shows |-> e.shows]
<1>1. /\ i <= Len(log[m]) /\ watch' = [watch EXCEPT ![m] = i]
      /\ outstanding' = [outstanding EXCEPT ![k] = q]
      /\ UNCHANGED machines /\ UNCHANGED <<bot, updates, stored, unwritten, claimed, handled>>
  BY DEF Push, Forget, machines
<1>2. (chat' = chat \cup {p} /\ e.waiting /\ e.shows # Nothing) \/ UNCHANGED chat
  BY DEF Push
<1>3. /\ log \in [Machine -> Seq(Event)] /\ watch \in [Machine -> Nat]
      /\ outstanding \in [Key -> Nat] /\ chat \subseteq Prompt /\ claimed \subseteq chat
      /\ \A n \in Machine : watch[n] <= Len(log[n])
  BY DEF IInv, TypeOK
<1>4. i \in Nat \ {0} /\ i \in 1 .. Len(log[m]) /\ e \in Event  BY <1>1, <1>3
<1>5. k \in Key /\ q \in Nat /\ e.session \in Session /\ e.waiting \in BOOLEAN
      /\ (e.shows # Nothing => p \in Prompt)
  BY <1>4 DEF Event, Key, key, Prompt, Id
<1>6. mishaps' \in 0 .. MaxMishaps  BY BotBefore, Bounds DEF Push, Mishap
<1>7. MachinesOK' /\ LogGrows  BY <1>1, LoopKeeps
<1>8. p.machine = m /\ p.asked = i /\ p.session = e.session  OBVIOUS
<1>9. \A n \in Machine : watch'[n] = IF n = m THEN i ELSE watch[n]  BY <1>1, <1>3
<1>10. \A l \in Key : outstanding'[l] = IF l = k THEN q ELSE outstanding[l]  BY <1>1, <1>3
<1>q. q = 0 \/ (q = i /\ e.waiting)  OBVIOUS
<1>k. k = <<m, e.session>>  BY DEF key
<1>e. i = watch[m] + 1 /\ e = log[m][i]  OBVIOUS
<1> HIDE DEF i, e, k, q, p
<1>11. PromptsOK'
  <2>1. ASSUME NEW r \in chat', r \in chat
        PROVE  /\ r.asked <= watch'[r.machine]
               /\ r \in claimed => outstanding'[key(r.machine, r.session)] # r.asked
    <3>1. r.machine \in Machine /\ r.asked \in Nat \ {0} /\ key(r.machine, r.session) \in Key
      BY <1>3, <2>1 DEF Prompt, Id, key, Key
    <3>2. r.asked <= watch[r.machine]
          /\ (r \in claimed => outstanding[key(r.machine, r.session)] # r.asked)
      BY <2>1 DEF IInv, PromptsOK
    <3>3. r.asked <= watch'[r.machine]
      <4>1. watch[r.machine] \in Nat /\ watch'[r.machine] \in {watch[r.machine], watch[r.machine] + 1}
        BY <1>3, <1>9, <1>e, <3>1
      <4>. QED  BY <3>1, <3>2, <4>1
    <3>4. key(r.machine, r.session) = k => r.machine = m  BY <1>k DEF key
    <3>5. r.machine = m => r.asked # i  BY <1>3, <1>e, <3>1, <3>2
    <3>6. q # r.asked \/ key(r.machine, r.session) # k  BY <1>q, <3>1, <3>4, <3>5
    <3>. QED  BY <1>10, <3>1, <3>2, <3>3, <3>6
  <2>2. ASSUME NEW r \in chat', r \notin chat
        PROVE  r.asked <= watch'[r.machine] /\ r \notin claimed
    <3>1. r = p /\ r \notin claimed  BY <1>2, <1>3, <2>2
    <3>. QED  BY <3>1, <1>4, <1>8, <1>9
  <2>. QED  BY <1>1, <2>1, <2>2 DEF PromptsOK
<1>12. ASSUME NEW n \in Machine, NEW s \in Session, outstanding'[key(n, s)] # 0
       PROVE  LET j == outstanding'[key(n, s)] IN
              /\ j <= watch'[n] /\ log[n][j].waiting /\ log[n][j].session = s
              /\ \A l \in j + 1 .. watch'[n] : log[n][l].session # s
  <2>1. key(n, s) \in Key  BY DEF key, Key
  <2>2. CASE key(n, s) = k
    <3>1. n = m /\ s = e.session  BY <1>k, <2>2 DEF key
    <3>2. outstanding'[key(n, s)] = i /\ e.waiting  BY <1>10, <1>q, <1>12, <2>1, <2>2
    <3>3. watch'[n] = i /\ log[n][i] = e  BY <1>9, <1>e, <3>1
    <3>4. \A l \in i + 1 .. i : FALSE  BY <1>4
    <3>. QED  BY <1>4, <3>1, <3>2, <3>3, <3>4
  <2>3. CASE key(n, s) # k
    <3> DEFINE j == outstanding[key(n, s)]
    <3>1. outstanding'[key(n, s)] = j /\ j # 0 /\ j \in Nat  BY <1>3, <1>10, <1>12, <2>1, <2>3
    <3>2. /\ j <= watch[n] /\ log[n][j].waiting /\ log[n][j].session = s
          /\ \A l \in j + 1 .. watch[n] : log[n][l].session # s
      BY <3>1 DEF IInv, HeardEndsIt
    <3> HIDE DEF j
    <3>3. CASE n # m
      BY <1>9, <3>1, <3>2, <3>3
    <3>4. CASE n = m
      <4>1. s # e.session  BY <1>k, <2>3, <3>4 DEF key
      <4>2. watch'[n] = watch[n] + 1 /\ watch[n] \in Nat /\ log[n][watch[n] + 1] = e
        BY <1>3, <1>9, <1>e, <3>4
      <4>3. \A l \in j + 1 .. watch[n] + 1 : l \in j + 1 .. watch[n] \/ l = watch[n] + 1
        BY <4>2, <3>1
      <4>4. \A l \in j + 1 .. watch'[n] : log[n][l].session # s
        BY <3>2, <4>1, <4>2, <4>3
      <4>5. j <= watch'[n]  BY <3>1, <3>2, <4>2
      <4>. QED  BY <3>1, <3>2, <4>4, <4>5
    <3>. QED  BY <3>3, <3>4
  <2>. QED  BY <2>2, <2>3
<1>13. HeardEndsIt'  BY <1>1, <1>12 DEF HeardEndsIt, machines
<1>14. TapsOK'  BY <1>1, <1>2 DEF IInv, TapsOK
<1>15. BotOK'  BY <1>1, <1>6, BotBefore DEF BotOK, OffsetOK, Done, At
<1>16. watch' \in [Machine -> Nat] /\ \A n \in Machine : watch'[n] <= Len(log'[n])
  <2>1. watch' \in [Machine -> Nat]  BY <1>1, <1>3, <1>4
  <2>. QED  BY <2>1, <1>1, <1>3, <1>9 DEF machines
<1>17. outstanding' \in [Key -> Nat] /\ chat' \subseteq Prompt /\ claimed' \subseteq chat'
  <2>1. outstanding' \in [Key -> Nat]  BY <1>1, <1>3, <1>5
  <2>. QED  BY <2>1, <1>1, <1>2, <1>3, <1>5
<1>18. TypeOK'  BY <1>1, <1>7, <1>15, <1>16, <1>17 DEF IInv, TypeOK, MachinesOK, BotOK
<1>. QED  BY <1>7, <1>11, <1>13, <1>14, <1>15, <1>18 DEF IInv, MachinesOK, BotOK

-----------------------------------------------------------------------------
(* People, and crashes                                                     *)

(* Something is sent; a tap is for a prompt that is in the chat.           *)
LEMMA SendsStep ==
  ASSUME IInv, NEW u \in Update, Sends(u), u.what = "tap" => u.prompt \in chat
  PROVE  IInv'
<1>1. /\ updates' = Append(updates, u) /\ UNCHANGED machines
      /\ UNCHANGED <<watch, outstanding, bot, chat, stored, unwritten, claimed, handled, mishaps>>
  BY DEF Sends, memory, machines
<1>2. updates \in Seq(Update)  BY BotBefore
<1>3. /\ updates' \in Seq(Update) /\ Len(updates') = Len(updates) + 1
      /\ updates'[Len(updates) + 1] = u
      /\ \A i \in 1 .. Len(updates) : updates'[i] = updates[i]
  BY <1>1, <1>2
<1>4. MachinesOK' /\ LogGrows  BY <1>1, LoopKeeps
<1>5. TapsOK'
  <2>1. ASSUME NEW i \in 1 .. Len(updates) + 1
        PROVE  updates'[i] \in Update /\ (updates'[i].what = "tap" => updates'[i].prompt \in chat)
    <3>1. CASE i = Len(updates) + 1  BY <1>3, <3>1
    <3>2. CASE i # Len(updates) + 1
      <4>1. i \in 1 .. Len(updates)  BY <3>2, BotBefore
      <4>. QED  BY <1>3, <4>1 DEF IInv, TapsOK
    <3>. QED  BY <3>1, <3>2
  <2>. QED  BY <1>1, <1>3, <2>1 DEF TapsOK
<1>6. bot.upto <= Len(updates') /\ handled \in 0 .. Len(updates') /\ stored \in 0 .. handled
  BY <1>3, BotBefore
<1>7. BotOK'  BY <1>1, <1>6, BotBefore DEF BotOK, OffsetOK, Done, At
<1>8. PromptsOK' /\ HeardEndsIt'  BY <1>1 DEF IInv, PromptsOK, HeardEndsIt, machines
<1>9. TypeOK'  BY <1>1, <1>3, <1>4, <1>7 DEF IInv, TypeOK, MachinesOK, BotOK, machines
<1>. QED  BY <1>4, <1>5, <1>7, <1>8, <1>9 DEF IInv, MachinesOK, BotOK

(* Whatever people send.                                                   *)
LEMMA PeopleStep == ASSUME IInv, People PROVE IInv'
<1>1. ASSUME NEW p \in chat, Tap(p) PROVE IInv'
  <2> DEFINE u == [what |-> "tap", prompt |-> p]
  <2>1. u \in Update /\ u.prompt \in chat  BY DEF Update, IInv, TypeOK
  <2>2. Sends(u)  BY <1>1 DEF Tap
  <2> HIDE DEF u
  <2>. QED  BY <2>1, <2>2, SendsStep
<1>2. ASSUME Noise PROVE IInv'
  <2> DEFINE u == [what |-> "noise"]
  <2>1. u \in Update /\ u.what # "tap"  BY DEF Update
  <2>2. Sends(u)  BY <1>2 DEF Noise
  <2> HIDE DEF u
  <2>. QED  BY <2>1, <2>2, SendsStep
<1>3. ASSUME NEW c \in Command, Order(c) PROVE IInv'
  <2>1. c \in Update /\ c.what # "tap"  BY TelegramAssumption DEF Update
  <2>. QED  BY <1>3, <2>1, SendsStep DEF Order
<1>. QED  BY <1>1, <1>2, <1>3 DEF People

(* What was in memory is forgotten; no prompt that was shown is asked.     *)
LEMMA CrashStep == ASSUME IInv, Crash PROVE IInv'
<1>1. /\ bot' = Started(stored) /\ outstanding' = [k \in Key |-> 0]
      /\ watch' = [m \in Machine |-> Len(log[m])] /\ mishaps' \in 0 .. MaxMishaps
      /\ UNCHANGED machines /\ UNCHANGED <<chat, updates, stored, unwritten, claimed, handled>>
  BY BotBefore, Bounds DEF Crash, Mishap, machines
<1>2. MachinesOK' /\ LogGrows  BY <1>1, LoopKeeps
<1>3. log \in [Machine -> Seq(Event)] /\ chat \subseteq Prompt /\ claimed \subseteq chat
      /\ updates \in Seq(Update) /\ \A m \in Machine : watch[m] <= Len(log[m]) /\ watch[m] \in Nat
  BY DEF IInv, TypeOK
<1>4. bot' \in Bot /\ bot'.step = "polling" /\ bot'.at = stored /\ bot'.upto = stored
  BY <1>1, BotBefore DEF Bot, Started
<1>5. BotOK'
  <2>1. Done' = stored /\ At("polling")'  BY <1>1, <1>4 DEF Done, At
  <2>2. \A i \in stored + 1 .. handled : i < handled \/ i <= stored => i \in unwritten
    BY BotBefore DEF OffsetOK
  <2>3. OffsetOK'  BY <1>1, <2>1, <2>2, BotBefore DEF OffsetOK
  <2>. QED  BY <1>1, <1>4, <2>3, BotBefore DEF BotOK
<1>6. PromptsOK'
  <2>1. ASSUME NEW p \in chat
        PROVE  p.asked <= watch'[p.machine] /\ outstanding'[key(p.machine, p.session)] # p.asked
    <3>1. p.machine \in Machine /\ p.asked \in Nat \ {0} /\ key(p.machine, p.session) \in Key
      BY <1>3 DEF Prompt, Id, key, Key
    <3>2. p.asked <= watch[p.machine]  BY DEF IInv, PromptsOK
    <3>3. Len(log[p.machine]) \in Nat  BY <1>3, <3>1
    <3>4. p.asked <= watch'[p.machine]  BY <1>1, <1>3, <3>1, <3>2, <3>3
    <3>. QED  BY <1>1, <3>1, <3>4
  <2>. QED  BY <1>1, <2>1 DEF PromptsOK
<1>7. HeardEndsIt'
  <2>1. \A m \in Machine, s \in Session : key(m, s) \in Key  BY DEF key, Key
  <2>. QED  BY <1>1, <2>1 DEF HeardEndsIt
<1>8. TapsOK'  BY <1>1 DEF IInv, TapsOK
<1>9. watch' \in [Machine -> Nat] /\ \A m \in Machine : watch'[m] <= Len(log'[m])
  <2>1. \A m \in Machine : Len(log[m]) \in Nat  BY <1>3
  <2>. QED  BY <1>1, <2>1 DEF machines
<1>10. outstanding' \in [Key -> Nat]  BY <1>1
<1>11. TypeOK'  BY <1>1, <1>2, <1>3, <1>5, <1>9, <1>10 DEF TypeOK, MachinesOK, BotOK
<1>. QED  BY <1>2, <1>5, <1>6, <1>7, <1>8, <1>11 DEF IInv, MachinesOK, BotOK

-----------------------------------------------------------------------------
(* The theorems                                                            *)

(* The invariant holds at first.                                           *)
LEMMA Start == Init => IInv
<1> SUFFICES ASSUME Init PROVE IInv
  OBVIOUS
<1> USE DEF Init
<1>1. TypeOK  BY Bounds DEF TypeOK, Agent, Bot, Started, Nothing
<1>2. AgentOK  BY DEF AgentOK
<1>3. TapsOK  BY DEF TapsOK
<1>4. OffsetOK  BY DEF OffsetOK, Done, At, Started
<1>5. PromptsOK  BY DEF PromptsOK
<1>6. HeardEndsIt  BY DEF HeardEndsIt, key, Key
<1>. QED  BY <1>1, <1>2, <1>3, <1>4, <1>5, <1>6 DEF IInv

(* Every step preserves the invariant.                                     *)
LEMMA Step == IInv /\ [Next]_vars => IInv'
<1> SUFFICES ASSUME IInv, [Next]_vars PROVE IInv'
  OBVIOUS
<1>1. ASSUME NEW m \in Machine, Agents(m) \/ Polls(m) PROVE IInv'
  <2>1. MachinesOK' /\ LogGrows /\ Outside  BY <1>1, MachinesStep
  <2>2. BotOK'  BY <2>1, BotBefore DEF BotOK, Outside, memory, OffsetOK, Done, At
  <2>. QED  BY <2>1, <2>2, QuietStep DEF Outside, memory
<1>2. ASSUME NEW m \in Machine, Push(m) PROVE IInv'  BY <1>2, PushStep
<1>3. CASE Run
  <2>1. CASE GetUpdates  BY <2>1, GetUpdatesStep
  <2>2. CASE Remember  BY <2>2, RememberStep
  <2>3. CASE Ignore \/ Expire \/ Hear  BY <2>3, HandledStep
  <2>4. CASE Claim  BY <2>4, ClaimStep
  <2>5. ASSUME NEW m \in Machine, Answer(m) PROVE IInv'  BY <2>5, AnswerStep
  <2>6. ASSUME NEW m \in Machine, Act(m) PROVE IInv'  BY <2>6, ActStep
  <2>7. ASSUME NEW answering \in SUBSET Machine, Find(answering) PROVE IInv'  BY <2>7, FindStep
  <2>. QED  BY <1>3, <2>1, <2>2, <2>3, <2>4, <2>5, <2>6, <2>7 DEF Run
<1>4. CASE People  BY <1>4, PeopleStep
<1>5. CASE Crash  BY <1>5, CrashStep
<1>6. CASE UNCHANGED vars
  <2>1. UNCHANGED machines /\ Outside  BY <1>6 DEF vars, machines, memory, Outside
  <2>2. MachinesOK' /\ LogGrows  BY <2>1, LoopKeeps
  <2>3. BotOK'  BY <2>1, BotBefore DEF BotOK, Outside, memory, OffsetOK, Done, At
  <2>. QED  BY <2>1, <2>2, <2>3, QuietStep DEF Outside, memory
<1>. QED  BY <1>1, <1>2, <1>3, <1>4, <1>5, <1>6 DEF Next

(* The invariant holds always: types, offsets, taps and prompts.           *)
THEOREM TelegramInvariant == Spec => []IInv
<1>. QED  BY Start, Step, PTL DEF Spec

(* Every reachable state of the bot and the machines is well typed.        *)
THEOREM TelegramTypeOK == Spec => []TypeOK
<1>1. IInv => TypeOK  BY DEF IInv
<1>. QED  BY <1>1, TelegramInvariant, PTL

(* A tap is compared with the last the bot has heard of its session.       *)
THEOREM TapsMeetTheNews == Spec => []HeardEndsIt
<1>1. IInv => HeardEndsIt  BY DEF IInv
<1>. QED  BY <1>1, TelegramInvariant, PTL

(* A question is answered from the chat once at most: a prompt that was    *)
(* claimed is outstanding never again, as what is remembered is an event's *)
(* id and later events have later ids, also after a crash.                 *)
THEOREM PromptsAnsweredOnce == Spec => OneAnswerPerPrompt
<1>1. IInv /\ [Next]_vars =>
        (At("handling") /\ At("answering")' => Current.prompt \notin claimed)
  <2> SUFFICES ASSUME IInv, [Next]_vars, At("handling"), At("answering")'
               PROVE  Current.prompt \notin claimed
    OBVIOUS
  <2>1. Asked(Current.prompt)
    <3>1. CASE Claim  BY <3>1 DEF Claim
    <3>2. CASE UNCHANGED bot  BY <3>2 DEF At
    <3>3. CASE Ignore \/ Expire \/ Hear
      BY <3>3, BotBefore DEF Ignore, Expire, Hear, Turn, At, Bot
    <3>4. CASE Crash  BY <3>4 DEF Crash, Started, At
    <3>5. ~GetUpdates /\ ~Remember /\ (\A m \in Machine : ~Answer(m) /\ ~Act(m))
          /\ \A answering \in SUBSET Machine : ~Find(answering)
      BY DEF GetUpdates, Remember, Answer, Act, Find, At
    <3>6. (\E m \in Machine : Agents(m) \/ Polls(m) \/ Push(m)) \/ People \/ UNCHANGED vars
          => UNCHANGED bot
      <4>1. ASSUME NEW m \in Machine, Agents(m) \/ Polls(m) PROVE UNCHANGED bot
        BY <4>1, MachinesStep DEF Outside, memory
      <4>2. ASSUME NEW m \in Machine, Push(m) PROVE UNCHANGED bot
        BY <4>2 DEF Push
      <4>3. People => UNCHANGED bot  BY DEF People, Tap, Noise, Order, Sends, memory
      <4>. QED  BY <4>1, <4>2, <4>3 DEF vars, memory
    <3>. QED  BY <3>1, <3>2, <3>3, <3>4, <3>5, <3>6 DEF Next, Run
  <2>2. Current.prompt \in claimed => Current.prompt \in chat  BY DEF IInv, TypeOK
  <2>. QED  BY <2>1, <2>2 DEF IInv, PromptsOK, Asked
<1>. QED  BY <1>1, TelegramInvariant, PTL DEF Spec, OneAnswerPerPrompt

(* After a crash the last update that was handled may be handled again,    *)
(* any other only if its own offset could not be stored, and none is       *)
(* skipped.                                                                *)
THEOREM CrashReplaysTheLast == Spec => ReplaysTheLastOnly
<1>1. IInv => (At("handling") => bot.at \in {handled, handled + 1} \cup unwritten)
  <2> SUFFICES ASSUME IInv, At("handling")
               PROVE  bot.at \in {handled, handled + 1} \cup unwritten
    OBVIOUS
  <2>1. /\ bot.at = Done + 1 /\ bot.at \in Nat /\ Done \in Nat /\ stored \in Nat
        /\ handled \in Nat /\ stored <= Done /\ Done <= handled
        /\ \A i \in stored + 1 .. handled : i < handled \/ i <= Done => i \in unwritten
    BY BotBefore DEF OffsetOK, At
  <2>2. CASE bot.at < handled
    <3>1. bot.at \in stored + 1 .. handled  BY <2>1, <2>2
    <3>. QED  BY <2>1, <2>2, <3>1
  <2>3. CASE ~(bot.at < handled)  BY <2>1, <2>3
  <2>. QED  BY <2>2, <2>3
<1>2. IInv /\ [Next]_vars =>
        (At("handling") /\ ~At("handling")' => bot.at \in {handled, handled + 1} \cup unwritten)
  BY <1>1
<1>. QED  BY <1>2, TelegramInvariant, PTL DEF Spec, ReplaysTheLastOnly
=============================================================================
