------------------------------- MODULE Daemon -------------------------------
(* The life of the daemon's processes (main.rs, server.rs) over the state  *)
(* directory they share: the configuration, the token and the database are *)
(* loaded, what runs in the background is set going, and only then are the *)
(* addresses bound.  launchd keeps one process alive, a person may run     *)
(* another; nothing but the addresses keeps the two apart.                 *)
(*                                                                         *)
(* What reconcile, the watch loop and the background tasks do is modelled  *)
(* by Sessions, Dispatch, GitHubPoll, EventFeed and Telegram.              *)
EXTENDS Integers, Sequences, FiniteSets

CONSTANTS
  Port,         (* the ports a configuration may name                      *)
  DEFAULT_PORT, (* the one that is written out                             *)
  Written,      (* the configurations a person may write                   *)
  Garbled,      (* a file that is no configuration                         *)
  Absent,       (* no file                                                 *)
  Build,        (* the builds of the daemon: how many migrations each has  *)
  MaxTokens,    (* bound: tokens made                                      *)
  MaxEdits,     (* bound: what people do to the state directory            *)
  MaxRuns,      (* bound: starts by hand                                   *)
  MaxMishaps    (* bound: crashes, reboots and Tailscale going down        *)

Agent == "agent"    (* what launchd runs                                   *)
Hand  == "hand"     (* what a person runs with --foreground                *)
Proc  == {Agent, Hand}

(* A configuration, as far as validate and serve look at it.               *)
Config == [port : Port \cup {0}, bind : {"loopback", "tailnet", "wildcard"},
           tailscale_bind : {"off", "auto", "tailnet", "wildcard"},
           poll_secs : Nat, bot : {"off", "guarded", "open"},
           hub : {"off", "fleet", "alone"}]

ASSUME DaemonAssumption ==
  /\ Port \subseteq Nat \ {0} /\ DEFAULT_PORT \in Port
  /\ Written \subseteq Config
  /\ Garbled \notin Config /\ Absent \notin Config /\ Garbled # Absent
  /\ Build \subseteq Nat \ {0} /\ Build # {}
  /\ MaxTokens \in Nat \ {0} /\ MaxEdits \in Nat /\ MaxRuns \in Nat /\ MaxMishaps \in Nat

NoFile  == 0        (* no token file                                       *)
Empty   == -1       (* a token file with nothing in it                     *)
Token   == 1 .. MaxTokens

Default == [port |-> DEFAULT_PORT, bind |-> "loopback", tailscale_bind |-> "off",
            poll_secs |-> 2, bot |-> "off", hub |-> "off"]

VARIABLES
  config,       (* daemon.toml                                             *)
  token,        (* the token file                                          *)
  tables,       (* the migrations whose tables the database has            *)
  version,      (* the database's user_version                             *)
  proc,         (* the processes                                           *)
  binary,       (* the build that is installed                             *)
  launchd,      (* whether it has the plist, and the agent loaded          *)
  cli,          (* --install-launchd or --uninstall-launchd, on its way    *)
  tailnet,      (* Tailscale: up, with an address on this Mac, or down     *)
  client,       (* the token that the desktop app remembers                *)
  minted,       (* how many tokens were made                               *)
  spoilt,       (* "rivals" made a token at once, one was "deleted"        *)
  edits, runs, mishaps

files   == <<config, token, tables, version>>
around  == <<binary, launchd, cli, tailnet, client>>
history == <<minted, spoilt>>
bounds  == <<edits, runs, mishaps>>
vars    == <<files, proc, around, history, bounds>>

-----------------------------------------------------------------------------
(* Types                                                                   *)

Addr == (Port \cup {0}) \X {"loopback", "tailnet", "wildcard"}

(* `seen` is the version that migrations::run read, `left` the addresses   *)
(* that are still to be bound.                                             *)
Step == {"down", "config", "token", "open", "write", "store", "migrate", "attend",
         "resolve", "bind", "serving", "draining"}
Process == [step : Step, build : Build, conf : Config, token : 0 .. MaxTokens, seen : Nat,
            left : Seq(Addr), bound : SUBSET Addr]

Down(b) == [step |-> "down", build |-> b, conf |-> Default, token |-> NoFile, seen |-> 0,
            left |-> << >>, bound |-> {}]

TypeOK ==
  /\ config \in Config \cup {Garbled, Absent}
  /\ token \in Token \cup {NoFile, Empty}
  /\ tables \in SUBSET Nat /\ version \in Nat
  /\ proc \in [Proc -> Process]
  /\ binary \in Build
  /\ launchd \subseteq {"plist", "loaded"}
  /\ cli \in {"idle", "bootout", "bootstrap", "leave", "remove"}
  /\ tailnet \in {"up", "down"} /\ client \in Token \cup {NoFile}
  /\ minted \in 0 .. MaxTokens /\ spoilt \subseteq {"rivals", "deleted"}
  /\ edits \in 0 .. MaxEdits /\ runs \in 0 .. MaxRuns /\ mishaps \in 0 .. MaxMishaps

-----------------------------------------------------------------------------
(* Loading the state directory                                             *)

At(p, step) == proc[p].step = step
Goto(p, step) == proc' = [proc EXCEPT ![p].step = step]

(* An error on the way up ends the process, and everything in it.          *)
Exit(p) == proc' = [proc EXCEPT ![p] = Down(binary)]

(* Config::validate                                                        *)
Valid(c) ==
  /\ c # Garbled
  /\ c.bind # "wildcard" /\ c.tailscale_bind # "wildcard"
  /\ c.port # 0 /\ c.poll_secs # 0
  /\ c.bot # "open"
  /\ c.hub # "alone"

(* A file that is being written out reads as an empty one, which means the *)
(* defaults too: reading and writing it are one step here.                 *)
LoadConfig(p) ==
  /\ At(p, "config")
  /\ config' = IF config = Absent THEN Default ELSE config
  /\ IF Valid(config')
     THEN proc' = [proc EXCEPT ![p].step = "token", ![p].conf = config']
     ELSE Exit(p)
  /\ UNCHANGED <<token, tables, version, around, history, bounds>>

(* Mutant: every start makes a token.                                      *)
LoadToken_Mints(p) ==
  /\ At(p, "token") /\ Goto(p, "open")
  /\ UNCHANGED <<files, around, history, bounds>>

LoadToken(p) ==
  /\ At(p, "token")
  /\ \/ token = NoFile /\ Goto(p, "open")
     \/ token = Empty /\ Exit(p)
     \/ /\ token \in Token
        /\ proc' = [proc EXCEPT ![p].step = "store", ![p].token = token]
  /\ UNCHANGED <<files, around, history, bounds>>

(* The file is created, or truncated, with nothing in it ...               *)
OpenToken(p) ==
  /\ At(p, "open") /\ minted < MaxTokens
  /\ token' = Empty
  /\ minted' = minted + 1
  /\ spoilt' = IF \E q \in Proc \ {p} : At(q, "open") \/ At(q, "write")
               THEN spoilt \cup {"rivals"} ELSE spoilt
  /\ proc' = [proc EXCEPT ![p].step = "write", ![p].token = minted + 1]
  /\ UNCHANGED <<config, tables, version, around, bounds>>

(* ... and then the token is written to it.                                *)
WriteToken(p) ==
  /\ At(p, "write")
  /\ token' = proc[p].token
  /\ Goto(p, "store")
  /\ UNCHANGED <<config, tables, version, around, history, bounds>>

(* Store::open, and the version that migrations::run reads.                *)
OpenStore(p) ==
  /\ At(p, "store")
  /\ IF version > proc[p].build
     THEN Exit(p)
     ELSE proc' = [proc EXCEPT ![p].step = "migrate", ![p].seen = version]
  /\ UNCHANGED <<files, around, history, bounds>>

(* Mutant: the version is written once, when all migrations are done.      *)
Migrate_Unversioned(p) ==
  LET next == proc[p].seen + 1 IN
  /\ At(p, "migrate") /\ next <= proc[p].build
  /\ \/ /\ next \notin tables
        /\ tables' = tables \cup {next}
        /\ version' = IF next = proc[p].build THEN next ELSE version
        /\ proc' = [proc EXCEPT ![p].seen = next]
     \/ next \in tables /\ Exit(p) /\ UNCHANGED <<tables, version>>
  /\ UNCHANGED <<config, token, around, history, bounds>>

(* One migration and its version, in a transaction.  Its tables exist when *)
(* another process has come first: the statement fails, and the start.     *)
Migrate(p) ==
  LET next == proc[p].seen + 1 IN
  /\ At(p, "migrate") /\ next <= proc[p].build
  /\ \/ /\ next \notin tables
        /\ tables' = tables \cup {next} /\ version' = next
        /\ proc' = [proc EXCEPT ![p].seen = next]
     \/ next \in tables /\ Exit(p) /\ UNCHANGED <<tables, version>>
  /\ UNCHANGED <<config, token, around, history, bounds>>

Migrated(p) ==
  /\ At(p, "migrate") /\ proc[p].seen >= proc[p].build
  /\ Goto(p, "attend")
  /\ UNCHANGED <<files, around, history, bounds>>

-----------------------------------------------------------------------------
(* Running                                                                 *)

(* Mutant: a daemon that cannot ask tmux does not start.                   *)
Attend_Fatal(p) ==
  /\ At(p, "attend")
  /\ Goto(p, "resolve") \/ Exit(p)
  /\ UNCHANGED <<files, around, history, bounds>>

(* reconcile, watch and attend: sessions are adopted and the background    *)
(* tasks set going, whether or not tmux could be asked.                    *)
Attend(p) ==
  /\ At(p, "attend")
  /\ Goto(p, "resolve")
  /\ UNCHANGED <<files, around, history, bounds>>

(* listen_addrs: the tailnet's address is looked up now.                   *)
Own(c)     == <<c.port, c.bind>>
Tailnet(c) == <<c.port, "tailnet">>
Wanted(c)  == IF c.tailscale_bind = "off" \/ Own(c) = Tailnet(c)
              THEN <<Own(c)>> ELSE <<Own(c), Tailnet(c)>>

Resolve(p) ==
  /\ At(p, "resolve")
  /\ IF proc[p].conf.tailscale_bind = "auto" /\ tailnet = "down"
     THEN Exit(p)
     ELSE proc' = [proc EXCEPT ![p].step = "bind", ![p].left = Wanted(proc[p].conf)]
  /\ UNCHANGED <<files, around, history, bounds>>

(* An address is bound unless somebody has it, or this Mac does not.       *)
Bindable(a) ==
  /\ \A q \in Proc : a \notin proc[q].bound
  /\ a[2] = "tailnet" => tailnet = "up"

(* Mutant: an address that cannot be bound is done without.                *)
Bind_GoesOn(p) ==
  LET a == Head(proc[p].left) IN
  /\ At(p, "bind") /\ proc[p].left # << >>
  /\ proc' = [proc EXCEPT ![p].left = Tail(@),
                          ![p].bound = IF Bindable(a) THEN @ \cup {a} ELSE @]
  /\ UNCHANGED <<files, around, history, bounds>>

Bind(p) ==
  LET a == Head(proc[p].left) IN
  /\ At(p, "bind") /\ proc[p].left # << >>
  /\ IF Bindable(a)
     THEN proc' = [proc EXCEPT ![p].left = Tail(@), ![p].bound = @ \cup {a}]
     ELSE Exit(p)
  /\ UNCHANGED <<files, around, history, bounds>>

Serve(p) ==
  /\ At(p, "bind") /\ proc[p].left = << >>
  /\ Goto(p, "serving")
  /\ UNCHANGED <<files, around, history, bounds>>

(* SIGTERM is listened for only while serving.  The addresses are given up *)
(* at once; what runs in the background goes on until the last request is  *)
(* answered.                                                               *)
Stopped(p) == proc' = [proc EXCEPT
  ![p] = IF At(p, "serving") THEN [@ EXCEPT !.step = "draining", !.bound = {}]
         ELSE IF At(p, "draining") THEN @ ELSE Down(binary)]

Drained(p) ==
  /\ At(p, "draining") /\ Exit(p)
  /\ UNCHANGED <<files, around, history, bounds>>

Advance(p) ==
  \/ LoadConfig(p) \/ LoadToken(p) \/ OpenToken(p) \/ WriteToken(p)
  \/ OpenStore(p) \/ Migrate(p) \/ Migrated(p)
  \/ Attend(p) \/ Resolve(p) \/ Bind(p) \/ Serve(p)

Run(p) == Advance(p) \/ Drained(p)

-----------------------------------------------------------------------------
(* Whoever starts it                                                       *)

Start(p) == At(p, "down") /\ proc' = [proc EXCEPT ![p] = [Down(binary) EXCEPT !.step = "config"]]

(* KeepAlive and RunAtLoad                                                 *)
Launch ==
  /\ "loaded" \in launchd /\ Start(Agent)
  /\ UNCHANGED <<files, around, history, bounds>>

RunByHand ==
  /\ runs < MaxRuns /\ runs' = runs + 1
  /\ Start(Hand)
  /\ UNCHANGED <<files, around, history, edits, mishaps>>

Interrupt ==
  /\ proc[Hand].step # "down" /\ Stopped(Hand) /\ proc' # proc
  /\ UNCHANGED <<files, around, history, bounds>>

Edit == edits < MaxEdits /\ edits' = edits + 1

(* --install-launchd writes the plist, boots the old agent out and the new *)
(* one in, which launchd may refuse while the old one is still leaving.    *)
Install ==
  /\ Edit /\ cli = "idle"
  /\ launchd' = launchd \cup {"plist"} /\ cli' = "bootout"
  /\ UNCHANGED <<files, proc, binary, tailnet, client, history, runs, mishaps>>

Uninstall ==
  /\ Edit /\ cli = "idle" /\ cli' = "leave"
  /\ UNCHANGED <<files, proc, binary, launchd, tailnet, client, history, runs, mishaps>>

Bootout ==
  /\ cli \in {"bootout", "leave"}
  /\ cli' = IF cli = "bootout" THEN "bootstrap" ELSE "remove"
  /\ launchd' = launchd \ {"loaded"}
  /\ Stopped(Agent)
  /\ UNCHANGED <<files, binary, tailnet, client, history, bounds>>

Bootstrap ==
  /\ cli = "bootstrap" /\ cli' = "idle"
  /\ \/ launchd' = launchd \cup {"loaded"}
     \/ ~At(Agent, "down") /\ UNCHANGED launchd
  /\ UNCHANGED <<files, proc, binary, tailnet, client, history, bounds>>

Remove ==
  /\ cli = "remove" /\ cli' = "idle"
  /\ launchd' = launchd \ {"plist"}
  /\ UNCHANGED <<files, proc, binary, tailnet, client, history, bounds>>

-----------------------------------------------------------------------------
(* People, and what goes wrong                                             *)

EditConfig ==
  /\ Edit /\ config' \in (Written \cup {Garbled}) \ {config}
  /\ UNCHANGED <<token, tables, version, proc, around, history, runs, mishaps>>

(* As the daemon tells them to when the file is empty.                     *)
DeleteToken ==
  /\ Edit /\ token # NoFile /\ \A p \in Proc : ~At(p, "write")
  /\ token' = NoFile
  /\ spoilt' = IF token = Empty THEN spoilt ELSE spoilt \cup {"deleted"}
  /\ UNCHANGED <<config, tables, version, proc, around, minted, runs, mishaps>>

Replace ==
  /\ Edit /\ binary' \in Build \ {binary}
  /\ UNCHANGED <<files, proc, launchd, cli, tailnet, client, history, runs, mishaps>>

Mishap == mishaps < MaxMishaps /\ mishaps' = mishaps + 1

Crash(p) ==
  /\ Mishap /\ ~At(p, "down") /\ Exit(p)
  /\ UNCHANGED <<files, around, history, edits, runs>>

Reboot ==
  /\ Mishap
  /\ proc' = [p \in Proc |-> Down(binary)]
  /\ launchd' = IF "plist" \in launchd THEN {"plist", "loaded"} ELSE {}
  /\ cli' = "idle" /\ tailnet' = "down"
  /\ UNCHANGED <<files, binary, client, history, edits, runs>>

Tailscale ==
  /\ \/ tailnet = "down" /\ tailnet' = "up" /\ UNCHANGED mishaps
     \/ tailnet = "up" /\ tailnet' = "down" /\ Mishap
  /\ UNCHANGED <<files, proc, binary, launchd, cli, client, history, edits, runs>>

-----------------------------------------------------------------------------
(* The desktop app on this Mac                                             *)

Serving(p) == At(p, "serving")
Local      == <<DEFAULT_PORT, "loopback">>
Answers(p) == (At(p, "bind") \/ Serving(p)) /\ Local \in proc[p].bound

(* It reads the token file when it remembers none, and again while no      *)
(* daemon answers /health.                                                 *)
ClientReads ==
  /\ client = NoFile \/ \A p \in Proc : ~Answers(p)
  /\ token # NoFile
  /\ client' = IF token = Empty THEN NoFile ELSE token
  /\ client' # client
  /\ UNCHANGED <<files, proc, binary, launchd, cli, tailnet, history, bounds>>

(* require_token: the header, or on a socket's path the query.             *)
Request(path) == [path |-> path, header |-> IF path = "rest" THEN client ELSE NoFile,
                  query |-> IF path = "ws" THEN client ELSE NoFile]
Presented(r)  == IF r.header # NoFile THEN r.header
                 ELSE IF r.path = "ws" THEN r.query ELSE NoFile
LetIn(p, r)   == Presented(r) # NoFile /\ Presented(r) = proc[p].token

-----------------------------------------------------------------------------
Init ==
  /\ config = Absent /\ token = NoFile /\ tables = {} /\ version = 0
  /\ binary \in Build
  /\ proc = [p \in Proc |-> Down(binary)]
  /\ launchd = {"plist", "loaded"} /\ cli = "idle"
  /\ tailnet = "down" /\ client = NoFile
  /\ minted = 0 /\ spoilt = {}
  /\ edits = 0 /\ runs = 0 /\ mishaps = 0

Next ==
  \/ \E p \in Proc : Run(p) \/ Crash(p)
  \/ Launch \/ RunByHand \/ Interrupt
  \/ Install \/ Uninstall \/ Bootout \/ Bootstrap \/ Remove
  \/ EditConfig \/ DeleteToken \/ Replace
  \/ Reboot \/ Tailscale \/ ClientReads

Spec == Init /\ [][Next]_vars

(* A process goes on until it serves, launchd starts its agent again, and  *)
(* kills one that does not leave; a command that was begun is finished.    *)
(* Nobody sees to it that a daemon run by hand finishes its last request.  *)
FairSpec == /\ Spec /\ \A p \in Proc : WF_vars(Advance(p))
            /\ WF_vars(Drained(Agent)) /\ WF_vars(Launch)
            /\ WF_vars(Bootout) /\ WF_vars(Bootstrap) /\ WF_vars(Remove)

-----------------------------------------------------------------------------
(* What makes it correct                                                   *)

(* The database has the tables of the versions it says it has, whatever    *)
(* crashes while it is being migrated and whoever migrates it at the same  *)
(* time; and a daemon past its start finds in it every table it knows.     *)
Ready(p) == proc[p].step \in {"attend", "resolve", "bind", "serving", "draining"}
SchemaIsWhole ==
  /\ tables = 1 .. version
  /\ \A p \in Proc : Ready(p) => proc[p].build <= version

(* An app that was given the token once is let in by every daemon that     *)
(* serves it later, through crashes, reboots and new builds, unless the    *)
(* token was deleted or two daemons made their first start together.       *)
ClientIsLetIn == \A p \in Proc :
  Answers(p) /\ client # NoFile =>
    spoilt # {} \/ \A path \in {"rest", "ws"} : LetIn(p, Request(path))

(* Two daemons may run side by side over one directory, their pollers and  *)
(* bots with them, but not for long when they are to have one address: one *)
(* gives up, unless a request keeps one that was told to leave for ever.   *)
Acts(p) == proc[p].step \in {"resolve", "bind", "serving", "draining"}
Twins(p, q) == /\ Acts(p) /\ Acts(q)
               /\ Own(proc[p].conf) = Own(proc[q].conf)
TwinsPart == Twins(Agent, Hand) ~> (~Twins(Agent, Hand) \/ []At(Hand, "draining"))

(* What keeps every daemon from serving until somebody does something.     *)
Blocked ==
  \/ config # Absent /\ ~Valid(config)
  \/ token = Empty
  \/ version > binary
  \/ /\ config \notin {Absent, Garbled} /\ tailnet = "down"
     /\ config.tailscale_bind # "off" \/ config.bind = "tailnet"

(* Once launchd has the agent, some daemon serves in the end, whatever     *)
(* crashed before, unless it is blocked.                                   *)
ComesBack == ("loaded" \in launchd /\ ~Blocked)
             ~> ("loaded" \notin launchd \/ Blocked \/ \E p \in Proc : Serving(p))
=============================================================================
