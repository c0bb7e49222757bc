---------------------------- MODULE DaemonProofs ----------------------------
(* Proofs about Daemon, for any ports, configurations, builds and bounds.  *)
EXTENDS Daemon, TLAPS

(* A process that migrates has read a version that still is, or was, the   *)
(* database's.                                                             *)
SeenOK == \A p \in Proc : At(p, "migrate") => proc[p].seen <= version

SchemaInv == TypeOK /\ SchemaIsWhole /\ SeenOK

(* As long as no token was deleted and no two were made at once there is   *)
(* one token: in the file, in every daemon that is past loading it and in  *)
(* the app; whoever is about to make it is alone.                          *)
HasToken(p) == At(p, "store") \/ At(p, "migrate") \/ Ready(p)
OneToken ==
  /\ token \in Token => token = minted
  /\ client # NoFile => token = minted /\ client = minted
  /\ \A p \in Proc :
       /\ HasToken(p) => token = minted /\ proc[p].token = minted /\ minted \in Token
       /\ At(p, "open") => token = NoFile
       /\ At(p, "write") => /\ token = Empty /\ proc[p].token = minted /\ minted \in Token
                            /\ \A q \in Proc \ {p} : ~At(q, "write")
TokenInv == spoilt = {} => OneToken

-----------------------------------------------------------------------------
LEMMA DownIsProcess == \A b \in Build : Down(b) \in Process
BY DaemonAssumption DEF Down, Process, Step, Config, Default, NoFile

LEMMA WantedIsSeq == \A c \in Config : Wanted(c) \in Seq(Addr)
<1> TAKE c \in Config
<1>1. Own(c) \in Addr /\ Tailnet(c) \in Addr
  BY DEF Config, Own, Tailnet, Addr
<1> QED BY <1>1 DEF Wanted

LEMMA ExitIsProcess ==
  ASSUME TypeOK, NEW p \in Proc, Exit(p) PROVE proc' \in [Proc -> Process]
BY DownIsProcess DEF TypeOK, Exit

LEMMA GotoIsProcess ==
  ASSUME TypeOK, NEW p \in Proc, NEW s \in Step, Goto(p, s) PROVE proc' \in [Proc -> Process]
<1>1. [proc[p] EXCEPT !.step = s] \in Process
  BY DEF TypeOK, Process
<1> QED BY <1>1 DEF TypeOK, Goto

LEMMA InitInv == Init => SchemaInv /\ TokenInv
<1> SUFFICES ASSUME Init PROVE SchemaInv /\ TokenInv
  OBVIOUS
<1>1. proc \in [Proc -> Process]
  BY DownIsProcess DEF Init
<1>2. TypeOK
  BY <1>1, DaemonAssumption DEF Init, TypeOK, NoFile, Token
<1>3. SchemaIsWhole /\ SeenOK /\ OneToken
  BY DEF Init, SchemaIsWhole, SeenOK, OneToken, HasToken, Ready, At, Down, Token, NoFile
<1> QED BY <1>2, <1>3 DEF SchemaInv, TokenInv

-----------------------------------------------------------------------------
(* Types                                                                   *)

LEMMA TypeLoads ==
  ASSUME TypeOK, NEW p \in Proc,
         LoadConfig(p) \/ LoadToken(p) \/ OpenToken(p) \/ WriteToken(p)
  PROVE  TypeOK'
<1> USE DaemonAssumption
<1>1. CASE LoadConfig(p)
  <2>1. Default \in Config
    BY DEF Config, Default
  <2>2. config' \in Config \cup {Garbled} /\ config' # Absent
    BY <1>1, <2>1 DEF LoadConfig, TypeOK
  <2>3. CASE Valid(config')
    <3>1. config' \in Config
      BY <2>2, <2>3 DEF Valid
    <3>2. [proc[p] EXCEPT !.step = "token", !.conf = config'] \in Process
      BY <3>1, ZenonT(30) DEF TypeOK, Process, Step
    <3>3. proc' = [proc EXCEPT ![p] = [proc[p] EXCEPT !.step = "token", !.conf = config']]
      BY <1>1, <2>3 DEF LoadConfig, TypeOK
    <3> QED BY <1>1, <2>2, <3>2, <3>3
      DEF LoadConfig, TypeOK, around, history, bounds
  <2>4. CASE ~Valid(config')
    BY <1>1, <2>2, <2>4, ExitIsProcess DEF LoadConfig, TypeOK, around, history, bounds
  <2> QED BY <2>3, <2>4
<1>2. CASE LoadToken(p)
  <2>1. CASE Goto(p, "open") \/ Exit(p)
    BY <1>2, <2>1, GotoIsProcess, ExitIsProcess
    DEF LoadToken, Step, TypeOK, files, around, history, bounds
  <2>2. CASE /\ token \in Token
             /\ proc' = [proc EXCEPT ![p].step = "store", ![p].token = token]
    <3> token \in 0 .. MaxTokens
      BY <2>2 DEF Token
    <3>1. [proc[p] EXCEPT !.step = "store", !.token = token] \in Process
      BY ZenonT(30) DEF TypeOK, Process, Step
    <3>2. proc' = [proc EXCEPT ![p] = [proc[p] EXCEPT !.step = "store", !.token = token]]
      BY <2>2 DEF TypeOK
    <3> QED BY <1>2, <3>1, <3>2 DEF LoadToken, TypeOK, files, around, history, bounds
  <2> QED BY <1>2, <2>1, <2>2 DEF LoadToken
<1>3. CASE OpenToken(p)
  <2>1. minted + 1 \in 0 .. MaxTokens
    BY <1>3 DEF OpenToken, TypeOK
  <2>2. [proc[p] EXCEPT !.step = "write", !.token = minted + 1] \in Process
    BY <2>1, ZenonT(30) DEF TypeOK, Process, Step
  <2>3. proc' = [proc EXCEPT ![p] = [proc[p] EXCEPT !.step = "write", !.token = minted + 1]]
    BY <1>3 DEF OpenToken, TypeOK
  <2>4. proc' \in [Proc -> Process]
    BY <2>2, <2>3 DEF TypeOK
  <2> QED BY <1>3, <2>4 DEF OpenToken, TypeOK, around, bounds
<1>4. CASE WriteToken(p)
  BY <1>4, GotoIsProcess DEF WriteToken, TypeOK, Process, Step, Token, NoFile, around, history, bounds
<1> QED BY <1>1, <1>2, <1>3, <1>4

LEMMA TypeStarts ==
  ASSUME TypeOK, NEW p \in Proc,
         OpenStore(p) \/ Migrate(p) \/ Migrated(p) \/ Attend(p)
         \/ Resolve(p) \/ Bind(p) \/ Serve(p) \/ Drained(p)
  PROVE  TypeOK'
<1> USE DaemonAssumption
<1> DEFINE Rest == <<files, around, history, bounds>>
<1>1. ASSUME proc' \in [Proc -> Process], UNCHANGED Rest PROVE TypeOK'
  BY <1>1 DEF TypeOK, files, around, history, bounds
<1>2. CASE OpenStore(p)
  <2>1. [proc[p] EXCEPT !.step = "migrate", !.seen = version] \in Process
    BY ZenonT(30) DEF TypeOK, Process, Step
  <2>2. CASE proc' = [proc EXCEPT ![p].step = "migrate", ![p].seen = version]
    <3>1. proc' = [proc EXCEPT ![p] = [proc[p] EXCEPT !.step = "migrate", !.seen = version]]
      BY <2>2 DEF TypeOK
    <3> QED BY <1>1, <1>2, <2>1, <3>1 DEF OpenStore, TypeOK
  <2> QED BY <1>1, <1>2, <2>2, ExitIsProcess DEF OpenStore
<1>3. CASE Migrate(p)
  <2> DEFINE next == proc[p].seen + 1
  <2>1. next \in Nat
    BY DEF TypeOK, Process
  <2>2. CASE next \notin tables
    <3>1. [proc[p] EXCEPT !.seen = next] \in Process
      BY <2>1 DEF TypeOK, Process
    <3>2. proc' = [proc EXCEPT ![p] = [proc[p] EXCEPT !.seen = next]]
      BY <1>3, <2>2 DEF Migrate, TypeOK
    <3>3. tables' = tables \cup {next} /\ version' = next
      BY <1>3, <2>2 DEF Migrate
    <3> QED BY <1>3, <2>1, <3>1, <3>2, <3>3 DEF Migrate, TypeOK, around, history, bounds
  <2>3. CASE next \in tables
    BY <1>3, <2>3, ExitIsProcess DEF Migrate, TypeOK, around, history, bounds
  <2> QED BY <2>2, <2>3
<1>4. CASE Migrated(p) \/ Attend(p) \/ Serve(p)
  BY <1>1, <1>4, GotoIsProcess DEF Migrated, Attend, Serve, Step
<1>5. CASE Resolve(p)
  <2> DEFINE wanted == Wanted(proc[p].conf)
  <2>1. wanted \in Seq(Addr)
    BY WantedIsSeq DEF TypeOK, Process
  <2>2. [proc[p] EXCEPT !.step = "bind", !.left = wanted] \in Process
    BY <2>1, ZenonT(30) DEF TypeOK, Process, Step
  <2>3. CASE proc' = [proc EXCEPT ![p].step = "bind", ![p].left = wanted]
    <3>1. proc' = [proc EXCEPT ![p] = [proc[p] EXCEPT !.step = "bind", !.left = wanted]]
      BY <2>3 DEF TypeOK
    <3>2. proc' \in [Proc -> Process]
      BY <2>2, <3>1 DEF TypeOK
    <3> QED BY <1>1, <1>5, <3>2 DEF Resolve
  <2> QED BY <1>1, <1>5, <2>3, ExitIsProcess DEF Resolve
<1>6. CASE Bind(p)
  <2> DEFINE a == Head(proc[p].left)
  <2>1. /\ a \in Addr /\ Tail(proc[p].left) \in Seq(Addr)
        /\ proc[p].bound \cup {a} \in SUBSET Addr
    BY <1>6, SMTT(30) DEF Bind, TypeOK, Process
  <2>2. [proc[p] EXCEPT !.left = Tail(@), !.bound = @ \cup {a}] \in Process
    BY <2>1, ZenonT(30) DEF TypeOK, Process
  <2>3. CASE proc' = [proc EXCEPT ![p].left = Tail(@), ![p].bound = @ \cup {a}]
    <3>1. proc' = [proc EXCEPT ![p] = [proc[p] EXCEPT !.left = Tail(@), !.bound = @ \cup {a}]]
      BY <2>3 DEF TypeOK
    <3>2. proc' \in [Proc -> Process]
      BY <2>2, <3>1 DEF TypeOK
    <3> QED BY <1>1, <1>6, <3>2 DEF Bind
  <2> QED BY <1>1, <1>6, <2>3, ExitIsProcess DEF Bind
<1>7. CASE Drained(p)
  BY <1>1, <1>7, ExitIsProcess DEF Drained
<1> QED BY <1>2, <1>3, <1>4, <1>5, <1>6, <1>7

LEMMA StoppedIsProcess ==
  ASSUME TypeOK, NEW p \in Proc, Stopped(p) PROVE proc' \in [Proc -> Process]
<1>1. [proc[p] EXCEPT !.step = "draining", !.bound = {}] \in Process
  BY ZenonT(30) DEF TypeOK, Process, Step
<1>2. Down(binary) \in Process
  BY DownIsProcess DEF TypeOK
<1> QED BY <1>1, <1>2 DEF Stopped, TypeOK

LEMMA StartIsProcess ==
  ASSUME TypeOK, NEW p \in Proc, Start(p) PROVE proc' \in [Proc -> Process]
<1>1. Down(binary) \in Process
  BY DownIsProcess DEF TypeOK
<1>2. [Down(binary) EXCEPT !.step = "config"] \in Process
  BY <1>1 DEF Process, Step
<1> QED BY <1>2 DEF Start, TypeOK

LEMMA TypeLaunchd ==
  ASSUME TypeOK, Launch \/ RunByHand \/ Interrupt \/ Install \/ Uninstall
                 \/ Bootout \/ Bootstrap \/ Remove
  PROVE  TypeOK'
<1> USE DaemonAssumption DEF files, around, history, bounds
<1> Agent \in Proc /\ Hand \in Proc
  BY DEF Proc
<1>1. CASE Launch
  BY <1>1, StartIsProcess DEF Launch, TypeOK
<1>2. CASE RunByHand
  BY <1>2, StartIsProcess DEF RunByHand, TypeOK
<1>3. CASE Interrupt
  BY <1>3, StoppedIsProcess DEF Interrupt, TypeOK
<1>4. CASE Install \/ Uninstall
  <2>1. edits' \in 0 .. MaxEdits
    BY <1>4 DEF Install, Uninstall, Edit, TypeOK
  <2>2. launchd' \subseteq {"plist", "loaded"} /\ cli' \in {"bootout", "leave"}
    BY <1>4 DEF Install, Uninstall, TypeOK
  <2>3. UNCHANGED <<files, proc, binary, tailnet, client, history, runs, mishaps>>
    BY <1>4 DEF Install, Uninstall
  <2> QED BY <2>1, <2>2, <2>3 DEF TypeOK
<1>5. CASE Bootout
  BY <1>5, StoppedIsProcess DEF Bootout, TypeOK
<1>6. CASE Bootstrap \/ Remove
  BY <1>6 DEF Bootstrap, Remove, TypeOK
<1> QED BY <1>1, <1>2, <1>3, <1>4, <1>5, <1>6

LEMMA TypePeople ==
  ASSUME TypeOK, EditConfig \/ DeleteToken \/ Replace \/ (\E p \in Proc : Crash(p))
                 \/ Reboot \/ Tailscale \/ ClientReads
  PROVE  TypeOK'
<1> USE DaemonAssumption DEF files, around, history, bounds
<1>1. CASE EditConfig
  BY <1>1 DEF EditConfig, Edit, TypeOK
<1>2. CASE DeleteToken
  BY <1>2 DEF DeleteToken, Edit, TypeOK
<1>3. CASE Replace
  BY <1>3 DEF Replace, Edit, TypeOK
<1>4. ASSUME NEW p \in Proc, Crash(p) PROVE TypeOK'
  BY <1>4, ExitIsProcess DEF Crash, Mishap, TypeOK
<1>5. CASE Reboot
  <2>1. proc' \in [Proc -> Process]
    BY <1>5, DownIsProcess DEF Reboot, TypeOK
  <2> QED BY <1>5, <2>1 DEF Reboot, Mishap, TypeOK
<1>6. CASE Tailscale
  BY <1>6 DEF Tailscale, Mishap, TypeOK
<1>7. CASE ClientReads
  BY <1>7 DEF ClientReads, TypeOK
<1> QED BY <1>1, <1>2, <1>3, <1>4, <1>5, <1>6, <1>7

LEMMA TypeStep == TypeOK /\ [Next]_vars => TypeOK'
<1> SUFFICES ASSUME TypeOK, [Next]_vars PROVE TypeOK'
  OBVIOUS
<1>1. CASE UNCHANGED vars
  BY <1>1 DEF TypeOK, vars, files, around, history, bounds
<1>2. CASE Next
  BY <1>2, TypeLoads, TypeStarts, TypeLaunchd, TypePeople DEF Next, Run, Advance
<1> QED BY <1>1, <1>2

-----------------------------------------------------------------------------
(* The schema                                                              *)

(* A process that does not get any further.                                *)
Stays(p) == \/ proc'[p] = proc[p]
            \/ proc'[p].step \in {"down", "config", "token", "open", "write", "store"}
            \/ Ready(p) /\ Ready(p)' /\ proc'[p].build = proc[p].build

LEMMA SchemaStays ==
  ASSUME SchemaIsWhole, SeenOK, tables' = tables, version' = version,
         \A p \in Proc : Stays(p)
  PROVE  SchemaIsWhole' /\ SeenOK'
BY DEF SchemaIsWhole, SeenOK, Stays, Ready, At

LEMMA ExitStays ==
  ASSUME TypeOK, NEW p \in Proc, Exit(p) PROVE \A q \in Proc : Stays(q)
<1>1. Down(binary).step = "down"
  BY DEF Down
<1> QED BY <1>1 DEF Exit, Stays, TypeOK

LEMMA GotoStays ==
  ASSUME TypeOK, NEW p \in Proc, NEW s, Goto(p, s),
         \/ s \in {"down", "config", "token", "open", "write", "store"}
         \/ Ready(p) /\ s \in {"attend", "resolve", "bind", "serving", "draining"}
  PROVE  \A q \in Proc : Stays(q)
<1>1. proc'[p].step = s /\ proc'[p].build = proc[p].build
  BY DEF Goto, TypeOK, Process
<1>2. \A q \in Proc \ {p} : proc'[q] = proc[q]
  BY DEF Goto, TypeOK
<1> QED BY <1>1, <1>2 DEF Stays, Ready

LEMMA StoppedStays ==
  ASSUME TypeOK, NEW p \in Proc, Stopped(p) PROVE \A q \in Proc : Stays(q)
<1>1. Down(binary).step = "down"
  BY DEF Down
<1>2. \A q \in Proc \ {p} : proc'[q] = proc[q]
  BY DEF Stopped, TypeOK
<1>3. CASE At(p, "serving")
  <2>1. proc'[p] = [proc[p] EXCEPT !.step = "draining", !.bound = {}]
    BY <1>3 DEF Stopped, TypeOK
  <2>2. proc'[p].step = "draining" /\ proc'[p].build = proc[p].build
    BY <2>1 DEF TypeOK, Process
  <2> QED BY <1>2, <1>3, <2>2 DEF Stays, Ready, At
<1>4. CASE ~At(p, "serving")
  BY <1>1, <1>2, <1>4 DEF Stopped, Stays, TypeOK
<1> QED BY <1>3, <1>4

LEMMA StartStays ==
  ASSUME TypeOK, NEW p \in Proc, Start(p) PROVE \A q \in Proc : Stays(q)
<1>1. [Down(binary) EXCEPT !.step = "config"].step = "config"
  BY DEF Down
<1> QED BY <1>1 DEF Start, Stays, TypeOK

LEMMA SchemaStep == SchemaInv /\ [Next]_vars => SchemaInv'
<1> SUFFICES ASSUME SchemaInv, [Next]_vars PROVE SchemaIsWhole' /\ SeenOK'
  BY TypeStep DEF SchemaInv
<1> USE DEF SchemaInv
<1>1. CASE UNCHANGED vars
  BY <1>1 DEF vars, files, SchemaIsWhole, SeenOK, Ready, At
<1>2. ASSUME NEW p \in Proc, OpenStore(p) PROVE SchemaIsWhole' /\ SeenOK'
  <2>1. CASE Exit(p)
    <3>1. \A q \in Proc : Stays(q)
      BY <2>1, ExitStays
    <3> QED BY <1>2, <3>1, SchemaStays DEF OpenStore, files
  <2>2. CASE proc' = [proc EXCEPT ![p].step = "migrate", ![p].seen = version]
    <3>1. proc'[p].step = "migrate" /\ proc'[p].seen = version /\ version \in Nat
      BY <2>2 DEF TypeOK, Process
    <3>2. \A q \in Proc \ {p} : proc'[q] = proc[q]
      BY <2>2 DEF TypeOK
    <3>3. tables' = tables /\ version' = version
      BY <1>2 DEF OpenStore, files
    <3>4. ASSUME NEW q \in Proc, Ready(q)' PROVE proc'[q].build <= version'
      BY <3>1, <3>2, <3>3, <3>4 DEF SchemaIsWhole, Ready
    <3>5. ASSUME NEW q \in Proc, At(q, "migrate")' PROVE proc'[q].seen <= version'
      BY <3>1, <3>2, <3>3, <3>5 DEF SeenOK, At
    <3> QED BY <3>3, <3>4, <3>5 DEF SchemaIsWhole, SeenOK
  <2> QED BY <1>2, <2>1, <2>2 DEF OpenStore
<1>3. ASSUME NEW p \in Proc, Migrate(p) PROVE SchemaIsWhole' /\ SeenOK'
  <2> DEFINE next == proc[p].seen + 1
  <2>1. proc[p].seen \in Nat /\ proc[p].seen <= version /\ version \in Nat
    BY <1>3 DEF TypeOK, Process, Migrate, SeenOK
  <2>2. CASE next \notin tables
    <3>1. next = version + 1
      BY <2>1, <2>2 DEF SchemaIsWhole
    <3>2. tables' = 1 .. version' /\ version' = version + 1
      <4>1. tables' = tables \cup {next} /\ version' = next
        BY <1>3, <2>2 DEF Migrate
      <4>2. tables' = (1 .. version) \cup {version + 1}
        BY <3>1, <4>1 DEF SchemaIsWhole
      <4>3. (1 .. version) \cup {version + 1} = 1 .. version + 1
        BY <2>1
      <4> QED BY <3>1, <4>1, <4>2, <4>3
    <3>3. proc' = [proc EXCEPT ![p].seen = next] /\ At(p, "migrate")
      BY <1>3, <2>2 DEF Migrate
    <3>4. \A q \in Proc : proc'[q].step = proc[q].step /\ proc'[q].build = proc[q].build
      BY <3>3 DEF TypeOK, Process
    <3>5. \A q \in Proc : proc'[q].seen = IF q = p THEN next ELSE proc[q].seen
      BY <3>3 DEF TypeOK, Process
    <3>6. \A q \in Proc : proc[q].build \in Nat /\ proc[q].seen \in Nat
      BY DaemonAssumption DEF TypeOK, Process
    <3>7. SeenOK'
      BY <2>1, <3>1, <3>2, <3>4, <3>5, <3>6 DEF SeenOK, At
    <3>8. \A q \in Proc : Ready(q)' => proc'[q].build <= version'
      BY <2>1, <3>2, <3>4, <3>6 DEF SchemaIsWhole, Ready
    <3> QED BY <3>2, <3>7, <3>8 DEF SchemaIsWhole
  <2>3. CASE next \in tables
    <3>1. \A q \in Proc : Stays(q)
      BY <1>3, <2>3, ExitStays DEF Migrate
    <3> QED BY <1>3, <2>3, <3>1, SchemaStays DEF Migrate
  <2> QED BY <2>2, <2>3
<1>4. ASSUME NEW p \in Proc, Migrated(p) PROVE SchemaIsWhole' /\ SeenOK'
  <2>1. proc[p].build <= version
    <3>1. proc[p].build \in Nat /\ proc[p].seen \in Nat /\ version \in Nat
      BY DaemonAssumption DEF TypeOK, Process
    <3>2. proc[p].seen <= version /\ proc[p].seen >= proc[p].build
      BY <1>4 DEF Migrated, SeenOK
    <3> QED BY <3>1, <3>2
  <2>2. proc'[p].step = "attend" /\ proc'[p].build = proc[p].build
    BY <1>4 DEF Migrated, Goto, TypeOK, Process
  <2>3. \A q \in Proc \ {p} : proc'[q] = proc[q]
    BY <1>4 DEF Migrated, Goto, TypeOK
  <2>4. tables' = tables /\ version' = version
    BY <1>4 DEF Migrated, files
  <2> QED BY <2>1, <2>2, <2>3, <2>4 DEF SchemaIsWhole, SeenOK, Ready, At
<1>5. ASSUME NEW p \in Proc, LoadConfig(p) \/ LoadToken(p) \/ OpenToken(p) \/ WriteToken(p)
      PROVE  SchemaIsWhole' /\ SeenOK'
  <2>1. CASE Exit(p) \/ Goto(p, "open") \/ Goto(p, "store")
    <3>1. \A q \in Proc : Stays(q)
      BY <2>1, ExitStays, GotoStays
    <3> QED BY <1>5, <3>1, SchemaStays DEF LoadConfig, LoadToken, OpenToken, WriteToken, files
  <2>2. CASE /\ \A q \in Proc \ {p} : proc'[q] = proc[q]
             /\ proc'[p].step \in {"token", "write", "store"}
    <3>1. \A q \in Proc : Stays(q)
      BY <2>2 DEF Stays
    <3> QED BY <1>5, <3>1, SchemaStays DEF LoadConfig, LoadToken, OpenToken, WriteToken, files
  <2>3. CASE LoadConfig(p) /\ Valid(config')
    <3>1. proc' = [proc EXCEPT ![p] = [proc[p] EXCEPT !.step = "token", !.conf = config']]
      BY <2>3 DEF LoadConfig, TypeOK
    <3> QED BY <2>2, <3>1 DEF TypeOK, Process
  <2>4. CASE LoadToken(p) /\ proc' = [proc EXCEPT ![p].step = "store", ![p].token = token]
    <3>1. proc' = [proc EXCEPT ![p] = [proc[p] EXCEPT !.step = "store", !.token = token]]
      BY <2>4 DEF TypeOK
    <3> QED BY <2>2, <3>1 DEF TypeOK, Process
  <2>5. CASE OpenToken(p)
    <3>1. proc' = [proc EXCEPT ![p] = [proc[p] EXCEPT !.step = "write", !.token = minted + 1]]
      BY <2>5 DEF OpenToken, TypeOK
    <3> QED BY <2>2, <3>1 DEF TypeOK, Process
  <2> QED BY <1>5, <2>1, <2>3, <2>4, <2>5 DEF LoadConfig, LoadToken, WriteToken
<1>6. ASSUME NEW p \in Proc, Attend(p) \/ Resolve(p) \/ Bind(p) \/ Serve(p) \/ Drained(p)
      PROVE  SchemaIsWhole' /\ SeenOK'
  <2>1. tables' = tables /\ version' = version
    BY <1>6 DEF Attend, Resolve, Bind, Serve, Drained, files
  <2> SUFFICES \A q \in Proc : Stays(q)
    BY <2>1, SchemaStays
  <2>3. CASE Attend(p) \/ Serve(p) \/ Exit(p)
    BY <2>3, ExitStays, GotoStays DEF Attend, Serve, Ready, At
  <2>4. CASE /\ Ready(p) /\ proc'[p].build = proc[p].build
             /\ proc'[p].step = "bind"
             /\ \A q \in Proc \ {p} : proc'[q] = proc[q]
    BY <2>4 DEF Stays, Ready
  <2>5. CASE Resolve(p) /\ ~Exit(p)
    <3>1. proc' = [proc EXCEPT ![p] = [proc[p] EXCEPT !.step = "bind", !.left = Wanted(proc[p].conf)]]
      BY <2>5 DEF Resolve, TypeOK
    <3>2. \A q \in Proc \ {p} : proc'[q] = proc[q]
      BY <3>1 DEF TypeOK
    <3>3. proc'[p].step = "bind" /\ proc'[p].build = proc[p].build
      BY <3>1 DEF TypeOK, Process
    <3> QED BY <2>4, <2>5, <3>2, <3>3 DEF Resolve, Ready, At
  <2>6. CASE Bind(p) /\ ~Exit(p)
    <3> DEFINE a == Head(proc[p].left)
    <3>1. proc' = [proc EXCEPT ![p] = [proc[p] EXCEPT !.left = Tail(@), !.bound = @ \cup {a}]]
      BY <2>6 DEF Bind, TypeOK
    <3>2. \A q \in Proc \ {p} : proc'[q] = proc[q]
      BY <3>1 DEF TypeOK
    <3>3. proc'[p].step = proc[p].step /\ proc'[p].build = proc[p].build
      BY <3>1 DEF TypeOK, Process
    <3> QED BY <2>4, <2>6, <3>2, <3>3 DEF Bind, Ready, At
  <2> QED BY <1>6, <2>3, <2>5, <2>6 DEF Drained
<1>7. CASE \/ Launch \/ RunByHand \/ Interrupt \/ Install \/ Uninstall
           \/ Bootout \/ Bootstrap \/ Remove
  <2>1. tables' = tables /\ version' = version
    BY <1>7 DEF Launch, RunByHand, Interrupt, Install, Uninstall, Bootout, Bootstrap, Remove, files
  <2>2. Agent \in Proc /\ Hand \in Proc
    BY DEF Proc
  <2>3. CASE Launch \/ RunByHand
    BY <2>1, <2>2, <2>3, StartStays, SchemaStays DEF Launch, RunByHand
  <2>4. CASE Interrupt \/ Bootout
    BY <2>1, <2>2, <2>4, StoppedStays, SchemaStays DEF Interrupt, Bootout
  <2>5. CASE Install \/ Uninstall \/ Bootstrap \/ Remove
    BY <2>1, <2>5, SchemaStays DEF Install, Uninstall, Bootstrap, Remove, Stays
  <2> QED BY <1>7, <2>3, <2>4, <2>5
<1>8. CASE \/ EditConfig \/ DeleteToken \/ Replace \/ (\E p \in Proc : Crash(p))
           \/ Reboot \/ Tailscale \/ ClientReads
  <2>1. tables' = tables /\ version' = version
    BY <1>8 DEF EditConfig, DeleteToken, Replace, Crash, Reboot, Tailscale, ClientReads, files
  <2>2. CASE EditConfig \/ DeleteToken \/ Replace \/ Tailscale \/ ClientReads
    BY <2>1, <2>2, SchemaStays DEF EditConfig, DeleteToken, Replace, Tailscale, ClientReads, Stays
  <2>3. ASSUME NEW p \in Proc, Crash(p) PROVE SchemaIsWhole' /\ SeenOK'
    BY <2>1, <2>3, ExitStays, SchemaStays DEF Crash
  <2>4. CASE Reboot
    <3>1. \A q \in Proc : proc'[q].step = "down"
      BY <2>4 DEF Reboot, Down
    <3> QED BY <2>1, <3>1, SchemaStays DEF Stays
  <2> QED BY <1>8, <2>2, <2>3, <2>4
<1>9. CASE Next
  BY <1>2, <1>3, <1>4, <1>5, <1>6, <1>7, <1>8, <1>9 DEF Next, Run, Advance
<1> QED BY <1>1, <1>9

-----------------------------------------------------------------------------
(* The token                                                               *)

(* What a step does to the processes when it makes no token.               *)
Keeps(p) == \/ proc'[p] = proc[p]
            \/ proc'[p].step \in {"down", "config", "token"}
            \/ /\ HasToken(p) /\ HasToken(p)' /\ proc'[p].token = proc[p].token

LEMMA TokenKeeps ==
  ASSUME OneToken, token' = token, client' = client, minted' = minted,
         \A p \in Proc : Keeps(p)
  PROVE  OneToken'
<1>1. ASSUME NEW p \in Proc, HasToken(p)' PROVE token' = minted' /\ proc'[p].token = minted' /\ minted' \in Token
  <2>1. HasToken(p) /\ proc'[p].token = proc[p].token
    BY <1>1 DEF Keeps, HasToken, Ready, At
  <2> QED BY <2>1 DEF OneToken
<1>2. ASSUME NEW p \in Proc, At(p, "open")' \/ At(p, "write")' PROVE proc'[p] = proc[p]
  BY <1>2 DEF Keeps, HasToken, Ready, At
<1>3. ASSUME NEW p \in Proc, At(p, "open")' PROVE token' = NoFile
  BY <1>2, <1>3 DEF OneToken, At
<1>4. ASSUME NEW p \in Proc, At(p, "write")'
      PROVE  /\ token' = Empty /\ proc'[p].token = minted' /\ minted' \in Token
             /\ \A q \in Proc \ {p} : ~At(q, "write")'
  <2>1. At(p, "write") /\ proc'[p] = proc[p]
    BY <1>2, <1>4 DEF At
  <2>2. ASSUME NEW q \in Proc \ {p}, At(q, "write")' PROVE FALSE
    BY <1>2, <2>1, <2>2 DEF OneToken, At
  <2> QED BY <2>1, <2>2 DEF OneToken
<1> QED BY <1>1, <1>3, <1>4 DEF OneToken

LEMMA ExitKeeps ==
  ASSUME TypeOK, NEW p \in Proc, Exit(p) PROVE \A q \in Proc : Keeps(q)
<1>1. Down(binary).step = "down"
  BY DEF Down
<1> QED BY <1>1 DEF Exit, Keeps, TypeOK

LEMMA GotoKeeps ==
  ASSUME TypeOK, NEW p \in Proc, NEW s, Goto(p, s), HasToken(p),
         s \in {"migrate", "attend", "resolve", "bind", "serving", "draining"}
  PROVE  \A q \in Proc : Keeps(q)
<1>1. proc'[p].step = s /\ proc'[p].token = proc[p].token
  BY DEF Goto, TypeOK, Process
<1>2. \A q \in Proc \ {p} : proc'[q] = proc[q]
  BY DEF Goto, TypeOK
<1> QED BY <1>1, <1>2 DEF Keeps, HasToken, Ready, At

LEMMA StoppedKeeps ==
  ASSUME TypeOK, NEW p \in Proc, Stopped(p) PROVE \A q \in Proc : Keeps(q)
<1>1. Down(binary).step = "down"
  BY DEF Down
<1>2. \A q \in Proc \ {p} : proc'[q] = proc[q]
  BY DEF Stopped, TypeOK
<1>3. CASE At(p, "serving")
  <2>1. proc'[p] = [proc[p] EXCEPT !.step = "draining", !.bound = {}]
    BY <1>3 DEF Stopped, TypeOK
  <2>2. proc'[p].step = "draining" /\ proc'[p].token = proc[p].token
    BY <2>1 DEF TypeOK, Process
  <2> QED BY <1>2, <1>3, <2>2 DEF Keeps, HasToken, Ready, At
<1>4. CASE ~At(p, "serving")
  BY <1>1, <1>2, <1>4 DEF Stopped, Keeps, TypeOK
<1> QED BY <1>3, <1>4

LEMMA StartKeeps ==
  ASSUME TypeOK, NEW p \in Proc, Start(p) PROVE \A q \in Proc : Keeps(q)
<1>1. [Down(binary) EXCEPT !.step = "config"].step = "config"
  BY DEF Down
<1> QED BY <1>1 DEF Start, Keeps, TypeOK

LEMMA TokenStep == TypeOK /\ TokenInv /\ [Next]_vars => TokenInv'
<1> SUFFICES ASSUME TypeOK, TokenInv, [Next]_vars, spoilt' = {} PROVE OneToken'
  BY DEF TokenInv
<1> USE DEF files, around, history
<1>1. CASE UNCHANGED vars
  BY <1>1 DEF vars, TokenInv, OneToken, HasToken, Ready, At
<1>2. ASSUME NEW p \in Proc, LoadToken(p) PROVE OneToken'
  <2>1. spoilt = {} /\ OneToken /\ UNCHANGED <<token, client, minted>>
    BY <1>2 DEF LoadToken, TokenInv
  <2>2. CASE Exit(p)
    BY <2>1, <2>2, ExitKeeps, TokenKeeps
  <2>3. CASE token = NoFile /\ Goto(p, "open")
    <3>1. proc'[p].step = "open" /\ \A q \in Proc \ {p} : proc'[q] = proc[q]
      BY <2>3 DEF Goto, TypeOK, Process
    <3>2. NoFile # Empty
      BY DEF NoFile, Empty
    <3> QED BY <2>1, <2>3, <3>1, <3>2 DEF OneToken, HasToken, Ready, At
  <2>4. CASE /\ token \in Token
             /\ proc' = [proc EXCEPT ![p].step = "store", ![p].token = token]
    <3>1. proc' = [proc EXCEPT ![p] = [proc[p] EXCEPT !.step = "store", !.token = token]]
      BY <2>4 DEF TypeOK
    <3>2. proc'[p].step = "store" /\ proc'[p].token = token
      BY <3>1 DEF TypeOK, Process
    <3>3. \A q \in Proc \ {p} : proc'[q] = proc[q]
      BY <3>1 DEF TypeOK
    <3> QED BY <2>1, <2>4, <3>2, <3>3 DEF OneToken, HasToken, Ready, At
  <2> QED BY <1>2, <2>2, <2>3, <2>4 DEF LoadToken
<1>3. ASSUME NEW p \in Proc, OpenToken(p) PROVE OneToken'
  <2>1. spoilt = {} /\ \A q \in Proc \ {p} : ~At(q, "open") /\ ~At(q, "write")
    BY <1>3 DEF OpenToken
  <2>2. OneToken /\ At(p, "open") /\ token = NoFile
    BY <1>3, <2>1 DEF OpenToken, TokenInv, OneToken
  <2>3. NoFile # Empty /\ NoFile \notin Token /\ Empty \notin Token /\ minted + 1 \in Token
    <3>1. minted < MaxTokens /\ minted \in 0 .. MaxTokens /\ MaxTokens \in Nat
      BY <1>3, DaemonAssumption DEF OpenToken, TypeOK
    <3> QED BY <3>1 DEF NoFile, Empty, Token
  <2>4. proc' = [proc EXCEPT ![p] = [proc[p] EXCEPT !.step = "write", !.token = minted + 1]]
    BY <1>3 DEF OpenToken, TypeOK
  <2>5. proc'[p].step = "write" /\ proc'[p].token = minted + 1
    BY <2>4 DEF TypeOK, Process
  <2>6. \A q \in Proc \ {p} : proc'[q] = proc[q]
    BY <2>4 DEF TypeOK
  <2>7. token' = Empty /\ minted' = minted + 1 /\ client' = client
    BY <1>3 DEF OpenToken
  <2>8. client = NoFile
    BY <2>2, <2>3 DEF OneToken, TypeOK
  <2>9. \A q \in Proc \ {p} : ~HasToken(q)
    <3>1. NoFile \notin Token
      BY DEF NoFile, Token
    <3> QED BY <2>2, <3>1 DEF OneToken
  <2> QED BY <2>1, <2>3, <2>5, <2>6, <2>7, <2>8, <2>9 DEF OneToken, HasToken, Ready, At
<1>4. ASSUME NEW p \in Proc, WriteToken(p) PROVE OneToken'
  <2>1. spoilt = {} /\ At(p, "write") /\ UNCHANGED <<client, minted>>
    BY <1>4 DEF WriteToken
  <2>2. OneToken /\ token = Empty /\ proc[p].token = minted /\ minted \in Token
        /\ \A q \in Proc \ {p} : ~At(q, "write")
    BY <2>1 DEF TokenInv, OneToken
  <2>3. minted \in Nat /\ NoFile # Empty
    BY DEF TypeOK, NoFile, Empty
  <2>4. proc'[p].step = "store" /\ proc'[p].token = minted /\ token' = minted
    BY <1>4, <2>2 DEF WriteToken, Goto, TypeOK, Process
  <2>5. \A q \in Proc \ {p} : proc'[q] = proc[q]
    BY <1>4 DEF WriteToken, Goto, TypeOK
  <2>6. \A q \in Proc \ {p} : ~At(q, "open")
    BY <2>2, <2>3 DEF OneToken
  <2> QED BY <2>1, <2>2, <2>4, <2>5, <2>6 DEF OneToken, HasToken, Ready, At
<1>5. ASSUME NEW p \in Proc, OpenStore(p) \/ Migrate(p) PROVE OneToken'
  <2>1. spoilt = {} /\ OneToken /\ UNCHANGED <<token, client, minted>>
    BY <1>5 DEF OpenStore, Migrate, TokenInv
  <2>2. CASE Exit(p)
    BY <2>1, <2>2, ExitKeeps, TokenKeeps
  <2>3. CASE /\ HasToken(p)' /\ HasToken(p) /\ proc'[p].token = proc[p].token
             /\ \A q \in Proc \ {p} : proc'[q] = proc[q]
    BY <2>1, <2>3, TokenKeeps DEF Keeps
  <2>4. CASE OpenStore(p) /\ proc' = [proc EXCEPT ![p].step = "migrate", ![p].seen = version]
    <3>1. proc' = [proc EXCEPT ![p] = [proc[p] EXCEPT !.step = "migrate", !.seen = version]]
      BY <2>4 DEF TypeOK
    <3>2. \A q \in Proc \ {p} : proc'[q] = proc[q]
      BY <3>1 DEF TypeOK
    <3>3. proc'[p].step = "migrate" /\ proc'[p].token = proc[p].token
      BY <3>1 DEF TypeOK, Process
    <3> QED BY <2>3, <2>4, <3>2, <3>3 DEF OpenStore, HasToken, At
  <2>5. CASE Migrate(p) /\ proc' = [proc EXCEPT ![p].seen = proc[p].seen + 1]
    <3>1. \A q \in Proc \ {p} : proc'[q] = proc[q]
      BY <2>5 DEF TypeOK
    <3>2. proc'[p].step = proc[p].step /\ proc'[p].token = proc[p].token
      BY <2>5 DEF TypeOK, Process
    <3> QED BY <2>3, <2>5, <3>1, <3>2 DEF Migrate, HasToken, At
  <2> QED BY <1>5, <2>2, <2>4, <2>5 DEF OpenStore, Migrate
<1>6. ASSUME NEW p \in Proc,
             Migrated(p) \/ Attend(p) \/ Resolve(p) \/ Bind(p) \/ Serve(p) \/ Drained(p)
      PROVE  OneToken'
  <2>1. spoilt = {} /\ OneToken /\ UNCHANGED <<token, client, minted>>
    BY <1>6 DEF Migrated, Attend, Resolve, Bind, Serve, Drained, TokenInv
  <2> SUFFICES \A q \in Proc : Keeps(q)
    BY <2>1, TokenKeeps
  <2>2. CASE Exit(p)
    BY <2>2, ExitKeeps
  <2>3. CASE Migrated(p) \/ Attend(p) \/ Serve(p)
    BY <2>3, GotoKeeps DEF Migrated, Attend, Serve, HasToken, Ready, At
  <2>4. CASE /\ HasToken(p) /\ proc'[p].token = proc[p].token
             /\ proc'[p].step = "bind"
             /\ \A q \in Proc \ {p} : proc'[q] = proc[q]
    BY <2>4 DEF Keeps, HasToken, Ready, At
  <2>5. CASE Resolve(p) /\ ~Exit(p)
    <3>1. proc' = [proc EXCEPT ![p] = [proc[p] EXCEPT !.step = "bind", !.left = Wanted(proc[p].conf)]]
      BY <2>5 DEF Resolve, TypeOK
    <3>2. \A q \in Proc \ {p} : proc'[q] = proc[q]
      BY <3>1 DEF TypeOK
    <3>3. proc'[p].step = "bind" /\ proc'[p].token = proc[p].token
      BY <3>1 DEF TypeOK, Process
    <3> QED BY <2>4, <2>5, <3>2, <3>3 DEF Resolve, HasToken, Ready, At
  <2>6. CASE Bind(p) /\ ~Exit(p)
    <3> DEFINE a == Head(proc[p].left)
    <3>1. proc' = [proc EXCEPT ![p] = [proc[p] EXCEPT !.left = Tail(@), !.bound = @ \cup {a}]]
      BY <2>6 DEF Bind, TypeOK
    <3>2. \A q \in Proc \ {p} : proc'[q] = proc[q]
      BY <3>1 DEF TypeOK
    <3>3. proc'[p].step = proc[p].step /\ proc'[p].token = proc[p].token
      BY <3>1 DEF TypeOK, Process
    <3> QED BY <2>4, <2>6, <3>2, <3>3 DEF Bind, HasToken, Ready, At
  <2> QED BY <1>6, <2>2, <2>3, <2>5, <2>6 DEF Drained
<1>7. CASE \/ Launch \/ RunByHand \/ Interrupt \/ Install \/ Uninstall
           \/ Bootout \/ Bootstrap \/ Remove
  <2>1. UNCHANGED <<token, client, minted, spoilt>>
    BY <1>7 DEF Launch, RunByHand, Interrupt, Install, Uninstall, Bootout, Bootstrap, Remove
  <2>2. OneToken /\ Agent \in Proc /\ Hand \in Proc
    BY <2>1 DEF Proc, TokenInv
  <2>3. CASE Launch \/ RunByHand
    BY <2>1, <2>2, <2>3, StartKeeps, TokenKeeps DEF Launch, RunByHand
  <2>4. CASE Interrupt \/ Bootout
    BY <2>1, <2>2, <2>4, StoppedKeeps, TokenKeeps DEF Interrupt, Bootout
  <2>5. CASE Install \/ Uninstall \/ Bootstrap \/ Remove
    BY <2>1, <2>2, <2>5, TokenKeeps DEF Install, Uninstall, Bootstrap, Remove, Keeps
  <2> QED BY <1>7, <2>3, <2>4, <2>5
<1>8. CASE \/ EditConfig \/ Replace \/ Tailscale \/ (\E p \in Proc : Crash(p)) \/ Reboot
           \/ \E p \in Proc : LoadConfig(p)
  <2>1. UNCHANGED <<token, client, minted, spoilt>>
    BY <1>8 DEF EditConfig, Replace, Tailscale, Crash, Reboot, LoadConfig
  <2>2. OneToken
    BY <2>1 DEF TokenInv
  <2>3. CASE EditConfig \/ Replace \/ Tailscale
    BY <2>1, <2>2, <2>3, TokenKeeps DEF EditConfig, Replace, Tailscale, Keeps
  <2>4. ASSUME NEW p \in Proc, Exit(p) PROVE OneToken'
    BY <2>1, <2>2, <2>4, ExitKeeps, TokenKeeps
  <2>5. CASE Reboot
    <3>1. \A q \in Proc : proc'[q].step = "down"
      BY <2>5 DEF Reboot, Down
    <3> QED BY <2>1, <2>2, <3>1, TokenKeeps DEF Keeps
  <2>6. ASSUME NEW p \in Proc, LoadConfig(p) PROVE OneToken'
    <3>1. CASE Valid(config')
      <4>1. proc' = [proc EXCEPT ![p] = [proc[p] EXCEPT !.step = "token", !.conf = config']]
        BY <2>6, <3>1 DEF LoadConfig, TypeOK
      <4>2. proc'[p].step = "token" /\ \A q \in Proc \ {p} : proc'[q] = proc[q]
        BY <4>1 DEF TypeOK, Process
      <4> QED BY <2>1, <2>2, <4>2, TokenKeeps DEF Keeps
    <3> QED BY <2>4, <2>6, <3>1 DEF LoadConfig
  <2> QED BY <1>8, <2>3, <2>4, <2>5, <2>6 DEF Crash
<1>9. CASE DeleteToken
  <2>1. spoilt = {} /\ token = Empty /\ token' = NoFile /\ UNCHANGED <<proc, client, minted>>
        /\ \A p \in Proc : ~At(p, "write")
    BY <1>9 DEF DeleteToken
  <2>2. OneToken /\ minted \in Nat /\ Empty # minted
    BY <2>1 DEF TokenInv, TypeOK, Empty
  <2>3. NoFile \notin Token
    BY DEF NoFile, Token
  <2> QED BY <2>1, <2>2, <2>3 DEF OneToken, HasToken, Ready, At
<1>10. CASE ClientReads
  <2>1. spoilt = {} /\ UNCHANGED <<token, proc, minted>> /\ OneToken
    BY <1>10 DEF ClientReads, TokenInv
  <2>2. client' = NoFile \/ (client' = token /\ token \in Token)
    BY <1>10 DEF ClientReads, TypeOK
  <2> QED BY <2>1, <2>2 DEF OneToken, HasToken, Ready, At
<1>11. CASE Next
  BY <1>2, <1>3, <1>4, <1>5, <1>6, <1>7, <1>8, <1>9, <1>10, <1>11 DEF Next, Run, Advance
<1> QED BY <1>1, <1>11

LEMMA TokenInvLetsIn == TokenInv => ClientIsLetIn
<1> SUFFICES ASSUME TokenInv, NEW p \in Proc, Answers(p), client # NoFile, spoilt = {},
                    NEW path \in {"rest", "ws"}
             PROVE  LetIn(p, Request(path))
  BY DEF ClientIsLetIn
<1>1. proc[p].token = minted /\ client = minted
  BY DEF TokenInv, OneToken, Answers, Serving, HasToken, Ready, At
<1>2. Presented(Request(path)) = client
  BY DEF Presented, Request
<1> QED BY <1>1, <1>2 DEF LetIn

-----------------------------------------------------------------------------
(* Whatever people do to the state directory and whatever crashes, every   *)
(* variable keeps its type.                                                *)
THEOREM DaemonTypeOK == Spec => []TypeOK
<1>1. Init => TypeOK
  BY InitInv DEF SchemaInv
<1> QED BY <1>1, TypeStep, PTL DEF Spec

(* migrations.rs: the tables are those of the version at every moment of   *)
(* every migration, by however many daemons, with crashes in between, and  *)
(* a daemon that is past its start finds the tables of its build.          *)
THEOREM SchemaStaysWhole == Spec => []SchemaIsWhole
<1>1. Init => SchemaInv
  BY InitInv
<1>2. SchemaInv => SchemaIsWhole
  BY DEF SchemaInv
<1> QED BY <1>1, <1>2, SchemaStep, PTL DEF Spec

(* token.rs and auth.rs: an app that read the token is let in by whichever *)
(* daemon answers it, unless a token was deleted or two were made at once. *)
THEOREM ClientStaysLetIn == Spec => []ClientIsLetIn
<1>1. Init => TypeOK /\ TokenInv
  BY InitInv DEF SchemaInv
<1>2. TypeOK /\ TokenInv /\ [Next]_vars => (TypeOK /\ TokenInv)'
  BY TypeStep, TokenStep
<1>3. TypeOK /\ TokenInv => ClientIsLetIn
  BY TokenInvLetsIn
<1> QED BY <1>1, <1>2, <1>3, PTL DEF Spec
=============================================================================
