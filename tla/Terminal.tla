------------------------------ MODULE Terminal ------------------------------
(***************************************************************************)
(* One viewer of a live terminal (crates/forge-daemon/src/terminal.rs and  *)
(* http/terminal.rs).  The daemon runs a tmux attach of the viewer's own   *)
(* in a pty.  A thread reads what it prints into a bounded channel; a loop *)
(* carries the channel to the WebSocket and the viewer's messages to the   *)
(* pty, one at a time, and pings now and then, because a machine that goes *)
(* to sleep leaves a connection on which reads never return.               *)
(*                                                                         *)
(* Viewers of one session share nothing but its end, so one is modelled.   *)
(***************************************************************************)
EXTENDS Integers, Sequences, Functions

CONSTANTS
    BACKLOG,   \* chunks that may wait for the viewer
    Window,    \* messages the connection takes before the viewer reads one
    MaxChunk,  \* chunks an attach prints
    MaxSent    \* messages the viewer sends

ASSUME BoundsAssumption ==
    /\ BACKLOG \in Nat \ {0} /\ Window \in Nat \ {0}
    /\ MaxChunk \in Nat /\ MaxSent \in Nat

VARIABLES
    session,   \* whether the tmux session runs
    row,       \* whether its row in the store says so
    loop,      \* where the task that serves the viewer is
    readOnly,  \* whether it drops the viewer's keys
    child,     \* whether the attach runs
    reader,    \* the thread that reads the pty
    made,      \* how many chunks were read from the pty
    backlog,   \* the channel between the thread and the loop
    sending,   \* the message, if any, the loop is giving to the connection
    socket,    \* what the connection holds for the viewer
    got,       \* the chunks the viewer has received
    net,       \* the connection
    sent,      \* everything the viewer has sent, its wish at the start first
    inbox,     \* what of it the loop has not taken
    typed      \* the keys that reached the agent

pty == <<child, reader, made, backlog>>
viewer == <<got, sent>>
terminalVars == <<session, row, loop, readOnly, pty, sending, socket, viewer, net, inbox, typed>>

(***************************************************************************)
(* A chunk is its number; 0 is a ping.  The viewer sends keys, which are   *)
(* numbered too, a wish to be or not to be read-only, and a Close.         *)
(***************************************************************************)
Ping == 0
Key(n) == [kind |-> "key", key |-> n, value |-> FALSE]
ReadOnly(b) == [kind |-> "read_only", key |-> 0, value |-> b]
Close == [kind |-> "close", key |-> 0, value |-> FALSE]
Incoming == {Key(n) : n \in 1 .. MaxSent} \cup {ReadOnly(b) : b \in BOOLEAN} \cup {Close}

Alive == {"open", "stalled"}   \* the viewer is there, but may have stopped reading

TerminalTypeOK ==
    /\ session \in BOOLEAN /\ row \in BOOLEAN /\ readOnly \in BOOLEAN /\ child \in BOOLEAN
    /\ loop \in {"off", "upgrade", "select", "send", "type", "drop", "done"}
    /\ reader \in {"none", "reading", "ended"}
    /\ made \in 0 .. MaxChunk
    /\ backlog \in Seq(1 .. MaxChunk) /\ Len(backlog) <= BACKLOG
    /\ sending \in 0 .. MaxChunk
    /\ socket \in Seq(0 .. MaxChunk) /\ Len(socket) <= Window
    /\ got \in Seq(1 .. MaxChunk)
    /\ net \in Alive \cup {"gone", "broken", "closed"}
    /\ sent \in Seq(Incoming) /\ inbox \in Seq(Incoming)
    /\ typed \in Seq(1 .. MaxSent)

TerminalInit ==
    /\ session = TRUE /\ row = TRUE
    /\ loop = "off"
    /\ readOnly = FALSE
    /\ child = FALSE /\ reader = "none" /\ made = 0 /\ backlog = <<>>
    /\ sending = Ping /\ socket = <<>> /\ got = <<>>
    /\ net = "open"
    /\ sent = <<>> /\ inbox = <<>> /\ typed = <<>>
-----------------------------------------------------------------------------
\* A plausible defect: the wish that came with the connection is forgotten.
Stream_MayType(ro) ==
    /\ loop = "off" /\ row
    /\ loop' = "upgrade"
    /\ readOnly' = FALSE
    /\ sent' = <<ReadOnly(ro)>>
    /\ UNCHANGED <<session, row, pty, sending, socket, got, net, inbox, typed>>

\* stream: the row is looked at before the upgrade, and never again.
Stream(ro) ==
    /\ loop = "off" /\ row
    /\ loop' = "upgrade"
    /\ readOnly' = ro
    /\ sent' = <<ReadOnly(ro)>>
    /\ UNCHANGED <<session, row, pty, sending, socket, got, net, inbox, typed>>

\* attach: a pty and a tmux attach of the session by its name, or neither.
Open ==
    /\ loop = "upgrade"
    /\ \/ loop' = "select" /\ child' = TRUE /\ reader' = "reading"
       \/ loop' = "done" /\ UNCHANGED <<child, reader>>
    /\ UNCHANGED <<session, row, readOnly, made, backlog, sending, socket, viewer, net, inbox, typed>>

(***************************************************************************)
(* The thread.  It never waits for the loop: when the channel is full it   *)
(* ends, and the loop finds the end of the channel behind what is in it.   *)
(* The loop's end closes the channel.  What an attach has printed can be   *)
(* read after its end.                                                     *)
(***************************************************************************)
\* A plausible defect: what does not fit is left out, and the thread goes on.
ReadChunk_Drops ==
    /\ reader = "reading"
    /\ made < MaxChunk
    /\ made' = made + 1
    /\ backlog' = IF Len(backlog) < BACKLOG THEN Append(backlog, made') ELSE backlog
    /\ UNCHANGED <<session, row, loop, readOnly, child, reader, sending, socket, viewer, net, inbox, typed>>

ReadChunk ==
    /\ reader = "reading"
    /\ made < MaxChunk
    /\ made' = made + 1
    /\ IF loop # "done" /\ Len(backlog) < BACKLOG
       THEN backlog' = Append(backlog, made') /\ UNCHANGED reader
       ELSE reader' = "ended" /\ UNCHANGED backlog
    /\ UNCHANGED <<session, row, loop, readOnly, child, sending, socket, viewer, net, inbox, typed>>

ReadEof ==
    /\ reader = "reading" /\ ~ child
    /\ reader' = "ended"
    /\ UNCHANGED <<session, row, loop, readOnly, child, made, backlog, sending, socket, viewer, net, inbox, typed>>

\* The attach ends with its session, or when somebody detaches from inside it.
AttachEnds ==
    /\ child
    /\ child' = FALSE
    /\ UNCHANGED <<session, row, loop, readOnly, reader, made, backlog, sending, socket, viewer, net, inbox, typed>>
-----------------------------------------------------------------------------
(***************************************************************************)
(* The loop: one of the branches that are ready, then to its end.          *)
(***************************************************************************)
Begin(message) == sending' = message /\ loop' = "send"

\* A plausible defect: nobody looks after a silent connection.
Tick_Never ==
    /\ loop = "never"
    /\ UNCHANGED terminalVars

Tick ==
    /\ loop = "select"
    /\ Begin(Ping)
    /\ UNCHANGED <<session, row, readOnly, pty, socket, viewer, net, inbox, typed>>

Output ==
    /\ loop = "select" /\ backlog # <<>>
    /\ Begin(Head(backlog))
    /\ backlog' = Tail(backlog)
    /\ UNCHANGED <<session, row, readOnly, child, reader, made, socket, viewer, net, inbox, typed>>

OutputEnds ==
    /\ loop = "select" /\ backlog = <<>> /\ reader = "ended"
    /\ loop' = "drop"
    /\ UNCHANGED <<session, row, readOnly, pty, sending, socket, viewer, net, inbox, typed>>

\* A message of the viewer: keys are written out before anything else is looked
\* at, unless they are dropped.
Take ==
    /\ loop = "select" /\ inbox # <<>>
    /\ LET message == Head(inbox)
       IN  \/ /\ message.kind = "key"
              /\ IF readOnly THEN inbox' = Tail(inbox) /\ UNCHANGED loop
                 ELSE loop' = "type" /\ UNCHANGED inbox
              /\ UNCHANGED readOnly
           \/ /\ message.kind = "read_only"
              /\ readOnly' = message.value
              /\ inbox' = Tail(inbox)
              /\ UNCHANGED loop
           \/ /\ message.kind = "close"
              /\ loop' = "drop"
              /\ UNCHANGED <<readOnly, inbox>>
    /\ UNCHANGED <<session, row, pty, sending, socket, viewer, net, typed>>

\* The connection is found to be broken.
TakeError ==
    /\ loop = "select" /\ inbox = <<>> /\ net = "broken"
    /\ loop' = "drop"
    /\ UNCHANGED <<session, row, readOnly, pty, sending, socket, viewer, net, inbox, typed>>

\* The write to the pty; it fails when the attach is gone.
Type ==
    /\ loop = "type"
    /\ \/ /\ child
          /\ typed' = Append(typed, Head(inbox).key)
          /\ loop' = "select"
       \/ /\ ~ child
          /\ loop' = "drop"
          /\ UNCHANGED typed
    /\ inbox' = Tail(inbox)
    /\ UNCHANGED <<session, row, readOnly, pty, sending, socket, viewer, net>>

\* sink.send: it waits while the connection is full, and fails when it is broken.
Send ==
    /\ loop = "send"
    /\ \/ /\ net # "broken" /\ Len(socket) < Window
          /\ socket' = Append(socket, sending)
          /\ loop' = "select"
       \/ /\ net \in {"broken", "closed"}
          /\ loop' = "drop"
          /\ UNCHANGED socket
    /\ sending' = Ping
    /\ UNCHANGED <<session, row, readOnly, pty, viewer, net, inbox, typed>>

\* Dropping the attachment kills the attach and closes the channel.
DropAttachment ==
    /\ loop = "drop"
    /\ loop' = "done"
    /\ child' = FALSE /\ backlog' = <<>>
    /\ UNCHANGED <<session, row, readOnly, reader, made, sending, socket, viewer, net, inbox, typed>>
-----------------------------------------------------------------------------
\* The viewer reads, and sends keys and wishes.
Deliver ==
    /\ net = "open" /\ socket # <<>>
    /\ got' = IF Head(socket) = Ping THEN got ELSE Append(got, Head(socket))
    /\ socket' = Tail(socket)
    /\ UNCHANGED <<session, row, loop, readOnly, pty, sending, net, sent, inbox, typed>>

Says(message) ==
    /\ net \in Alive /\ loop \notin {"off", "done"}
    /\ Len(sent) <= MaxSent
    /\ sent' = Append(sent, message)
    /\ inbox' = Append(inbox, message)
    /\ UNCHANGED <<session, row, loop, readOnly, pty, sending, socket, got, typed>>

SendKey == Says(Key(Len(sent))) /\ UNCHANGED net
SetReadOnly(b) == Says(ReadOnly(b)) /\ UNCHANGED net
Leave == Says(Close) /\ net' = "closed"

\* The viewer stops reading, or reads on; its machine goes away for good.
Stall ==
    /\ net \in Alive /\ loop # "off"
    /\ net' = IF net = "open" THEN "stalled" ELSE "open"
    /\ UNCHANGED <<session, row, loop, readOnly, pty, sending, socket, viewer, inbox, typed>>

Vanish ==
    /\ net \in Alive /\ loop # "off"
    /\ net' = "gone"
    /\ UNCHANGED <<session, row, loop, readOnly, pty, sending, socket, viewer, inbox, typed>>

\* TCP gives up on a peer that answers nothing, once there is something to answer.
TcpGivesUp ==
    /\ net = "gone" /\ socket # <<>>
    /\ net' = "broken"
    /\ UNCHANGED <<session, row, loop, readOnly, pty, sending, socket, viewer, inbox, typed>>

\* The session ends, and its row some time later.
SessionEnds ==
    /\ session
    /\ session' = FALSE
    /\ UNCHANGED <<row, loop, readOnly, pty, sending, socket, viewer, net, inbox, typed>>

RowEnds ==
    /\ ~ session /\ row
    /\ row' = FALSE
    /\ UNCHANGED <<session, loop, readOnly, pty, sending, socket, viewer, net, inbox, typed>>

TerminalNext ==
    \/ \E ro \in BOOLEAN : Stream(ro)
    \/ Open \/ ReadChunk \/ ReadEof \/ AttachEnds
    \/ Tick \/ Output \/ OutputEnds \/ Take \/ TakeError \/ Type \/ Send \/ DropAttachment
    \/ Deliver \/ SendKey \/ \E b \in BOOLEAN : SetReadOnly(b)
    \/ Leave \/ Stall \/ Vanish \/ TcpGivesUp
    \/ SessionEnds \/ RowEnds

TerminalSpec == TerminalInit /\ [][TerminalNext]_terminalVars

(***************************************************************************)
(* The loop goes on while something is ready, and select!, which chooses   *)
(* among what is ready at random, does not pass over the output for ever.  *)
(* The thread is scheduled, a tmux attach ends with its session, a viewer  *)
(* that comes back to reading reads, and TCP gives up.                     *)
(***************************************************************************)
TerminalFairSpec ==
    /\ TerminalSpec
    /\ WF_terminalVars(Open \/ Tick \/ Type \/ Send \/ DropAttachment)
    /\ SF_terminalVars(Output \/ OutputEnds)
    /\ WF_terminalVars(ReadEof)
    /\ WF_terminalVars(~ session /\ AttachEnds)
    /\ SF_terminalVars(Deliver)
    /\ WF_terminalVars(TcpGivesUp)
-----------------------------------------------------------------------------
(***************************************************************************)
(* Properties                                                              *)
(***************************************************************************)

\* What a viewer has received, with what is on its way, is what its attach has
\* printed from the start, in its order and without a hole: a viewer that is too
\* slow is cut off rather than shown garbage (terminal.rs, BACKLOG, spawn_reader).
Shown ==
    (got \o socket) \o IF loop \in {"drop", "done"} THEN <<>> ELSE <<sending>> \o backlog
Increasing(s) ==
    \A i, j \in DOMAIN s : i < j /\ s[i] # Ping /\ s[j] # Ping => s[i] < s[j]
Gapless(s, n) == Increasing(s) /\ Range(s) \ {Ping} = 1 .. n
NoHoles == \E n \in 0 .. made : Gapless(Shown, n)

\* The keys that reach the agent are those the viewer sent while it wanted to
\* type, in its order, none twice and none left out before the last: also when
\* output, pings and changes of its mind come in between (attach's loop).
LastWish(n, b) ==
    \E w \in 1 .. n : sent[w] = ReadOnly(b) /\ \A j \in w + 1 .. n : sent[j].kind # "read_only"
WantedToType(i) == sent[i].kind = "key" /\ LastWish(i - 1, FALSE)
Allowed(n) == {sent[i].key : i \in {j \in 1 .. n : WantedToType(j)}}
TypedAsAllowed ==
    /\ \A i, j \in DOMAIN typed : i < j => typed[i] < typed[j]
    /\ \E n \in 0 .. Len(sent) : Range(typed) = Allowed(n)

\* A viewer that has left, whose machine is gone, whose attach has ended or that
\* has fallen too far behind ends without an attach or a thread left behind,
\* unless it stays connected and never reads again (KEEPALIVE, Attachment::drop).
Over == net \in {"gone", "broken", "closed"} \/ reader = "ended" \/ (~ session /\ child)
Reaped == loop = "done" /\ ~ child /\ reader # "reading"
GoneIsReaped ==
    (loop \notin {"off", "done"} /\ Over) ~> (Reaped \/ [](net = "stalled"))
-----------------------------------------------------------------------------
(***************************************************************************)
(* Why it holds: the inductive invariant                                   *)
(***************************************************************************)

\* A chunk waits for the connection only in the branch that sends it.  While the
\* loop may send on and the thread reads, nothing that was read is missing: the
\* next chunk is the next number.
Live == loop \notin {"drop", "done"}
ChunksOK ==
    /\ loop \in {"off", "upgrade"} => reader = "none"
    /\ loop # "send" => sending = Ping
    /\ Live /\ reader # "ended" => Gapless(Shown, made)
    /\ NoHoles

\* What the loop has not taken is the end of what was sent; a key is numbered by
\* its place in it.
Taken == Len(sent) - Len(inbox)
InboxOK ==
    /\ loop = "off" => sent = <<>> /\ inbox = <<>>
    /\ loop # "off" => Taken >= 1 /\ sent[1].kind = "read_only"
    /\ \A i \in DOMAIN inbox : inbox[i] = sent[Taken + i]
    /\ \A i \in DOMAIN sent : sent[i].kind = "key" => sent[i].key = i - 1

\* The loop holds the last wish it has taken, and has typed every key up to there
\* that the viewer wanted typed.
WishOK == loop # "off" => LastWish(Taken, readOnly)
TypedOK ==
    /\ \A i, j \in DOMAIN typed : i < j => typed[i] < typed[j]
    /\ loop = "type" => inbox # <<>> /\ inbox[1].kind = "key" /\ ~ readOnly
    /\ Live => Range(typed) = Allowed(Taken)
    /\ \E n \in 0 .. Taken : Range(typed) = Allowed(n)

TerminalIInv == TerminalTypeOK /\ ChunksOK /\ InboxOK /\ WishOK /\ TypedOK
=============================================================================
