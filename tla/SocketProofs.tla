---------------------------- MODULE SocketProofs ----------------------------
(* Proofs about the two WebSockets the daemon serves: the event feed, for  *)
(* any clients, filters, capacity, page size and number of hooks, and the  *)
(* live terminal, for any backlog, window, output and input.               *)
EXTENDS EventFeed, Terminal, FiniteSetTheorems, SequenceTheorems, WellFoundedInduction, TLAPS

-----------------------------------------------------------------------------
(* The event feed                                                          *)
-----------------------------------------------------------------------------

USE DEF None

(* What is on the wire of a client, and what its relay has not sent yet.   *)
Relevant(c) == {i \in 1 .. Last : Wanted(c, log[i])}

WireOK(c) ==
  /\ \A k \in 1 .. Len(wire[c]) :
       wire[c][k] \in Relevant(c) /\ seen[c] < wire[c][k] /\ wire[c][k] <= conn[c].sent
  /\ \A j, k \in 1 .. Len(wire[c]) : j < k => wire[c][j] < wire[c][k]

Due(c, m) == \/ seen[c] # None /\ seen[c] < m
             \/ \E k \in 1 .. Len(wire[c]) : wire[c][k] <= m

NoGap(c) == \A m \in Relevant(c) :
  m <= conn[c].sent /\ Due(c, m) => \E k \in 1 .. Len(wire[c]) : wire[c][k] = m

RelayOK(c) == conn[c].state # "off" =>
  /\ WireOK(c) /\ NoGap(c)
  /\ seen[c] <= conn[c].sent
  /\ conn[c].state = "live" /\ conn[c].sent # None =>
       \A m \in Relevant(c) : m < conn[c].next => m <= conn[c].sent
  /\ conn[c].state = "filling" => conn[c].sent # None
  /\ \A p \in conn[c].page :
       /\ p \in Relevant(c) /\ conn[c].sent < p
       /\ \A m \in Relevant(c) : conn[c].sent < m /\ m < p => m \in conn[c].page

(* The permits are held by the hooks that wait and run.                    *)
HooksOK ==
  /\ IsFiniteSet(hooks.running)
  /\ \A i \in hooks.running : i < hooks.next
  /\ \A k \in 1 .. Len(hooks.waiting) :
       hooks.waiting[k] < hooks.next /\ hooks.waiting[k] \notin hooks.running
  /\ \A j, k \in 1 .. Len(hooks.waiting) : j # k => hooks.waiting[j] # hooks.waiting[k]
  /\ hooks.admitted = Len(hooks.waiting) + Cardinality(hooks.running)
  /\ hooks.admitted <= Concurrency + Queue
  /\ Cardinality(hooks.running) <= Concurrency

IInv == TypeOK /\ (\A c \in Client : RelayOK(c)) /\ HooksOK

-----------------------------------------------------------------------------
(* A step that leaves the history and a client alone leaves what is said   *)
(* of the client true.                                                     *)
LEMMA Untouched ==
  ASSUME NEW c \in Client, RelayOK(c), log' = log,
         conn'[c] = conn[c], wire'[c] = wire[c], seen'[c] = seen[c]
  PROVE  RelayOK(c)'
BY DEF RelayOK, WireOK, NoGap, Due, Relevant, Last

(* What the steps of the other parties leave alone.                        *)
LEMMA HooksUntouched == HooksOK /\ UNCHANGED hooks => HooksOK'
BY DEF HooksOK

LEMMA InitInv == Init => IInv
<1> SUFFICES ASSUME Init PROVE IInv
  OBVIOUS
<1> USE FeedAssumption DEF Init
<1>1. TypeOK
  BY DEF TypeOK, Relay, Off, Hooks, NewHooks, Cursor, Id
<1>2. \A c \in Client : RelayOK(c)
  BY DEF RelayOK, Off
<1>3. HooksOK
  <2>1. Cardinality({}) = 0 /\ IsFiniteSet({})
    BY FS_EmptySet
  <2> QED
    BY <2>1 DEF HooksOK, NewHooks
<1> QED
  BY <1>1, <1>2, <1>3 DEF IInv

-----------------------------------------------------------------------------
(* The steps of a client and its relay.                                    *)

(* The last position, and what can be received.                            *)
LEMMA Positions == TypeOK =>
  /\ Last \in Nat /\ Oldest \in Id /\ Oldest <= Last + 1
  /\ \A i \in 1 .. Last : log[i] \in Event
BY FeedAssumption DEF TypeOK, Last, Oldest, Id

(* It is enough to look at the client whose relay took the step.           *)
LEMMA OneRelay ==
  ASSUME IInv, NEW c \in Client, NEW r \in Relay, NEW w \in Seq(Id), NEW s \in Cursor,
         conn' = [conn EXCEPT ![c] = r], wire' = [wire EXCEPT ![c] = w],
         seen' = [seen EXCEPT ![c] = s], drops' \in 0 .. MaxDrops,
         UNCHANGED <<log, hooks, push, restarts>>,
         r.next <= Last + 1, r.sent <= Last, s <= Last,
         r.state = "off" => w = <<>>, r.state # "filling" => r.page = {},
         conn'[c] = r /\ wire'[c] = w /\ seen'[c] = s => RelayOK(c)'
  PROVE  IInv'
<1>1. TypeOK /\ HooksOK
  BY DEF IInv
<1>2. conn'[c] = r /\ wire'[c] = w /\ seen'[c] = s
  BY <1>1 DEF TypeOK
<1>3. ASSUME NEW d \in Client, d # c
      PROVE  conn'[d] = conn[d] /\ wire'[d] = wire[d] /\ seen'[d] = seen[d]
  BY <1>3, <1>1 DEF TypeOK
<1>4. TypeOK'
  <2>1. conn' \in [Client -> Relay] /\ wire' \in [Client -> Seq(Id)] /\ seen' \in [Client -> Cursor]
    BY <1>1 DEF TypeOK
  <2>2. ASSUME NEW d \in Client
        PROVE  /\ conn'[d].next <= Last + 1 /\ conn'[d].sent <= Last /\ seen'[d] <= Last
               /\ conn'[d].state = "off" => wire'[d] = <<>>
               /\ conn'[d].state # "filling" => conn'[d].page = {}
    <3>1. CASE d = c
      BY <3>1, <1>2
    <3>2. CASE d # c
      BY <3>2, <1>3, <1>1 DEF TypeOK, Last
    <3> QED
      BY <3>1, <3>2
  <2> QED
    BY <2>1, <2>2, <1>1 DEF TypeOK, Last
<1>5. ASSUME NEW d \in Client PROVE RelayOK(d)'
  <2>1. CASE d = c
    BY <2>1, <1>2
  <2>2. CASE d # c
    BY <2>2, <1>3, Untouched DEF IInv
  <2> QED
    BY <2>1, <2>2
<1>6. HooksOK'
  BY <1>1, HooksUntouched
<1> QED
  BY <1>4, <1>5, <1>6 DEF IInv

(* What is known of a client before a step.                                *)
Known(c) ==
  /\ conn[c] \in Relay /\ wire[c] \in Seq(Id) /\ seen[c] \in Cursor
  /\ conn[c].state \in {"off", "filling", "live", "closing"}
  /\ conn[c].next \in Id /\ conn[c].sent \in Cursor /\ conn[c].page \subseteq Id
  /\ conn[c].next <= Last + 1 /\ conn[c].sent <= Last /\ seen[c] <= Last
  /\ Last \in Nat /\ Relevant(c) \subseteq 1 .. Last
  /\ conn[c].state = "off" => wire[c] = <<>>
  /\ conn[c].state # "filling" => conn[c].page = {}
  /\ drops \in 0 .. MaxDrops

Same(c) ==
  /\ wire = [wire EXCEPT ![c] = wire[c]] /\ seen = [seen EXCEPT ![c] = seen[c]]
  /\ conn = [conn EXCEPT ![c] = conn[c]]

LEMMA Before == ASSUME IInv, NEW c \in Client PROVE Known(c) /\ Same(c) /\ RelayOK(c)
<1>1. TypeOK /\ RelayOK(c)
  BY DEF IInv
<1>2. Known(c)
  BY <1>1 DEF TypeOK, Relay, Last, Relevant, Known
<1>3. Same(c)
  BY <1>1 DEF TypeOK, Same
<1> QED
  BY <1>1, <1>2, <1>3

LEMMA ConnectStep == ASSUME IInv, NEW c \in Client, Connect(c) PROVE IInv'
<1>0. Known(c) /\ Same(c) /\ RelayOK(c)
  BY Before
<1> DEFINE r == [state |-> IF seen[c] = None THEN "live" ELSE "filling",
                 next |-> Last + 1, sent |-> seen[c], page |-> {}]
<1>b. wire[c] = <<>>
  BY <1>0 DEF Connect, Known
<1>c. conn' = [conn EXCEPT ![c] = r]
  BY DEF Connect
<1>1. conn' = [conn EXCEPT ![c] = r] /\ UNCHANGED <<log, hooks, push, restarts, wire, seen, drops>>
      /\ wire[c] = <<>>
  BY <1>b, <1>c DEF Connect, Feed
<1>2. Last + 1 \in Id /\ seen[c] \in Cursor /\ {} \in SUBSET Id
  BY <1>0 DEF Known, Id
<1>3. r \in Relay
  BY <1>2 DEF Relay
<1>4. r.page = {} /\ r.sent = seen[c] /\ r.next = Last + 1
      /\ r.state = (IF seen[c] = None THEN "live" ELSE "filling")
  OBVIOUS
<1> HIDE DEF r
<1>5. ASSUME conn'[c] = r, wire'[c] = wire[c], seen'[c] = seen[c] PROVE RelayOK(c)'
  <2>1. wire'[c] = <<>> /\ Relevant(c)' = Relevant(c)
    BY <1>1, <1>5 DEF Relevant, Last
  <2>2. WireOK(c)'
    BY <2>1 DEF WireOK
  <2>3. ASSUME NEW m \in Relevant(c), m <= seen[c], Due(c, m)' PROVE FALSE
    BY <2>1, <2>3, <1>0, <1>5 DEF Due, Known, Cursor
  <2>4. NoGap(c)'
    BY <2>1, <2>3, <1>4, <1>5 DEF NoGap
  <2>5. seen[c] <= seen[c]
    BY <1>0 DEF Known, Cursor
  <2>6. r.state = "live" => r.sent = None
    BY <1>4
  <2> QED
    BY <1>4, <1>5, <2>1, <2>2, <2>4, <2>5, <2>6 DEF RelayOK
<1>6. r.next <= Last + 1 /\ r.sent <= Last /\ r.state # "off" /\ drops' \in 0 .. MaxDrops
  BY <1>0, <1>1, <1>4 DEF Known
<1>7. wire' = [wire EXCEPT ![c] = wire[c]] /\ seen' = [seen EXCEPT ![c] = seen[c]]
  BY <1>0, <1>1 DEF Same
<1> QED
  BY <1>0, <1>1, <1>3, <1>4, <1>5, <1>6, <1>7, OneRelay DEF Known

LEMMA FiniteIds == ASSUME NEW n \in Nat PROVE IsFiniteSet(1 .. n)
BY FS_Interval

(* A page is the beginning of what is left.                                *)
LEMMA PageIsFirst ==
  ASSUME IInv, NEW c \in Client, NEW p \in Page(c, conn[c].sent), NEW m \in Relevant(c),
         conn[c].sent < m, m < p
  PROVE  m \in Page(c, conn[c].sent)
<1> DEFINE H == History(c, conn[c].sent)
           B(i) == {j \in H : j < i}
<1>1. m \in H /\ p \in H /\ m \in Int /\ p \in Int /\ H \subseteq 1 .. Last /\ Last \in Nat
  BY Before DEF Known, History, Page, Relevant
<1>2. IsFiniteSet(B(p)) /\ B(m) \subseteq B(p)
  <2>1. IsFiniteSet(1 .. Last)
    BY <1>1, FiniteIds
  <2>2. B(p) \subseteq 1 .. Last /\ B(m) \subseteq B(p)
    BY <1>1
  <2> QED
    BY <2>1, <2>2, FS_Subset
<1>3. Cardinality(B(m)) <= Cardinality(B(p)) /\ Cardinality(B(m)) \in Nat /\ Cardinality(B(p)) \in Nat
  BY <1>2, FS_Subset, FS_CardinalityType
<1>4. Cardinality(B(p)) < PageSize
  BY DEF Page
<1>5. Cardinality(B(m)) < PageSize
  BY <1>3, <1>4, FeedAssumption
<1> QED
  BY <1>1, <1>5 DEF Page

LEMMA FetchStep == ASSUME IInv, NEW c \in Client, Fetch(c) PROVE IInv'
<1>0. Known(c) /\ Same(c) /\ RelayOK(c)
  BY Before
<1> USE DEF Feed, Fetch
<1>1. History(c, conn[c].sent) = {i \in Relevant(c) : i > conn[c].sent}
  BY DEF History, Relevant
<1>2. Relevant(c)' = Relevant(c)
  BY DEF Relevant, Last
<1>3. CASE History(c, conn[c].sent) = {}
  <2> DEFINE r == [conn[c] EXCEPT !.state = "live"]
  <2>1. conn' = [conn EXCEPT ![c] = r]
    BY <1>3
  <2>2. r \in Relay /\ r.page = {} /\ r.sent = conn[c].sent /\ r.next = conn[c].next
        /\ r.state = "live"
    BY <1>0 DEF Known, Relay
  <2> HIDE DEF r
  <2>3. ASSUME conn'[c] = r, wire'[c] = wire[c], seen'[c] = seen[c] PROVE RelayOK(c)'
    <3>1. \A m \in Relevant(c) : m <= conn[c].sent
      BY <1>1, <1>3, <1>0 DEF Known, Cursor
    <3>2. WireOK(c)' /\ NoGap(c)'
      BY <1>2, <2>2, <2>3, <1>0 DEF Known, RelayOK, WireOK, NoGap, Due
    <3> QED
      BY <1>2, <2>2, <2>3, <3>1, <3>2, <1>0 DEF Known, RelayOK
  <2>4. wire' = [wire EXCEPT ![c] = wire[c]] /\ seen' = [seen EXCEPT ![c] = seen[c]]
        /\ UNCHANGED <<log, hooks, push, restarts>>
    BY <1>0 DEF Same
  <2>5. wire[c] \in Seq(Id) /\ seen[c] \in Cursor /\ drops' \in 0 .. MaxDrops
    BY <1>0 DEF Known
  <2>6. r.next <= Last + 1 /\ r.sent <= Last /\ seen[c] <= Last
        /\ (r.state = "off" => wire[c] = <<>>) /\ (r.state # "filling" => r.page = {})
    BY <2>2, <1>0 DEF Known
  <2>7. r \in Relay
    BY <2>2
  <2> HIDE DEF Feed, Fetch
  <2> QED
    BY <2>1, <2>3, <2>4, <2>5, <2>6, <2>7, OneRelay
<1>4. CASE History(c, conn[c].sent) # {}
  <2> DEFINE r == [conn[c] EXCEPT !.page = Page(c, conn[c].sent)]
  <2>1. conn' = [conn EXCEPT ![c] = r]
    BY <1>4
  <2>2. Page(c, conn[c].sent) \subseteq {i \in Relevant(c) : i > conn[c].sent}
    BY <1>1 DEF Page
  <2>3. r \in Relay /\ r.page = Page(c, conn[c].sent) /\ r.sent = conn[c].sent
        /\ r.next = conn[c].next /\ r.state = "filling"
    BY <2>2, <1>0 DEF Known, Relay, Id
  <2> HIDE DEF r
  <2>4. ASSUME conn'[c] = r, wire'[c] = wire[c], seen'[c] = seen[c] PROVE RelayOK(c)'
    <3>1. WireOK(c)' /\ NoGap(c)'
      BY <1>2, <2>3, <2>4, <1>0 DEF Known, RelayOK, WireOK, NoGap, Due
    <3>2. \A p \in r.page : p \in Relevant(c) /\ conn[c].sent < p
      BY <2>2, <2>3, <1>0 DEF Known, Cursor
    <3>3. \A p \in r.page, m \in Relevant(c) : conn[c].sent < m /\ m < p => m \in r.page
      BY <2>3, PageIsFirst
    <3> QED
      BY <1>2, <2>3, <2>4, <3>1, <3>2, <3>3, <1>0 DEF Known, RelayOK
  <2> QED
    <3>1. UNCHANGED <<log, hooks, push, restarts, wire, seen, drops>>
      OBVIOUS
    <3>2. wire' = [wire EXCEPT ![c] = wire[c]] /\ seen' = [seen EXCEPT ![c] = seen[c]]
      BY <3>1, <1>0 DEF Same
    <3>3. r.next <= Last + 1 /\ r.sent <= Last /\ seen[c] <= Last /\ drops' \in 0 .. MaxDrops
          /\ r.state # "off" /\ r.state = "filling"
      BY <3>1, <2>3, <1>0 DEF Known
    <3>4. wire[c] \in Seq(Id) /\ seen[c] \in Cursor
      BY <1>0 DEF Known
    <3> QED
      BY <2>1, <2>3, <2>4, <3>1, <3>2, <3>3, <3>4, OneRelay
<1> QED
  BY <1>3, <1>4

(* A relay that sends the next relevant event leaves no gap.               *)
LEMMA SendNext ==
  ASSUME NEW c \in Client, NEW i \in Relevant(c), Known(c), WireOK(c), NoGap(c),
         seen[c] <= conn[c].sent, conn[c].sent < i,
         conn[c].sent # None => \A m \in Relevant(c) : m < i => m <= conn[c].sent,
         log' = log, seen'[c] = seen[c], wire'[c] = Append(wire[c], i), conn'[c].sent = i
  PROVE  WireOK(c)' /\ NoGap(c)' /\ seen'[c] <= i /\ i # None
<1> DEFINE w == Append(wire[c], i)
           n == Len(wire[c])
<1>1. i \in Id /\ i \in Nat /\ n \in Nat /\ wire[c] \in Seq(Id) /\ conn[c].sent \in Int /\ seen[c] \in Int
  BY DEF Known, Cursor, Id
<1>2. w \in Seq(Id) /\ Len(w) = n + 1 /\ w[n + 1] = i
      /\ \A k \in 1 .. n : w[k] = wire[c][k] /\ wire[c][k] \in Id
  BY <1>1
<1>3. Relevant(c)' = Relevant(c)
  BY DEF Relevant, Last
<1>4. wire'[c] = w
  OBVIOUS
<1>5. \A k \in 1 .. n : wire[c][k] \in Relevant(c) /\ seen[c] < wire[c][k] /\ wire[c][k] <= conn[c].sent
  BY DEF WireOK
<1> HIDE DEF w
<1>6. WireOK(c)'
  <2>1. ASSUME NEW k \in 1 .. n + 1
        PROVE  w[k] \in Relevant(c) /\ seen[c] < w[k] /\ w[k] <= i
    <3>1. CASE k = n + 1
      BY <3>1, <1>1, <1>2
    <3>2. CASE k # n + 1
      <4>1. k \in 1 .. n
        BY <3>2, <1>1
      <4>2. w[k] = wire[c][k] /\ wire[c][k] \in Nat /\ wire[c][k] <= conn[c].sent
            /\ wire[c][k] \in Relevant(c) /\ seen[c] < wire[c][k]
        BY <4>1, <1>2, <1>5 DEF Id
      <4>3. wire[c][k] <= i
        BY <4>2, <1>1
      <4> QED
        BY <4>2, <4>3
    <3> QED
      BY <3>1, <3>2
  <2>2. ASSUME NEW j \in 1 .. n + 1, NEW k \in 1 .. n + 1, j < k PROVE w[j] < w[k]
    <3>1. j \in 1 .. n
      BY <2>2, <1>1
    <3>2. CASE k = n + 1
      BY <3>1, <3>2, <1>1, <1>2, <1>5, SMTT(30) DEF Id
    <3>3. CASE k # n + 1
      BY <3>1, <3>3, <2>2, <1>1, <1>2 DEF WireOK
    <3> QED
      BY <3>2, <3>3
  <2> QED
    BY <2>1, <2>2, <1>2, <1>3, <1>4 DEF WireOK
<1>7. ASSUME NEW m \in Relevant(c), m <= i, Due(c, m)'
      PROVE  \E k \in 1 .. Len(w) : w[k] = m
  <2>1. CASE m = i
    BY <2>1, <1>1, <1>2
  <2>2. CASE m # i
    <3>1. m < i /\ m \in Nat
      BY <2>2, <1>7, <1>1 DEF Known
    <3>2. Due(c, m)
      <4>1. CASE seen[c] # None /\ seen[c] < m
        BY <4>1 DEF Due
      <4>2. CASE \E k \in 1 .. Len(w) : w[k] <= m
        <5>1. PICK k \in 1 .. Len(w) : w[k] <= m
          BY <4>2
        <5>2. k # n + 1
          BY <5>1, <3>1, <1>1, <1>2
        <5>3. k \in 1 .. n /\ wire[c][k] <= m
          BY <5>1, <5>2, <1>1, <1>2
        <5> QED
          BY <5>3 DEF Due
      <4> QED
        BY <4>1, <4>2, <1>4, <1>7 DEF Due
    <3>3. conn[c].sent # None
      <4>1. CASE seen[c] # None /\ seen[c] < m
        BY <4>1, <1>1 DEF Known, Cursor
      <4>2. CASE \E k \in 1 .. n : wire[c][k] <= m
        <5>1. PICK k \in 1 .. n : wire[c][k] <= m
          BY <4>2
        <5>2. wire[c][k] \in Nat /\ wire[c][k] <= conn[c].sent
          BY <5>1, <1>2, <1>5 DEF Id
        <5> QED
          BY <5>2, <1>1
      <4> QED
        BY <4>1, <4>2, <3>2 DEF Due
    <3>4. m <= conn[c].sent
      BY <3>1, <3>3
    <3>5. \E k \in 1 .. n : wire[c][k] = m
      BY <3>2, <3>4 DEF NoGap
    <3> QED
      <4>1. PICK k \in 1 .. n : wire[c][k] = m
        BY <3>5
      <4>2. k \in 1 .. Len(w) /\ w[k] = m
        BY <4>1, <1>1, <1>2
      <4> QED
        BY <4>2
  <2> QED
    BY <2>1, <2>2
<1>8. NoGap(c)'
  BY <1>3, <1>4, <1>7 DEF NoGap
<1> QED
  BY <1>1, <1>6, <1>8 DEF Id

LEMMA FillStep == ASSUME IInv, NEW c \in Client, NEW i, Fill(c, i) PROVE IInv'
<1>0. Known(c) /\ Same(c) /\ RelayOK(c)
  BY Before
<1> DEFINE r == [conn[c] EXCEPT !.page = conn[c].page \ {i}, !.sent = i]
           w == Append(wire[c], i)
<1>1. conn' = [conn EXCEPT ![c] = r]
  BY <1>0 DEF Fill, Same
<1>2. UNCHANGED <<log, hooks, push, restarts, seen, drops>> /\ wire' = [wire EXCEPT ![c] = w]
      /\ i \in conn[c].page /\ conn[c].state = "filling" /\ (\A j \in conn[c].page : i <= j)
  BY DEF Fill, Sends, Feed
<1>3. i \in Id /\ i \in Relevant(c) /\ i \in 1 .. Last /\ conn[c].sent < i /\ conn[c].sent # None
      /\ seen[c] <= conn[c].sent /\ WireOK(c) /\ NoGap(c)
      /\ \A m \in Relevant(c) : conn[c].sent < m /\ m < i => m \in conn[c].page
  BY <1>0, <1>2 DEF Known, RelayOK
<1>4. r.page = conn[c].page \ {i} /\ r.sent = i /\ r.next = conn[c].next /\ r.state = "filling"
      /\ r \in Relay
  BY <1>0, <1>2, <1>3 DEF Known, Relay, Cursor, Id
<1>5. w \in Seq(Id)
  BY <1>0, <1>3 DEF Known
<1> HIDE DEF r
<1>6. ASSUME conn'[c] = r, wire'[c] = w, seen'[c] = seen[c] PROVE RelayOK(c)'
  <2>1. Relevant(c)' = Relevant(c)
    BY <1>2 DEF Relevant, Last
  <2>2. \A m \in Relevant(c) : m < i => m <= conn[c].sent
    BY <1>0, <1>2, <1>3 DEF Known, Cursor, Id
  <2>3. WireOK(c)' /\ NoGap(c)' /\ seen'[c] <= i /\ i # None
    BY <1>0, <1>2, <1>3, <1>4, <1>6, <2>2, SendNext
  <2>4. \A p \in r.page : p \in Relevant(c) /\ i < p
    BY <1>0, <1>2, <1>3, <1>4 DEF Known, RelayOK, Id
  <2>5. \A p \in r.page, m \in Relevant(c) : i < m /\ m < p => m \in r.page
    BY <1>0, <1>2, <1>3, <1>4 DEF Known, RelayOK, Id, Cursor
  <2> QED
    BY <1>4, <1>6, <2>1, <2>3, <2>4, <2>5 DEF RelayOK
<1>7. r.next <= Last + 1 /\ r.sent <= Last /\ seen[c] <= Last /\ drops' \in 0 .. MaxDrops
      /\ r.state # "off" /\ seen' = [seen EXCEPT ![c] = seen[c]] /\ seen[c] \in Cursor
  BY <1>0, <1>2, <1>3, <1>4 DEF Known, Same
<1> QED
  BY <1>1, <1>2, <1>4, <1>5, <1>6, <1>7, OneRelay

LEMMA ReceiveStep == ASSUME IInv, NEW c \in Client, Receive(c) PROVE IInv'
<1>0. Known(c) /\ Same(c) /\ RelayOK(c)
  BY Before
<1> DEFINE i == conn[c].next
<1>i. i = conn[c].next
  OBVIOUS
<1>1. UNCHANGED <<log, hooks, push, restarts, seen, drops>> /\ conn[c].state = "live" /\ i <= Last
  BY DEF Receive, Feed
<1> HIDE DEF i
<1>2. i \in Id /\ i + 1 \in Id /\ i + 1 <= Last + 1 /\ i \in 1 .. Last /\ conn[c].page = {}
      /\ seen[c] <= conn[c].sent /\ WireOK(c) /\ NoGap(c)
      /\ (conn[c].sent # None => \A m \in Relevant(c) : m < i => m <= conn[c].sent)
  BY <1>0, <1>1, <1>i DEF Known, RelayOK, Id
<1>3. seen' = [seen EXCEPT ![c] = seen[c]] /\ seen[c] \in Cursor /\ seen[c] <= Last
      /\ conn[c].sent <= Last /\ drops' \in 0 .. MaxDrops /\ wire[c] \in Seq(Id)
  BY <1>0, <1>1 DEF Known, Same
<1>4. Relevant(c)' = Relevant(c)
  BY <1>1 DEF Relevant, Last
<1>5. CASE Skips(c, i)
  <2> DEFINE r == [conn[c] EXCEPT !.next = i + 1]
  <2>1. conn' = [conn EXCEPT ![c] = r] /\ wire' = [wire EXCEPT ![c] = wire[c]]
    BY <1>0, <1>1, <1>i, <1>5 DEF Receive, Same
  <2>2. r \in Relay /\ r.page = {} /\ r.sent = conn[c].sent /\ r.next = i + 1 /\ r.state = "live"
    BY <1>0, <1>1, <1>2 DEF Known, Relay
  <2> HIDE DEF r
  <2>3. ASSUME conn'[c] = r, wire'[c] = wire[c], seen'[c] = seen[c] PROVE RelayOK(c)'
    <3>1. WireOK(c)' /\ NoGap(c)'
      BY <1>2, <1>4, <2>2, <2>3 DEF WireOK, NoGap, Due
    <3>2. ASSUME conn[c].sent # None, NEW m \in Relevant(c), m < i + 1 PROVE m <= conn[c].sent
      <4>1. m \in Nat /\ conn[c].sent \in Int /\ i \in Nat
        BY <1>0, <1>2 DEF Known, Cursor, Id
      <4>2. CASE m = i
        BY <4>1, <4>2, <1>5, <3>2 DEF Skips, Relevant
      <4>3. CASE m < i
        BY <4>3, <3>2, <1>2
      <4> QED
        BY <4>1, <4>2, <4>3, <3>2
    <3> QED
      BY <1>2, <1>4, <2>2, <2>3, <3>1, <3>2 DEF RelayOK
  <2> QED
    BY <1>1, <1>2, <1>3, <2>1, <2>2, <2>3, OneRelay
<1>6. CASE ~Skips(c, i)
  <2> DEFINE r == [conn[c] EXCEPT !.next = i + 1, !.sent = i]
             w == Append(wire[c], i)
  <2>1. conn' = [conn EXCEPT ![c] = r] /\ wire' = [wire EXCEPT ![c] = w]
    BY <1>0, <1>1, <1>i, <1>6 DEF Receive, Same, Sends
  <2>2. r \in Relay /\ r.page = {} /\ r.sent = i /\ r.next = i + 1 /\ r.state = "live" /\ w \in Seq(Id)
    <3>1. w \in Seq(Id)
      BY <1>2, <1>3
    <3>2. i \in Cursor
      BY <1>2 DEF Cursor, Id
    <3> HIDE DEF w
    <3>3. r \in Relay
      BY <1>0, <1>2, <3>2 DEF Known, Relay
    <3> QED
      BY <1>0, <1>1, <1>2, <3>1, <3>3 DEF Known, Relay
  <2> HIDE DEF r
  <2>3. i \in Relevant(c) /\ conn[c].sent < i
    BY <1>0, <1>2, <1>6 DEF Skips, Relevant, Known, Cursor, Id
  <2>4. ASSUME conn'[c] = r, wire'[c] = w, seen'[c] = seen[c] PROVE RelayOK(c)'
    <3>1. WireOK(c)' /\ NoGap(c)' /\ seen'[c] <= i /\ i # None
      BY <1>0, <1>1, <1>2, <2>2, <2>3, <2>4, SendNext
    <3>2. \A m \in Relevant(c) : m < i + 1 => m <= i
      BY <1>0, <1>2 DEF Known, Id
    <3> QED
      BY <1>2, <1>4, <2>2, <2>4, <3>1, <3>2 DEF RelayOK
  <2> QED
    BY <1>1, <1>2, <1>3, <2>1, <2>2, <2>4, OneRelay
<1> QED
  BY <1>5, <1>6

LEMMA LaggedStep == ASSUME IInv, NEW c \in Client, Lagged(c) PROVE IInv'
<1>0. Known(c) /\ Same(c) /\ RelayOK(c)
  BY Before
<1> DEFINE r == [conn[c] EXCEPT !.state = "closing"]
<1>1. UNCHANGED <<log, wire, hooks, push, restarts, seen, drops>> /\ conn[c].state = "live"
      /\ conn' = [conn EXCEPT ![c] = r]
  BY DEF Lagged, Feed
<1>2. r \in Relay /\ r.page = {} /\ r.sent = conn[c].sent /\ r.next = conn[c].next /\ r.state = "closing"
  BY <1>0, <1>1 DEF Known, Relay
<1> HIDE DEF r
<1>3. ASSUME conn'[c] = r, wire'[c] = wire[c], seen'[c] = seen[c] PROVE RelayOK(c)'
  <2>1. Relevant(c)' = Relevant(c)
    BY <1>1 DEF Relevant, Last
  <2>2. WireOK(c)' /\ NoGap(c)'
    BY <1>0, <1>1, <1>2, <1>3, <2>1 DEF RelayOK, WireOK, NoGap, Due
  <2> QED
    BY <1>0, <1>1, <1>2, <1>3, <2>1, <2>2 DEF RelayOK
<1>4. r.next <= Last + 1 /\ r.sent <= Last /\ seen[c] <= Last /\ drops' \in 0 .. MaxDrops
      /\ r.state # "off" /\ seen' = [seen EXCEPT ![c] = seen[c]] /\ seen[c] \in Cursor
      /\ wire' = [wire EXCEPT ![c] = wire[c]] /\ wire[c] \in Seq(Id)
  BY <1>0, <1>1, <1>2 DEF Known, Same
<1> QED
  BY <1>1, <1>2, <1>3, <1>4, OneRelay

(* A relay that is gone has nothing on the wire.                           *)
LEMMA GoneStep ==
  ASSUME IInv, NEW c \in Client, UNCHANGED <<log, hooks, push, restarts, seen>>,
         drops' \in 0 .. MaxDrops,
         conn' = [conn EXCEPT ![c] = Off], wire' = [wire EXCEPT ![c] = <<>>]
  PROVE  IInv'
<1>0. Known(c) /\ Same(c)
  BY Before
<1>1. Off \in Relay /\ Off.state = "off" /\ Off.page = {} /\ Off.next = 1 /\ Off.sent = -1
  BY DEF Off, Relay, Cursor, Id
<1>2. seen' = [seen EXCEPT ![c] = seen[c]] /\ seen[c] \in Cursor /\ seen[c] <= Last
      /\ <<>> \in Seq(Id) /\ 1 <= Last + 1 /\ -1 <= Last
  BY <1>0 DEF Known, Same
<1>3. conn'[c] = Off => RelayOK(c)'
  BY <1>1 DEF RelayOK
<1> HIDE DEF Off
<1>4. Off.next <= Last + 1 /\ Off.sent <= Last
  BY <1>1, <1>2
<1>5. wire' = [wire EXCEPT ![c] = <<>>] /\ conn' = [conn EXCEPT ![c] = Off]
  OBVIOUS
<1> QED
  BY <1>1, <1>2, <1>3, <1>4, <1>5, OneRelay

LEMMA ClosedStep == ASSUME IInv, NEW c \in Client, Closed(c) PROVE IInv'
<1>0. Known(c) /\ Same(c)
  BY Before
<1>1. UNCHANGED <<log, hooks, push, restarts, seen>> /\ drops' \in 0 .. MaxDrops
      /\ conn' = [conn EXCEPT ![c] = Off] /\ wire' = [wire EXCEPT ![c] = <<>>]
  BY <1>0 DEF Closed, Feed, Known, Same
<1> QED
  BY <1>1, GoneStep

LEMMA DropStep == ASSUME IInv, NEW c \in Client, Drop(c) PROVE IInv'
<1>0. Known(c)
  BY Before
<1>1. UNCHANGED <<log, hooks, push, restarts, seen>> /\ drops' \in 0 .. MaxDrops
      /\ conn' = [conn EXCEPT ![c] = Off] /\ wire' = [wire EXCEPT ![c] = <<>>]
  BY <1>0, FeedAssumption DEF Drop, Feed, Known
<1> QED
  BY <1>1, GoneStep

(* What is read is the next event that is relevant.                        *)
LEMMA ReadIsNext ==
  ASSUME IInv, NEW c \in Client, Read(c)
  PROVE  /\ Head(wire[c]) \in Relevant(c) /\ seen[c] < Head(wire[c])
         /\ seen[c] # None => \A m \in Relevant(c) : ~(seen[c] < m /\ m < Head(wire[c]))
<1>0. Known(c) /\ RelayOK(c)
  BY Before
<1>1. wire[c] # <<>> /\ conn[c].state # "off" /\ wire[c] \in Seq(Id)
  BY <1>0 DEF Read, Known
<1>2. Len(wire[c]) \in Nat \ {0} /\ Head(wire[c]) = wire[c][1] /\ wire[c][1] \in Id
  BY <1>1
<1>3. WireOK(c) /\ NoGap(c)
  BY <1>0, <1>1 DEF RelayOK
<1>4. wire[c][1] \in Relevant(c) /\ seen[c] < wire[c][1] /\ wire[c][1] <= conn[c].sent
  BY <1>2, <1>3 DEF WireOK
<1>5. ASSUME seen[c] # None, NEW m \in Relevant(c), seen[c] < m, m < wire[c][1] PROVE FALSE
  <2>1. Due(c, m)
    BY <1>5 DEF Due
  <2>2. m <= conn[c].sent
    BY <1>5, <1>4, <1>0, SMTT(30) DEF Known, Cursor, Id
  <2>3. PICK k \in 1 .. Len(wire[c]) : wire[c][k] = m
    BY <2>1, <2>2, <1>3 DEF NoGap
  <2>4. k = 1 \/ wire[c][1] < wire[c][k]
    BY <1>2, <1>3 DEF WireOK
  <2> QED
    BY <2>3, <2>4, <1>5, <1>2, <1>0 DEF Known, Id
<1> QED
  BY <1>2, <1>4, <1>5

LEMMA ReadStep == ASSUME IInv, NEW c \in Client, Read(c) PROVE IInv'
<1>0. Known(c) /\ Same(c) /\ RelayOK(c)
  BY Before
<1> DEFINE w == Tail(wire[c])
           s == Head(wire[c])
           n == Len(wire[c])
<1>1. UNCHANGED <<log, conn, hooks, push, restarts, drops>> /\ wire[c] # <<>>
      /\ seen' = [seen EXCEPT ![c] = s] /\ wire' = [wire EXCEPT ![c] = w]
  BY DEF Read, Feed
<1>2. conn[c].state # "off" /\ wire[c] \in Seq(Id)
  BY <1>0, <1>1 DEF Known
<1>3. n \in Nat \ {0} /\ s = wire[c][1] /\ s \in Id /\ w \in Seq(Id) /\ Len(w) = n - 1
      /\ (\A k \in 1 .. n : wire[c][k] \in Id) /\ \A k \in 1 .. n - 1 : w[k] = wire[c][k + 1]
  BY <1>1, <1>2
<1> HIDE DEF w, s
<1>4. WireOK(c) /\ NoGap(c)
  BY <1>0, <1>2 DEF RelayOK
<1>5. s \in Relevant(c) /\ s <= conn[c].sent /\ s \in Nat
  BY <1>3, <1>4 DEF WireOK, Id
<1>6. ASSUME conn'[c] = conn[c], wire'[c] = w, seen'[c] = s PROVE RelayOK(c)'
  <2>1. Relevant(c)' = Relevant(c)
    BY <1>1 DEF Relevant, Last
  <2>2. WireOK(c)'
    <3>1. ASSUME NEW k \in 1 .. n - 1
          PROVE  w[k] \in Relevant(c) /\ s < w[k] /\ w[k] <= conn[c].sent
      <4>1. k + 1 \in 1 .. n /\ 1 \in 1 .. n /\ 1 < k + 1 /\ w[k] = wire[c][k + 1]
        BY <1>3
      <4> QED
        BY <4>1, <1>3, <1>4 DEF WireOK
    <3>2. ASSUME NEW j \in 1 .. n - 1, NEW k \in 1 .. n - 1, j < k PROVE w[j] < w[k]
      <4>1. j + 1 \in 1 .. n /\ k + 1 \in 1 .. n /\ j + 1 < k + 1
            /\ w[k] = wire[c][k + 1] /\ w[j] = wire[c][j + 1]
        BY <1>3, <3>2
      <4> QED
        BY <4>1, <1>4 DEF WireOK
    <3> QED
      BY <3>1, <3>2, <1>3, <1>6, <2>1 DEF WireOK
  <2>3. ASSUME NEW m \in Relevant(c), m <= conn[c].sent, Due(c, m)'
        PROVE  \E k \in 1 .. Len(w) : w[k] = m
    <3>1. s < m
      <4>1. CASE s < m
        BY <4>1
      <4>2. CASE \E k \in 1 .. Len(w) : w[k] <= m
        <5>1. PICK k \in 1 .. n - 1 : w[k] <= m
          BY <4>2, <1>3
        <5>2. k + 1 \in 1 .. n /\ 1 \in 1 .. n /\ 1 < k + 1 /\ w[k] = wire[c][k + 1]
          BY <1>3
        <5>3. s < w[k] /\ w[k] \in Nat
          BY <5>2, <1>3, <1>4 DEF WireOK, Id
        <5> QED
          BY <5>1, <5>3, <1>5, <1>0 DEF Known
      <4> QED
        BY <4>1, <4>2, <2>3, <1>6 DEF Due
    <3>2. Due(c, m)
      <4>1. 1 \in 1 .. n /\ wire[c][1] <= m
        BY <3>1, <1>3, <1>5, <1>0 DEF Known
      <4> QED
        BY <4>1 DEF Due
    <3>3. PICK k \in 1 .. n : wire[c][k] = m
      BY <3>2, <2>3, <1>4 DEF NoGap
    <3>4. k # 1
      BY <3>1, <3>3, <1>3, <1>5
    <3>5. k - 1 \in 1 .. n - 1 /\ w[k - 1] = wire[c][k]
      <4>1. k - 1 \in 1 .. n - 1 /\ (k - 1) + 1 = k
        BY <3>4, <1>3
      <4> QED
        BY <4>1, <1>3
    <3> QED
      BY <3>3, <3>5, <1>3
  <2>4. NoGap(c)'
    BY <2>1, <2>3, <1>6 DEF NoGap
  <2> QED
    BY <1>0, <1>2, <1>5, <1>6, <2>1, <2>2, <2>4 DEF RelayOK
<1>7. s \in Cursor /\ s <= Last /\ conn[c] \in Relay /\ conn' = [conn EXCEPT ![c] = conn[c]]
      /\ conn[c].next <= Last + 1 /\ conn[c].sent <= Last /\ drops' \in 0 .. MaxDrops
      /\ (conn[c].state # "filling" => conn[c].page = {})
  BY <1>0, <1>1, <1>5 DEF Known, Same, Cursor
<1> QED
  BY <1>1, <1>2, <1>3, <1>6, <1>7, OneRelay

-----------------------------------------------------------------------------
(* The steps of the others.                                                *)

LEMMA PublishStep == ASSUME IInv, NEW e \in Event, Publish(e) PROVE IInv'
<1>0. TypeOK /\ HooksOK /\ log \in Seq(Event) /\ Len(log) \in Nat
  BY DEF IInv, TypeOK
<1>1. log' \in Seq(Event) /\ Len(log') = Len(log) + 1
      /\ (\A i \in 1 .. Len(log) : log'[i] = log[i])
      /\ UNCHANGED <<conn, wire, seen, hooks, push, drops, restarts>>
  BY <1>0 DEF Publish
<1>2. TypeOK'
  <2>1. ASSUME NEW c \in Client
        PROVE  conn[c].next <= Len(log) + 2 /\ conn[c].sent <= Len(log) + 1 /\ seen[c] <= Len(log) + 1
    <3>1. Known(c) /\ Last = Len(log)
      BY Before DEF Last
    <3> QED
      BY <3>1, <1>0 DEF Known, Cursor, Id
  <2>2. hooks.next <= Len(log) + 2 /\ push.next <= Len(log) + 2
    BY <1>0 DEF TypeOK, Hooks, Id
  <2> QED
    BY <1>0, <1>1, <2>1, <2>2 DEF TypeOK
<1>3. ASSUME NEW c \in Client PROVE RelayOK(c)'
  <2>0. Known(c) /\ RelayOK(c)
    BY Before
  <2>1. Relevant(c) \subseteq Relevant(c)' /\ Last' = Last + 1
    BY <1>0, <1>1 DEF Relevant, Last
  <2>2. ASSUME NEW m \in Relevant(c)' PROVE m \in Nat /\ (m \in Relevant(c) \/ m = Last + 1)
    BY <1>0, <1>1, <2>2 DEF Relevant, Last
  <2>3. SUFFICES ASSUME conn[c].state # "off" PROVE RelayOK(c)'
    BY <1>1 DEF RelayOK
  <2>4. WireOK(c)'
    BY <1>1, <2>0, <2>1, <2>3 DEF RelayOK, WireOK
  <2>5. NoGap(c)'
    <3>1. \A m \in Relevant(c)' : m <= conn[c].sent => m \in Relevant(c)
      BY <2>0, <2>2 DEF Known, Cursor
    <3> QED
      BY <3>1, <1>1, <2>0, <2>3 DEF RelayOK, NoGap, Due
  <2>6. \A m \in Relevant(c)' : m < conn[c].next => m \in Relevant(c)
    BY <2>0, <2>2 DEF Known, Id
  <2>7. ASSUME NEW p \in conn[c].page, NEW m \in Relevant(c)', conn[c].sent < m, m < p
        PROVE  m \in conn[c].page
    <3>1. p \in Relevant(c) /\ p \in 1 .. Last
      BY <2>0, <2>3 DEF RelayOK, Known
    <3>2. m \in Relevant(c)
      BY <3>1, <2>0, <2>2, <2>7 DEF Known
    <3> QED
      BY <3>1, <3>2, <2>0, <2>3, <2>7 DEF RelayOK
  <2>8. \A p \in conn[c].page : p \in Relevant(c)' /\ conn[c].sent < p
    BY <2>0, <2>1, <2>3 DEF RelayOK
  <2> QED
    BY <1>1, <2>0, <2>3, <2>4, <2>5, <2>6, <2>7, <2>8 DEF RelayOK
<1> QED
  BY <1>0, <1>1, <1>2, <1>3, HooksUntouched DEF IInv

LEMMA OthersStep ==
  ASSUME IInv, UNCHANGED <<log, conn, wire, seen, drops, restarts>>,
         hooks' \in Hooks, hooks'.next <= Last + 1, HooksOK',
         push' \in [alive : BOOLEAN, next : Id], push'.next <= Last + 1
  PROVE  IInv'
<1>1. TypeOK'
  BY DEF IInv, TypeOK, Last
<1>2. \A c \in Client : RelayOK(c)'
  BY Untouched DEF IInv
<1> QED
  BY <1>1, <1>2 DEF IInv

LEMMA PushStep == ASSUME IInv, Pushes \/ PushLags PROVE IInv'
<1>0. TypeOK /\ HooksOK /\ Last \in Nat
  BY Positions DEF IInv
<1>1. UNCHANGED <<log, conn, wire, seen, hooks, drops, restarts>>
  BY DEF Pushes, PushLags, PushOnly
<1>2. push' \in [alive : BOOLEAN, next : Id] /\ push'.next <= Last + 1
  <2>1. push \in [alive : BOOLEAN, next : Id] /\ push.next \in Id /\ push.next <= Last + 1
        /\ Last = Len(log)
    BY <1>0 DEF TypeOK, Last
  <2>2. CASE Pushes
    <3>1. push' = [push EXCEPT !.next = push.next + 1] /\ push.next <= Last
      BY <2>2 DEF Pushes
    <3>2. push.next + 1 \in Id /\ push.next + 1 <= Last + 1
      BY <3>1, <2>1, <1>0 DEF Id
    <3> QED
      BY <3>1, <3>2, <2>1
  <2>3. CASE PushLags
    <3>1. push' = [push EXCEPT !.alive = FALSE]
      BY <2>3 DEF PushLags
    <3> QED
      BY <3>1, <2>1
  <2> QED
    BY <2>2, <2>3
<1>3. hooks' \in Hooks /\ hooks'.next <= Last + 1 /\ HooksOK'
  BY <1>0, <1>1, HooksUntouched DEF TypeOK, Last
<1> QED
  BY <1>1, <1>2, <1>3, OthersStep

(* The hooks that wait and run, before a step of theirs.                   *)
LEMMA HooksKnown == IInv =>
  /\ hooks \in Hooks /\ HooksOK /\ hooks.next \in Id /\ hooks.next <= Last + 1
  /\ hooks.waiting \in Seq(Id) /\ hooks.running \subseteq Id /\ hooks.admitted \in Nat
  /\ Len(hooks.waiting) \in Nat /\ Cardinality(hooks.running) \in Nat
  /\ push \in [alive : BOOLEAN, next : Id] /\ push.next <= Last + 1 /\ Last \in Nat
<1> SUFFICES ASSUME IInv
             PROVE  /\ hooks \in Hooks /\ HooksOK /\ hooks.next \in Id /\ hooks.next <= Last + 1
                    /\ hooks.waiting \in Seq(Id) /\ hooks.running \subseteq Id
                    /\ hooks.admitted \in Nat
                    /\ Len(hooks.waiting) \in Nat /\ Cardinality(hooks.running) \in Nat
                    /\ push \in [alive : BOOLEAN, next : Id] /\ push.next <= Last + 1
                    /\ Last \in Nat
  OBVIOUS
<1>1. TypeOK /\ HooksOK
  BY DEF IInv
<1>2. Cardinality(hooks.running) \in Nat
  BY <1>1, FS_CardinalityType DEF HooksOK
<1> QED
  BY <1>1, <1>2 DEF TypeOK, Hooks, Last

LEMMA FireStep == ASSUME IInv, Fire PROVE IInv'
<1>0. hooks \in Hooks /\ HooksOK /\ hooks.next \in Id /\ hooks.next <= Last + 1
      /\ hooks.waiting \in Seq(Id) /\ hooks.running \subseteq Id /\ hooks.admitted \in Nat
      /\ Len(hooks.waiting) \in Nat /\ Cardinality(hooks.running) \in Nat
      /\ push \in [alive : BOOLEAN, next : Id] /\ push.next <= Last + 1 /\ Last \in Nat
  BY HooksKnown
<1> DEFINE i == hooks.next
           n == Len(hooks.waiting)
<1>1. UNCHANGED <<log, conn, wire, seen, push, drops, restarts>> /\ i <= Last
  BY DEF Fire, HooksOnly
<1>2. i + 1 \in Id /\ i + 1 <= Last + 1 /\ i \in Id
  BY <1>0, <1>1 DEF Id
<1>3. CASE ScriptFor(log[i]) /\ hooks.admitted < Concurrency + Queue
  <2> DEFINE w == Append(hooks.waiting, i)
             h == [hooks EXCEPT !.next = i + 1, !.waiting = w, !.admitted = hooks.admitted + 1]
  <2>1. hooks' = h
    BY <1>0, <1>3 DEF Fire, Hooks
  <2>2. w \in Seq(Id) /\ Len(w) = n + 1 /\ w[n + 1] = i
        /\ \A k \in 1 .. n : w[k] = hooks.waiting[k] /\ hooks.waiting[k] \in Id
    BY <1>0, <1>2
  <2> HIDE DEF w
  <2>3. h \in Hooks /\ h.next = i + 1 /\ h.waiting = w /\ h.running = hooks.running
        /\ h.admitted = hooks.admitted + 1
    <3>1. hooks.admitted + 1 \in Nat /\ i + 1 \in Id /\ w \in Seq(Id)
      BY <1>0, <1>2, <2>2
    <3> HIDE DEF i
    <3> QED
      BY <1>0, <3>1 DEF Hooks
  <2> HIDE DEF h
  <2>4. ASSUME NEW k \in 1 .. n + 1
        PROVE  w[k] < i + 1 /\ w[k] \notin hooks.running /\ (k <= n => w[k] < i)
    <3>1. CASE k = n + 1
      <4>1. w[k] = i /\ i \in Nat /\ i < i + 1 /\ ~(k <= n)
        <5>1. w[k] = i
          BY <3>1, <2>2
        <5>2. i \in Nat /\ i < i + 1
          BY <1>2 DEF Id
        <5> QED
          BY <5>1, <5>2, <3>1, <1>0
      <4>2. i \notin hooks.running
        BY <4>1, <1>0 DEF HooksOK
      <4> QED
        BY <4>1, <4>2
    <3>2. CASE k # n + 1
      <4>1. k \in 1 .. n
        BY <3>2, <1>0
      <4>2. w[k] = hooks.waiting[k] /\ w[k] \in Nat /\ w[k] < i /\ w[k] \notin hooks.running
        BY <4>1, <1>0, <2>2 DEF HooksOK, Id
      <4> QED
        BY <4>2, <1>2 DEF Id
    <3> QED
      BY <3>1, <3>2
  <2>5. ASSUME NEW j \in 1 .. n + 1, NEW k \in 1 .. n + 1, j # k PROVE w[j] # w[k]
    <3>1. CASE j <= n /\ k <= n
      <4>1. j \in 1 .. n /\ k \in 1 .. n
        BY <3>1, <1>0
      <4> QED
        BY <4>1, <2>2, <2>5, <1>0 DEF HooksOK
    <3>2. CASE j = n + 1 \/ k = n + 1
      <4>1. w[n + 1] = i /\ i \in Nat
        BY <2>2, <1>2 DEF Id
      <4>2. CASE j = n + 1
        <5>1. k <= n /\ w[k] < i
          BY <4>2, <2>4, <2>5, <1>0
        <5>2. w[k] # i
          BY <5>1, <4>1
        <5> QED
          BY <4>1, <4>2, <5>2
      <4>3. CASE k = n + 1
        <5>1. j <= n /\ w[j] < i
          BY <4>3, <2>4, <2>5, <1>0
        <5>2. w[j] # i
          BY <5>1, <4>1
        <5> QED
          BY <4>1, <4>3, <5>2
      <4> QED
        BY <3>2, <4>2, <4>3
    <3> QED
      BY <3>1, <3>2, <1>0
  <2>6. HooksOK'
    <3>1. \A r \in hooks.running : r < i + 1
      BY <1>0, <1>2 DEF HooksOK, Id
    <3>2. h.admitted = Len(w) + Cardinality(hooks.running)
      BY <1>0, <2>2, <2>3 DEF HooksOK
    <3>3. h.admitted <= Concurrency + Queue
      BY <1>0, <1>3, <2>3, FeedAssumption
    <3> QED
      BY <1>0, <2>1, <2>2, <2>3, <2>4, <2>5, <3>1, <3>2, <3>3, SMTT(30) DEF HooksOK
  <2> QED
    BY <1>0, <1>1, <1>2, <2>1, <2>3, <2>6, OthersStep
<1>4. CASE ~(ScriptFor(log[i]) /\ hooks.admitted < Concurrency + Queue)
  <2> DEFINE h == [hooks EXCEPT !.next = i + 1]
  <2>1. hooks' = h
    BY <1>4 DEF Fire
  <2>2. h \in Hooks /\ h.next = i + 1 /\ h.waiting = hooks.waiting /\ h.running = hooks.running
        /\ h.admitted = hooks.admitted
    BY <1>0, <1>2 DEF Hooks
  <2> HIDE DEF h
  <2>3. \A r \in hooks.running : r < i + 1
    BY <1>0, <1>2 DEF HooksOK, Id
  <2>4. \A k \in 1 .. n : hooks.waiting[k] < i + 1
    <3>1. \A k \in 1 .. n : hooks.waiting[k] \in Id
      BY <1>0
    <3> QED
      BY <3>1, <1>0, <1>2, SMTT(30) DEF HooksOK, Id
  <2>5. HooksOK'
    BY <1>0, <2>1, <2>2, <2>3, <2>4 DEF HooksOK
  <2> QED
    BY <1>0, <1>1, <1>2, <2>1, <2>2, <2>5, OthersStep
<1> QED
  BY <1>3, <1>4

LEMMA FallBehindStep == ASSUME IInv, FallBehind PROVE IInv'
<1>0. hooks \in Hooks /\ HooksOK /\ hooks.next \in Id /\ hooks.next <= Last + 1
      /\ hooks.waiting \in Seq(Id) /\ hooks.running \subseteq Id /\ hooks.admitted \in Nat
      /\ Len(hooks.waiting) \in Nat /\ Cardinality(hooks.running) \in Nat
      /\ push \in [alive : BOOLEAN, next : Id] /\ push.next <= Last + 1 /\ Last \in Nat
  BY HooksKnown
<1> DEFINE h == [hooks EXCEPT !.next = Oldest]
           n == Len(hooks.waiting)
<1>1. UNCHANGED <<log, conn, wire, seen, push, drops, restarts>> /\ hooks' = h
      /\ hooks.next < Oldest
  BY DEF FallBehind, HooksOnly, Lags
<1>2. Oldest \in Id /\ Oldest <= Last + 1
  BY Positions DEF IInv
<1>3. h \in Hooks /\ h.next = Oldest /\ h.waiting = hooks.waiting /\ h.running = hooks.running
      /\ h.admitted = hooks.admitted
  BY <1>0, <1>2 DEF Hooks
<1> HIDE DEF h
<1>4. \A r \in hooks.running : r < Oldest
  BY <1>0, <1>1, <1>2 DEF HooksOK, Id
<1>5. \A k \in 1 .. n : hooks.waiting[k] < Oldest
  <2> TAKE k \in 1 .. n
  <2>1. hooks.waiting[k] \in Id
    BY <1>0
  <2>2. hooks.waiting[k] < hooks.next
    BY <1>0 DEF HooksOK
  <2> QED
    BY <2>1, <2>2, <1>0, <1>1, <1>2 DEF Id
<1>6. HooksOK'
  BY <1>0, <1>1, <1>3, <1>4, <1>5 DEF HooksOK
<1> QED
  BY <1>0, <1>1, <1>2, <1>3, <1>6, OthersStep

LEMMA HookStartsStep == ASSUME IInv, HookStarts PROVE IInv'
<1>0. hooks \in Hooks /\ HooksOK /\ hooks.next \in Id /\ hooks.next <= Last + 1
      /\ hooks.waiting \in Seq(Id) /\ hooks.running \subseteq Id /\ hooks.admitted \in Nat
      /\ Len(hooks.waiting) \in Nat /\ Cardinality(hooks.running) \in Nat
      /\ push \in [alive : BOOLEAN, next : Id] /\ push.next <= Last + 1 /\ Last \in Nat
  BY HooksKnown
<1> DEFINE w == Tail(hooks.waiting)
           i == Head(hooks.waiting)
           n == Len(hooks.waiting)
           h == [hooks EXCEPT !.waiting = w, !.running = hooks.running \cup {i}]
<1>1. UNCHANGED <<log, conn, wire, seen, push, drops, restarts>> /\ hooks' = h
      /\ hooks.waiting # <<>> /\ Cardinality(hooks.running) < Concurrency
  BY DEF HookStarts, HooksOnly
<1>2. n \in Nat \ {0} /\ i = hooks.waiting[1] /\ i \in Id /\ w \in Seq(Id) /\ Len(w) = n - 1
      /\ (\A k \in 1 .. n : hooks.waiting[k] \in Id)
      /\ \A k \in 1 .. n - 1 : w[k] = hooks.waiting[k + 1]
  BY <1>0, <1>1
<1> HIDE DEF w, i
<1>3. h \in Hooks /\ h.next = hooks.next /\ h.waiting = w /\ h.running = hooks.running \cup {i}
      /\ h.admitted = hooks.admitted
  BY <1>0, <1>2 DEF Hooks
<1> HIDE DEF h
<1>4. i < hooks.next /\ i \notin hooks.running
  BY <1>0, <1>2 DEF HooksOK
<1>5. IsFiniteSet(hooks.running \cup {i})
      /\ Cardinality(hooks.running \cup {i}) = Cardinality(hooks.running) + 1
  BY <1>0, <1>4, FS_AddElement DEF HooksOK
<1>6. ASSUME NEW k \in 1 .. n - 1
      PROVE  w[k] < hooks.next /\ w[k] \notin hooks.running \cup {i}
  <2>1. k + 1 \in 1 .. n /\ 1 \in 1 .. n /\ k + 1 # 1 /\ w[k] = hooks.waiting[k + 1]
    <3>1. k + 1 \in 1 .. n /\ 1 \in 1 .. n /\ k + 1 # 1
      BY <1>2
    <3> QED
      BY <3>1, <1>2
  <2>2. hooks.waiting[k + 1] < hooks.next /\ hooks.waiting[k + 1] \notin hooks.running
    BY <2>1, <1>0 DEF HooksOK
  <2>3. hooks.waiting[k + 1] # i
    BY <2>1, <1>0, <1>2 DEF HooksOK
  <2> QED
    BY <2>1, <2>2, <2>3
<1>7. ASSUME NEW j \in 1 .. n - 1, NEW k \in 1 .. n - 1, j # k PROVE w[j] # w[k]
  <2>1. j + 1 \in 1 .. n /\ k + 1 \in 1 .. n /\ j + 1 # k + 1
        /\ w[k] = hooks.waiting[k + 1] /\ w[j] = hooks.waiting[j + 1]
    <3>1. j + 1 \in 1 .. n /\ k + 1 \in 1 .. n /\ j + 1 # k + 1
      BY <1>2, <1>7
    <3> QED
      BY <3>1, <1>2
  <2> QED
    BY <2>1, <1>0 DEF HooksOK
<1>8. HooksOK'
  <2>1. h.admitted = Len(w) + Cardinality(h.running)
    BY <1>0, <1>2, <1>3, <1>5 DEF HooksOK
  <2>2. Cardinality(h.running) <= Concurrency
    BY <1>0, <1>1, <1>3, <1>5, FeedAssumption
  <2>3. \A r \in h.running : r < hooks.next
    BY <1>0, <1>3, <1>4 DEF HooksOK
  <2> QED
    <3>1. IsFiniteSet(h.running) /\ h.next = hooks.next /\ h.waiting = w /\ h.admitted = hooks.admitted
      BY <1>3, <1>5
    <3>2. \A k \in 1 .. Len(w) : w[k] < hooks.next /\ w[k] \notin h.running
      BY <1>2, <1>3, <1>6
    <3>3. \A j, k \in 1 .. Len(w) : j # k => w[j] # w[k]
      BY <1>2, <1>7
    <3>4. hooks.admitted <= Concurrency + Queue
      BY <1>0 DEF HooksOK
    <3> QED
      BY <1>1, <2>1, <2>2, <2>3, <3>1, <3>2, <3>3, <3>4 DEF HooksOK
<1> QED
  BY <1>0, <1>1, <1>3, <1>8, OthersStep

LEMMA HookEndsStep == ASSUME IInv, NEW i, HookEnds(i) PROVE IInv'
<1>0. hooks \in Hooks /\ HooksOK /\ hooks.next \in Id /\ hooks.next <= Last + 1
      /\ hooks.waiting \in Seq(Id) /\ hooks.running \subseteq Id /\ hooks.admitted \in Nat
      /\ Len(hooks.waiting) \in Nat /\ Cardinality(hooks.running) \in Nat
      /\ push \in [alive : BOOLEAN, next : Id] /\ push.next <= Last + 1 /\ Last \in Nat
  BY HooksKnown
<1> DEFINE h == [hooks EXCEPT !.running = hooks.running \ {i}, !.admitted = hooks.admitted - 1]
<1>1. UNCHANGED <<log, conn, wire, seen, push, drops, restarts>> /\ hooks' = h /\ i \in hooks.running
  BY DEF HookEnds, HooksOnly
<1>2. IsFiniteSet(hooks.running \ {i})
      /\ Cardinality(hooks.running \ {i}) = Cardinality(hooks.running) - 1
  BY <1>0, <1>1, FS_RemoveElement DEF HooksOK
<1>3. Cardinality(hooks.running \ {i}) \in Nat
  BY <1>2, FS_CardinalityType
<1>4. hooks.admitted - 1 \in Nat
  BY <1>0, <1>2, <1>3 DEF HooksOK
<1>5. h \in Hooks /\ h.next = hooks.next /\ h.waiting = hooks.waiting
      /\ h.running = hooks.running \ {i} /\ h.admitted = hooks.admitted - 1
  BY <1>0, <1>4 DEF Hooks
<1> HIDE DEF h
<1>6. HooksOK'
  <2>1. h.admitted = Len(hooks.waiting) + Cardinality(h.running)
    BY <1>0, <1>2, <1>5 DEF HooksOK
  <2>2. h.admitted <= Concurrency + Queue /\ Cardinality(h.running) <= Concurrency
    BY <1>0, <1>2, <1>5, FeedAssumption DEF HooksOK
  <2> QED
    BY <1>0, <1>1, <1>2, <1>5, <2>1, <2>2 DEF HooksOK
<1> QED
  BY <1>0, <1>1, <1>5, <1>6, OthersStep

LEMMA RestartStep == ASSUME IInv, Restart PROVE IInv'
<1>0. TypeOK /\ Last \in Nat /\ Last = Len(log)
  BY Positions DEF IInv, Last
<1>1. UNCHANGED <<log, seen, drops>> /\ restarts' \in 0 .. MaxRestarts
      /\ conn' = [c \in Client |-> Off] /\ wire' = [c \in Client |-> <<>>]
      /\ hooks' = NewHooks(Last + 1) /\ push' = [alive |-> TRUE, next |-> Last + 1]
  BY <1>0, FeedAssumption DEF Restart, TypeOK
<1>2. Off \in Relay /\ Off.state = "off" /\ Off.page = {} /\ Off.next = 1 /\ Off.sent = -1
  BY DEF Off, Relay, Cursor, Id
<1>3. Last + 1 \in Id /\ <<>> \in Seq(Id)
  BY <1>0 DEF Id
<1>4. NewHooks(Last + 1) \in Hooks /\ NewHooks(Last + 1).next = Last + 1
      /\ NewHooks(Last + 1).waiting = <<>> /\ NewHooks(Last + 1).running = {}
      /\ NewHooks(Last + 1).admitted = 0
  BY <1>3 DEF NewHooks, Hooks
<1>5. HooksOK'
  <2>1. Cardinality({}) = 0 /\ IsFiniteSet({})
    BY FS_EmptySet
  <2>2. Len(<<>>) = 0
    OBVIOUS
  <2>3. hooks'.waiting = <<>> /\ hooks'.running = {} /\ hooks'.admitted = 0
    BY <1>1, <1>4
  <2>4. Cardinality(hooks'.running) = 0 /\ IsFiniteSet(hooks'.running)
        /\ Len(hooks'.waiting) = 0
    BY <2>1, <2>2, <2>3
  <2>5. 0 <= Concurrency + Queue /\ 0 <= Concurrency
    BY FeedAssumption
  <2> QED
    BY <1>1, <2>3, <2>4, <2>5 DEF HooksOK
<1>6. \A c \in Client : RelayOK(c)'
  BY <1>1, <1>2 DEF RelayOK
<1>7. TypeOK'
  <2>1. conn' \in [Client -> Relay] /\ wire' \in [Client -> Seq(Id)] /\ hooks' \in Hooks
        /\ push' \in [alive : BOOLEAN, next : Id]
    BY <1>1, <1>2, <1>3, <1>4
  <2>2. \A c \in Client : conn'[c] = Off /\ wire'[c] = <<>>
    BY <1>1
  <2>3. hooks'.next = Len(log) + 1 /\ push'.next = Len(log) + 1
    BY <1>0, <1>1, <1>4
  <2> QED
    BY <1>0, <1>1, <1>2, <2>1, <2>2, <2>3 DEF TypeOK
<1> QED
  BY <1>5, <1>6, <1>7 DEF IInv

-----------------------------------------------------------------------------
LEMMA NextInv == IInv /\ [Next]_vars => IInv'
<1> SUFFICES ASSUME IInv, [Next]_vars PROVE IInv'
  OBVIOUS
<1>1. CASE \E e \in Event : Publish(e)
  BY <1>1, PublishStep
<1>2. ASSUME NEW c \in Client, Relays(c) \/ Read(c) \/ Drop(c) PROVE IInv'
  BY <1>2, ConnectStep, FetchStep, FillStep, ReceiveStep, LaggedStep, ClosedStep, ReadStep, DropStep
     DEF Relays
<1>3. CASE Scripts
  BY <1>3, FireStep, FallBehindStep, HookStartsStep DEF Scripts
<1>4. CASE Ends
  BY <1>4, HookEndsStep DEF Ends
<1>5. CASE Pushes \/ PushLags
  BY <1>5, PushStep
<1>6. CASE Restart
  BY <1>6, RestartStep
<1>7. CASE UNCHANGED vars
  <2>1. UNCHANGED <<log, conn, wire, seen, hooks, push, drops, restarts>>
    BY <1>7 DEF vars
  <2>2. TypeOK' /\ HooksOK'
    BY <2>1, HooksUntouched DEF IInv, TypeOK
  <2>3. \A c \in Client : RelayOK(c)'
    BY <2>1, Untouched DEF IInv
  <2> QED
    BY <2>2, <2>3 DEF IInv
<1> QED
  BY <1>1, <1>2, <1>3, <1>4, <1>5, <1>6, <1>7 DEF Next

(* The inductive invariant, which says what is on the wire of a client and *)
(* what its relay has still to send.                                       *)
THEOREM FeedInv == Spec => []IInv
<1>1. Init => IInv
  BY InitInv
<1>2. IInv /\ [Next]_vars => IInv'
  BY NextInv
<1> QED
  BY <1>1, <1>2, PTL DEF Spec

(* Type correctness of the bus, its relays, its hooks and its readers.     *)
THEOREM FeedTypeOK == Spec => []TypeOK
<1>1. IInv => TypeOK
  BY DEF IInv
<1> QED
  BY <1>1, FeedInv, PTL

(* However many events of whatever kinds are published, no more hooks run  *)
(* and wait than the permits there are.                                    *)
THEOREM HooksStayBounded == Spec => []HooksAreBounded
<1>1. IInv => HooksAreBounded
  BY DEF IInv, HooksOK, HooksAreBounded
<1> QED
  BY <1>1, FeedInv, PTL

(* A step of the feed is a step of the log and its readers, or none.       *)
LEMMA StepReads == IInv /\ [Next]_vars => [Reader!Next]_<<log, seen>>
<1> SUFFICES ASSUME IInv, [Next]_vars PROVE [Reader!Next]_<<log, seen>>
  OBVIOUS
<1>1. CASE \E e \in Event : Publish(e)
  BY <1>1 DEF Publish, Reader!Next, Reader!Grow
<1>2. ASSUME NEW c \in Client, Read(c) PROVE Reader!Next
  <2> DEFINE i == Head(wire[c])
  <2>1. i \in Relevant(c) /\ seen[c] < i
        /\ (seen[c] # None => \A m \in Relevant(c) : ~(seen[c] < m /\ m < i))
    BY <1>2, ReadIsNext
  <2>2. log \in Seq(Event) /\ Last = Len(log) /\ seen[c] \in Int /\ Last \in Nat
    BY DEF IInv, TypeOK, Last, Cursor
  <2>3. i \in DOMAIN log /\ i \in Int /\ Wanted(c, log[i]) /\ DOMAIN log = 1 .. Last
    BY <2>1, <2>2 DEF Relevant
  <2>4. seen' = [seen EXCEPT ![c] = i] /\ UNCHANGED log
    BY <1>2 DEF Read, Feed
  <2> HIDE DEF i
  <2>5. ASSUME seen[c] # -1, NEW j \in DOMAIN log, seen[c] < j, j < i PROVE ~Wanted(c, log[j])
    BY <2>1, <2>3, <2>5 DEF Relevant
  <2>6. Reader!Read(c, i)
    BY <2>1, <2>2, <2>3, <2>4, <2>5 DEF Reader!Read, Reader!None
  <2> QED
    BY <2>3, <2>6 DEF Reader!Next
<1>3. ASSUME NEW c \in Client, Relays(c) \/ Drop(c) PROVE UNCHANGED <<log, seen>>
  BY <1>3 DEF Relays, Connect, Fetch, Fill, Receive, Lagged, Closed, Drop, Feed
<1>4. CASE Scripts \/ Ends \/ Pushes \/ PushLags \/ Restart
  BY <1>4 DEF Scripts, Ends, Fire, FallBehind, HookStarts, HookEnds, HooksOnly, Pushes, PushLags,
              PushOnly, Restart
<1>5. CASE UNCHANGED vars
  BY <1>5 DEF vars
<1> QED
  BY <1>1, <1>2, <1>3, <1>4, <1>5 DEF Next

(* The feed implements the log that is read without gaps and without       *)
(* repetitions: for every client, filter and page size, across lost        *)
(* sockets, lag and restarts.                                              *)
THEOREM FeedImplementsLog == Spec => FeedIsALog
<1>1. Init => Reader!Init
  BY DEF Init, Reader!Init, Reader!None
<1>2. IInv /\ [Next]_vars => [Reader!Next]_<<log, seen>>
  BY StepReads
<1> QED
  BY <1>1, <1>2, FeedInv, PTL DEF Spec, FeedIsALog, Reader!Spec

-----------------------------------------------------------------------------
(* The live terminal                                                       *)
-----------------------------------------------------------------------------
LEMMA TerminalBounds ==
  BACKLOG \in Nat /\ Window \in Nat /\ MaxChunk \in Nat /\ MaxSent \in Nat
BY BoundsAssumption

-----------------------------------------------------------------------------
(* Lines of chunks                                                         *)

(* Three lines, one behind the other.                                     *)
Rejoins(g, t, r) == (g \o t) \o r = g \o (t \o r)
LEMMA ThreeLines ==
  ASSUME NEW g \in Seq(Nat), NEW t \in Seq(Nat), NEW r \in Seq(Nat)
  PROVE  Rejoins(g, t, r)
BY ConcatAssociative, SMTT(30) DEF Rejoins

(* What a line holds, by position.                                         *)
LEMMA GaplessIs ==
  ASSUME NEW s \in Seq(Nat), NEW n \in Nat
  PROVE  Gapless(s, n) <=>
           /\ \A i, j \in 1 .. Len(s) : i < j /\ s[i] # 0 /\ s[j] # 0 => s[i] < s[j]
           /\ \A i \in 1 .. Len(s) : s[i] <= n
           /\ \A k \in 1 .. n : \E i \in 1 .. Len(s) : s[i] = k
<1>1. DOMAIN s = 1 .. Len(s) /\ \A i \in 1 .. Len(s) : s[i] \in Nat  OBVIOUS
<1>2. Increasing(s) <=> \A i, j \in 1 .. Len(s) : i < j /\ s[i] # 0 /\ s[j] # 0 => s[i] < s[j]
  BY <1>1 DEF Increasing, Ping
<1>3. Range(s) \ {0} = 1 .. n <=>
        /\ \A i \in 1 .. Len(s) : s[i] # 0 => s[i] \in 1 .. n
        /\ \A k \in 1 .. n : \E i \in 1 .. Len(s) : s[i] = k
  BY <1>1 DEF Range
<1>4. (\A i \in 1 .. Len(s) : s[i] # 0 => s[i] \in 1 .. n) <=> \A i \in 1 .. Len(s) : s[i] <= n
  BY <1>1
<1>. QED  BY <1>2, <1>3, <1>4 DEF Gapless, Ping

(* A ping in a line changes nothing.                                       *)
LEMMA GaplessPing ==
  ASSUME NEW a \in Seq(Nat), NEW b \in Seq(Nat), NEW n \in Nat
  PROVE  Gapless(a \o (<<Ping>> \o b), n) <=> Gapless(a \o b, n)
<1>. DEFINE c == a \o (<<0>> \o b)
            d == a \o b
<1>1. /\ c \in Seq(Nat) /\ d \in Seq(Nat) /\ Len(c) = Len(d) + 1 /\ Len(a) \in 0 .. Len(d)
      /\ \A i \in 1 .. Len(a) : c[i] = d[i]
      /\ c[Len(a) + 1] = 0
      /\ \A i \in Len(a) + 1 .. Len(d) : c[i + 1] = d[i]
  OBVIOUS
<1>. HIDE DEF c, d
<1>. DEFINE up(i) == IF i <= Len(a) THEN i ELSE i + 1
            down(i) == IF i <= Len(a) THEN i ELSE i - 1
<1>n. Len(a) \in Nat /\ Len(d) \in Nat /\ Len(c) \in Nat  BY <1>1
<1>2. \A i \in 1 .. Len(d) : up(i) \in 1 .. Len(c) /\ c[up(i)] = d[i]
  <2>. TAKE i \in 1 .. Len(d)
  <2>1. CASE i <= Len(a)
    <3>1. up(i) = i  BY <2>1
    <3>2. i \in 1 .. Len(a) /\ i \in 1 .. Len(c)  BY <1>1, <1>n, <2>1
    <3>3. c[i] = d[i]  BY <1>1, <3>2
    <3>. QED  BY <3>1, <3>2, <3>3
  <2>2. CASE ~(i <= Len(a))
    <3>1. up(i) = i + 1  BY <2>2
    <3>2. i \in Len(a) + 1 .. Len(d) /\ i + 1 \in 1 .. Len(c)  BY <1>1, <1>n, <2>2
    <3>3. c[i + 1] = d[i]  BY <1>1, <3>2
    <3>. QED  BY <3>1, <3>2, <3>3
  <2>. QED  BY <2>1, <2>2
<1>3. \A i \in 1 .. Len(c) : i # Len(a) + 1 => down(i) \in 1 .. Len(d) /\ d[down(i)] = c[i]
  <2>. SUFFICES ASSUME NEW i \in 1 .. Len(c), i # Len(a) + 1
                PROVE  down(i) \in 1 .. Len(d) /\ d[down(i)] = c[i]
    OBVIOUS
  <2>1. CASE i <= Len(a)
    <3>1. down(i) = i  BY <2>1
    <3>2. i \in 1 .. Len(a) /\ i \in 1 .. Len(d)  BY <1>1, <1>n, <2>1
    <3>3. c[i] = d[i]  BY <1>1, <3>2
    <3>. QED  BY <3>1, <3>2, <3>3
  <2>2. CASE ~(i <= Len(a))
    <3>1. down(i) = i - 1  BY <2>2
    <3>2. i - 1 \in Len(a) + 1 .. Len(d) /\ i - 1 \in 1 .. Len(d) /\ (i - 1) + 1 = i
      BY <1>1, <1>n, <2>2
    <3>3. c[(i - 1) + 1] = d[i - 1]  BY <1>1, <3>2
    <3>. QED  BY <3>1, <3>2, <3>3
  <2>. QED  BY <2>1, <2>2
<1>4. ASSUME Gapless(c, n) PROVE Gapless(d, n)
  <2>1. /\ \A i, j \in 1 .. Len(c) : i < j /\ c[i] # 0 /\ c[j] # 0 => c[i] < c[j]
        /\ \A i \in 1 .. Len(c) : c[i] <= n
        /\ \A k \in 1 .. n : \E i \in 1 .. Len(c) : c[i] = k
    BY <1>1, <1>4, GaplessIs
  <2>2. ASSUME NEW i \in 1 .. Len(d), NEW j \in 1 .. Len(d), i < j, d[i] # 0, d[j] # 0
        PROVE  d[i] < d[j]
    <3>1. up(i) < up(j)  BY <1>n, <2>2
    <3>. QED  BY <1>2, <2>1, <2>2, <3>1
  <2>3. \A i \in 1 .. Len(d) : d[i] <= n  BY <1>2, <2>1
  <2>4. ASSUME NEW k \in 1 .. n PROVE \E i \in 1 .. Len(d) : d[i] = k
    <3>1. PICK i \in 1 .. Len(c) : c[i] = k  BY <2>1
    <3>2. i # Len(a) + 1  BY <1>1, <3>1
    <3>. QED  BY <1>3, <3>1, <3>2
  <2>. QED  BY <1>1, <2>2, <2>3, <2>4, GaplessIs
<1>5. ASSUME Gapless(d, n) PROVE Gapless(c, n)
  <2>1. /\ \A i, j \in 1 .. Len(d) : i < j /\ d[i] # 0 /\ d[j] # 0 => d[i] < d[j]
        /\ \A i \in 1 .. Len(d) : d[i] <= n
        /\ \A k \in 1 .. n : \E i \in 1 .. Len(d) : d[i] = k
    BY <1>1, <1>5, GaplessIs
  <2>2. ASSUME NEW i \in 1 .. Len(c), NEW j \in 1 .. Len(c), i < j, c[i] # 0, c[j] # 0
        PROVE  c[i] < c[j]
    <3>1. i # Len(a) + 1 /\ j # Len(a) + 1  BY <1>1, <2>2
    <3>2. down(i) < down(j)  BY <1>n, <2>2, <3>1
    <3>3. /\ down(i) \in 1 .. Len(d) /\ d[down(i)] = c[i]
          /\ down(j) \in 1 .. Len(d) /\ d[down(j)] = c[j]
      BY <1>3, <3>1
    <3>. QED  BY <2>1, <2>2, <3>2, <3>3
  <2>3. ASSUME NEW i \in 1 .. Len(c) PROVE c[i] <= n
    <3>1. CASE i = Len(a) + 1  BY <1>1, <3>1
    <3>2. CASE i # Len(a) + 1  BY <1>3, <2>1, <3>2
    <3>. QED  BY <3>1, <3>2
  <2>4. ASSUME NEW k \in 1 .. n PROVE \E i \in 1 .. Len(c) : c[i] = k
    <3>1. PICK i \in 1 .. Len(d) : d[i] = k  BY <2>1
    <3>2. up(i) \in 1 .. Len(c) /\ c[up(i)] = k  BY <1>2, <3>1
    <3>. QED  BY <3>2
  <2>. QED  BY <1>1, <2>2, <2>3, <2>4, GaplessIs
<1>. QED  BY <1>4, <1>5 DEF c, d, Ping

(* The next chunk goes to the end of a line.                               *)
LEMMA GaplessAppend ==
  ASSUME NEW s \in Seq(Nat), NEW n \in Nat, Gapless(s, n)
  PROVE  Gapless(Append(s, n + 1), n + 1)
<1>. DEFINE t == Append(s, n + 1)
<1>1. /\ t \in Seq(Nat) /\ Len(t) = Len(s) + 1 /\ t[Len(s) + 1] = n + 1
      /\ \A i \in 1 .. Len(s) : t[i] = s[i]
  OBVIOUS
<1>2. /\ \A i, j \in 1 .. Len(s) : i < j /\ s[i] # 0 /\ s[j] # 0 => s[i] < s[j]
      /\ \A i \in 1 .. Len(s) : s[i] <= n
      /\ \A k \in 1 .. n : \E i \in 1 .. Len(s) : s[i] = k
  BY GaplessIs
<1>. HIDE DEF t
<1>3. ASSUME NEW i \in 1 .. Len(t), NEW j \in 1 .. Len(t), i < j, t[i] # 0, t[j] # 0
      PROVE  t[i] < t[j]
  <2>1. i \in 1 .. Len(s) /\ t[i] = s[i] /\ s[i] <= n /\ s[i] \in Nat
    <3>1. i \in 1 .. Len(s)  BY <1>1, <1>3
    <3>2. t[i] = s[i]  BY <1>1, <3>1
    <3>3. s[i] <= n /\ s[i] \in Nat  BY <1>2, <3>1
    <3>. QED  BY <3>1, <3>2, <3>3
  <2>2. CASE j = Len(s) + 1  BY <1>1, <2>1, <2>2
  <2>3. CASE j # Len(s) + 1
    <3>1. j \in 1 .. Len(s) /\ t[j] = s[j]  BY <1>1, <2>3
    <3>. QED  BY <1>2, <1>3, <2>1, <3>1
  <2>. QED  BY <2>2, <2>3
<1>4. \A i \in 1 .. Len(t) : t[i] <= n + 1
  <2>. TAKE i \in 1 .. Len(t)
  <2>1. CASE i = Len(s) + 1  BY <1>1, <2>1
  <2>2. CASE i # Len(s) + 1
    <3>1. i \in 1 .. Len(s)  BY <1>1, <2>2
    <3>2. t[i] = s[i] /\ s[i] <= n /\ s[i] \in Nat  BY <1>1, <1>2, <3>1
    <3>. QED  BY <3>2
  <2>. QED  BY <2>1, <2>2
<1>5. \A k \in 1 .. n + 1 : \E i \in 1 .. Len(t) : t[i] = k
  <2>. TAKE k \in 1 .. n + 1
  <2>1. CASE k = n + 1  BY <1>1, <2>1
  <2>2. CASE k # n + 1
    <3>1. k \in 1 .. n  BY <2>2
    <3>2. PICK i \in 1 .. Len(s) : s[i] = k  BY <1>2, <3>1
    <3>3. i \in 1 .. Len(t) /\ t[i] = k  BY <1>1, <3>2
    <3>. QED  BY <3>3
  <2>. QED  BY <2>1, <2>2
<1>6. n + 1 \in Nat  OBVIOUS
<1>7. Gapless(t, n + 1)  BY <1>1, <1>3, <1>4, <1>5, <1>6, GaplessIs
<1>. QED  BY <1>7 DEF t

(* Rearranging lines.  What is concatenated is given a name first, which    *)
(* keeps the provers from taking it apart.                                 *)
LEMMA SingleLine == ASSUME NEW s \in Nat PROVE <<s>> \in Seq(Nat)
OBVIOUS

LEMMA TwoLines == ASSUME NEW g \in Seq(Nat), NEW t \in Seq(Nat) PROVE g \o t \in Seq(Nat)
OBVIOUS

(* The lines of a viewer: received, on the way, being sent, and waiting.    *)
Whole(g, x, r) == (g \o x) \o r
Line(g, x, s, r) == (g \o x) \o (<<s>> \o r)

LEMMA AppendBehind ==
  ASSUME NEW g \in Seq(Nat), NEW x \in Seq(Nat), NEW r \in Seq(Nat), NEW s \in Nat, NEW e \in Nat
  PROVE  Line(g, x, s, Append(r, e)) = Append(Line(g, x, s, r), e)
<1>1. PICK p \in Seq(Nat) : p = <<s>>  BY SingleLine
<1>2. PICK q \in Seq(Nat) : q = <<e>>  BY SingleLine
<1>3. Append(r, e) = r \o q  BY <1>2, AppendIsConcat
<1>4. PICK y \in Seq(Nat) : y = p \o r  BY TwoLines
<1>5. p \o (r \o q) = y \o q
  <2>1. Rejoins(p, r, q)  BY ThreeLines
  <2>. QED  BY <1>4, <2>1 DEF Rejoins
<1>6. PICK w \in Seq(Nat) : w = g \o x  BY TwoLines
<1>7. PICK z \in Seq(Nat) : z = w \o y  BY TwoLines
<1>8. w \o (y \o q) = z \o q
  <2>1. Rejoins(w, y, q)  BY ThreeLines
  <2>. QED  BY <1>7, <2>1 DEF Rejoins
<1>9. Append(z, e) = z \o q  BY <1>2, AppendIsConcat
<1>10. w \o (p \o (r \o q)) = Append(w \o (p \o r), e)  BY <1>4, <1>5, <1>7, <1>8, <1>9
<1>. QED  BY <1>1, <1>3, <1>6, <1>10 DEF Line

LEMMA AppendBefore ==
  ASSUME NEW g \in Seq(Nat), NEW x \in Seq(Nat), NEW r \in Seq(Nat), NEW s \in Nat
  PROVE  Whole(g, Append(x, s), r) = Line(g, x, s, r)
<1>1. PICK p \in Seq(Nat) : p = <<s>>  BY SingleLine
<1>2. Append(x, s) = x \o p  BY <1>1, AppendIsConcat
<1>3. PICK y \in Seq(Nat) : y = g \o x  BY TwoLines
<1>4. g \o (x \o p) = y \o p
  <2>1. Rejoins(g, x, p)  BY ThreeLines
  <2>. QED  BY <1>3, <2>1 DEF Rejoins
<1>5. Rejoins(y, p, r)  BY ThreeLines
<1>. QED  BY <1>1, <1>2, <1>3, <1>4, <1>5 DEF Whole, Line, Rejoins

LEMMA HeadBehind ==
  ASSUME NEW g \in Seq(Nat), NEW x \in Seq(Nat), x # <<>>
  PROVE  /\ Head(x) \in Nat /\ Tail(x) \in Seq(Nat)
         /\ g \o x = Append(g, Head(x)) \o Tail(x)
         /\ g \o x = g \o (<<Head(x)>> \o Tail(x))
<1>1. Head(x) \in Nat /\ Tail(x) \in Seq(Nat)  OBVIOUS
<1>2. x = <<Head(x)>> \o Tail(x)  OBVIOUS
<1>3. PICK p \in Seq(Nat) : p = <<Head(x)>>  BY <1>1, SingleLine
<1>4. Append(g, Head(x)) = g \o p  BY <1>1, <1>3, AppendIsConcat
<1>5. PICK y \in Seq(Nat) : y = Tail(x)  BY <1>1
<1>6. Rejoins(g, p, y)  BY ThreeLines
<1>. QED  BY <1>1, <1>2, <1>3, <1>4, <1>5, <1>6 DEF Rejoins

(* Where a ping stands among three lines does not matter to the whole.     *)
LEMMA PingInside ==
  ASSUME NEW g \in Seq(Nat), NEW t \in Seq(Nat), NEW r \in Seq(Nat)
  PROVE  (g \o (<<Ping>> \o t)) \o r = g \o (<<Ping>> \o (t \o r))
<1>1. PICK p \in Seq(Nat) : p = <<Ping>>  BY SingleLine DEF Ping
<1>2. PICK q \in Seq(Nat) : q = p \o t  BY TwoLines
<1>3. Rejoins(g, q, r)  BY ThreeLines
<1>4. Rejoins(p, t, r)  BY ThreeLines
<1>. QED  BY <1>1, <1>2, <1>3, <1>4 DEF Rejoins

(* A set of naturals has a least element.                                  *)
LEMMA LeastChunk == ASSUME NEW S \in SUBSET Nat, S # {} PROVE \E x \in S : \A y \in S : x <= y
<1>1. PICK x \in S : \A y \in S : <<y, x>> \notin OpToRel(<, Nat)
  BY NatLessThanWellFounded, WFMin
<1>2. \A y \in S : ~(y < x)  BY <1>1 DEF OpToRel
<1>. QED  BY <1>2

(* The front of a line has no hole either.                                 *)
LEMMA GaplessFront ==
  ASSUME NEW a \in Seq(Nat), NEW b \in Seq(Nat), NEW n \in Nat, Gapless(a \o b, n)
  PROVE  \E m \in 0 .. n : Gapless(a, m)
<1>. DEFINE c == a \o b
            Missing == {k \in 1 .. n : \A i \in 1 .. Len(a) : a[i] # k}
<1>1. /\ c \in Seq(Nat) /\ Len(c) = Len(a) + Len(b) /\ Len(a) \in Nat /\ Len(b) \in Nat
      /\ \A i \in 1 .. Len(a) : c[i] = a[i]
  OBVIOUS
<1>2. /\ \A i, j \in 1 .. Len(c) : i < j /\ c[i] # 0 /\ c[j] # 0 => c[i] < c[j]
      /\ \A i \in 1 .. Len(c) : c[i] <= n
      /\ \A k \in 1 .. n : \E i \in 1 .. Len(c) : c[i] = k
  BY <1>1, GaplessIs
<1>. HIDE DEF c
<1>3. \A i, j \in 1 .. Len(a) : i < j /\ a[i] # 0 /\ a[j] # 0 => a[i] < a[j]
  <2>1. \A i \in 1 .. Len(a) : i \in 1 .. Len(c)  BY <1>1
  <2>. QED  BY <1>1, <1>2, <2>1
<1>4. \A i \in 1 .. Len(a) : a[i] <= n /\ a[i] \in Nat
  <2>. TAKE i \in 1 .. Len(a)
  <2>1. i \in 1 .. Len(c) /\ c[i] = a[i]  BY <1>1
  <2>2. c[i] <= n  BY <1>2, <2>1
  <2>3. a[i] \in Nat  OBVIOUS
  <2>. QED  BY <2>1, <2>2, <2>3
<1>5. CASE Missing = {}
  <2>1. \A k \in 1 .. n : \E i \in 1 .. Len(a) : a[i] = k  BY <1>5
  <2>2. Gapless(a, n)  BY <1>3, <1>4, <2>1, GaplessIs
  <2>. QED  BY <2>2
<1>6. CASE Missing # {}
  <2>1. PICK k \in Missing : \A y \in Missing : k <= y
    <3>1. Missing \in SUBSET Nat  OBVIOUS
    <3>. QED  BY <1>6, <3>1, LeastChunk
  <2>2. PICK j \in 1 .. Len(c) : c[j] = k  BY <1>2
  <2>3. j > Len(a)
    <3>1. \A i \in 1 .. Len(a) : c[i] # k  BY <1>1, <2>1
    <3>2. j \notin 1 .. Len(a)  BY <2>2, <3>1
    <3>. QED  BY <1>1, <2>2, <3>2
  <2>4. \A i \in 1 .. Len(a) : a[i] <= k - 1
    <3>. TAKE i \in 1 .. Len(a)
    <3>1. CASE a[i] = 0  BY <3>1
    <3>2. CASE a[i] # 0
      <4>a. c[j] # 0  BY <2>1, <2>2
      <4>b. c[i] # 0 /\ i \in 1 .. Len(c) /\ i < j
        <5>1. c[i] = a[i]  BY <1>1
        <5>2. i \in 1 .. Len(c)  BY <1>1
        <5>3. i < j  BY <1>1, <2>2, <2>3
        <5>. QED  BY <3>2, <5>1, <5>2, <5>3
      <4>0. i \in 1 .. Len(c) /\ i < j /\ c[i] # 0 /\ c[j] # 0  BY <4>a, <4>b
      <4>1. c[i] < c[j]  BY <1>2, <2>2, <4>0
      <4>2. c[i] = a[i] /\ a[i] \in Nat  BY <1>1, <1>4
      <4>. QED  BY <2>2, <4>1, <4>2
    <3>. QED  BY <3>1, <3>2
  <2>5. \A x \in 1 .. k - 1 : \E i \in 1 .. Len(a) : a[i] = x
    <3>. TAKE x \in 1 .. k - 1
    <3>1. x \in 1 .. n /\ ~(k <= x)  OBVIOUS
    <3>2. x \notin Missing  BY <2>1, <3>1
    <3>. QED  BY <3>1, <3>2
  <2>6. k - 1 \in 0 .. n /\ k - 1 \in Nat  OBVIOUS
  <2>7. Gapless(a, k - 1)  BY <1>3, <2>4, <2>5, <2>6, GaplessIs
  <2>. QED  BY <2>6, <2>7
<1>. QED  BY <1>5, <1>6
-----------------------------------------------------------------------------
(* The line to the viewer                                                  *)

LEMMA WiderSeq == ASSUME NEW S, NEW T, S \subseteq T, NEW s \in Seq(S) PROVE s \in Seq(T)
OBVIOUS

LEMMA ShownIs ==
  ASSUME TerminalTypeOK
  PROVE  /\ got \in Seq(Nat) /\ socket \in Seq(Nat) /\ backlog \in Seq(Nat)
         /\ sending \in Nat /\ made \in Nat
         /\ got \o socket \in Seq(Nat) /\ <<sending>> \o backlog \in Seq(Nat)
         /\ Live => Shown = (got \o socket) \o (<<sending>> \o backlog)
         /\ ~ Live => Shown = got \o socket
         /\ Shown \in Seq(Nat)
<1>1. /\ got \in Seq(Nat) /\ socket \in Seq(Nat) /\ backlog \in Seq(Nat)
      /\ sending \in Nat /\ made \in Nat
  <2>1. /\ got \in Seq(1 .. MaxChunk) /\ socket \in Seq(0 .. MaxChunk)
        /\ backlog \in Seq(1 .. MaxChunk) /\ sending \in 0 .. MaxChunk /\ made \in 0 .. MaxChunk
    BY DEF TerminalTypeOK
  <2>2. 1 .. MaxChunk \subseteq Nat /\ 0 .. MaxChunk \subseteq Nat  OBVIOUS
  <2>3. got \in Seq(Nat) /\ backlog \in Seq(Nat)  BY <2>1, <2>2, WiderSeq
  <2>4. socket \in Seq(Nat)  BY <2>1, <2>2, WiderSeq
  <2>. QED  BY <2>1, <2>2, <2>3, <2>4
<1>2. got \o socket \in Seq(Nat) /\ <<sending>> \o backlog \in Seq(Nat)  BY <1>1
<1>3. (got \o socket) \o <<>> = got \o socket  BY <1>2, ConcatEmptySeq
<1>4. Live => Shown = (got \o socket) \o (<<sending>> \o backlog)  BY DEF Shown, Live
<1>5. ~ Live => Shown = got \o socket  BY <1>3 DEF Shown, Live
<1>6. Shown \in Seq(Nat)
  <2>1. CASE Live
    <3>1. \A x, y \in Seq(Nat) : x \o y \in Seq(Nat)  OBVIOUS
    <3>2. (got \o socket) \o (<<sending>> \o backlog) \in Seq(Nat)  BY <1>2, <3>1
    <3>. QED  BY <1>4, <2>1, <3>2
  <2>2. CASE ~ Live  BY <1>2, <1>5, <2>2
  <2>. QED  BY <2>1, <2>2
<1>. QED  BY <1>1, <1>2, <1>4, <1>5, <1>6

(* Most steps leave the chunks where they are.                             *)
LEMMA ChunksSame ==
  ASSUME ChunksOK, UNCHANGED <<reader, made, backlog, sending, socket, got>>,
         Live' <=> Live, loop' \in {"off", "upgrade"} => loop \in {"off", "upgrade"},
         loop' # "send" => sending = Ping
  PROVE  ChunksOK'
<1>1. Shown' = Shown  BY DEF Shown, Live
<1>2. \A n : Gapless(Shown, n)' <=> Gapless(Shown, n)
  BY <1>1 DEF Gapless, Increasing
<1>3. NoHoles' <=> NoHoles  BY <1>1 DEF NoHoles, Gapless, Increasing
<1>. QED  BY <1>1, <1>3 DEF ChunksOK, Gapless, Increasing

(* A viewer that is cut off has what the connection holds, and no more.    *)
LEMMA ChunksCut ==
  ASSUME TerminalTypeOK, ChunksOK, Live, loop' \in {"drop", "done"},
         UNCHANGED <<reader, made, backlog, socket, got>>, sending' = Ping
  PROVE  ChunksOK'
<1>1. PICK n \in 0 .. made : Gapless(Shown, n)  BY DEF ChunksOK, NoHoles
<1>2. PICK m \in 0 .. n : Gapless(got \o socket, m)
  <2>1. n \in Nat  BY <1>1, ShownIs
  <2>. QED  BY <1>1, <2>1, ShownIs, GaplessFront
<1>3. Shown' = got \o socket
  <2>1. Shown' = (got \o socket) \o <<>>  BY DEF Shown
  <2>. QED  BY <2>1, ShownIs, ConcatEmptySeq
<1>4. NoHoles'
  <2>1. m \in 0 .. made /\ made' = made  BY <1>1, <1>2, ShownIs
  <2>2. Gapless(Shown', m)  BY <1>2, <1>3
  <2>. QED  BY <2>1, <2>2 DEF NoHoles, Gapless, Increasing
<1>. QED  BY <1>4 DEF ChunksOK, Live

(* The thread appends the next chunk, or ends.                             *)
LEMMA ChunksRead == ASSUME TerminalTypeOK, ChunksOK, ReadChunk PROVE ChunksOK'
<1>1. /\ reader = "reading" /\ made' = made + 1 /\ made \in Nat
      /\ UNCHANGED <<loop, sending, socket, got>>
  BY ShownIs DEF ReadChunk, viewer
<1>2. CASE ~ Live
  <2>1. Shown' = Shown  BY <1>1, <1>2 DEF Shown, Live
  <2>2. NoHoles'
    <3>1. PICK n \in 0 .. made : Gapless(Shown, n)  BY DEF ChunksOK, NoHoles
    <3>2. n \in 0 .. made' /\ Gapless(Shown', n)  BY <1>1, <2>1, <3>1
    <3>. QED  BY <3>2 DEF NoHoles, Gapless, Increasing
  <2>. QED  BY <1>1, <1>2, <2>2 DEF ChunksOK, Live, ReadChunk
<1>3. CASE Live /\ reader' = "ended" /\ backlog' = backlog
  <2>1. Shown' = Shown  BY <1>1, <1>3 DEF Shown, Live
  <2>2. NoHoles'
    <3>1. PICK n \in 0 .. made : Gapless(Shown, n)  BY DEF ChunksOK, NoHoles
    <3>2. n \in 0 .. made' /\ Gapless(Shown', n)  BY <1>1, <2>1, <3>1
    <3>. QED  BY <3>2 DEF NoHoles, Gapless, Increasing
  <2>. QED  BY <1>1, <1>3, <2>2 DEF ChunksOK, Live
<1>4. CASE Live /\ reader' = reader /\ backlog' = Append(backlog, made + 1)
  <2>1. Gapless(Shown, made)  BY <1>1, <1>4 DEF ChunksOK
  <2>2. Shown' = Append(Shown, made + 1)
    <3>1. Shown' = Line(got, socket, sending, Append(backlog, made + 1))
      BY <1>1, <1>4 DEF Shown, Live, Line
    <3>2. /\ got \in Seq(Nat) /\ socket \in Seq(Nat) /\ backlog \in Seq(Nat)
          /\ sending \in Nat /\ made + 1 \in Nat
      BY ShownIs
    <3>3. Shown' = Append(Line(got, socket, sending, backlog), made + 1)
      BY <3>1, <3>2, AppendBehind
    <3>4. Shown = Line(got, socket, sending, backlog)  BY <1>4, ShownIs DEF Line
    <3>. QED  BY <3>3, <3>4
  <2>3. Shown \in Seq(Nat)  BY ShownIs
  <2>4. Gapless(Shown', made')  BY <1>1, <2>1, <2>2, <2>3, GaplessAppend
  <2>5. NoHoles'  BY <1>1, <2>4 DEF NoHoles, Gapless, Increasing
  <2>. QED  BY <1>1, <1>4, <2>4, <2>5 DEF ChunksOK, Live, Gapless, Increasing
<1>. QED  BY <1>1, <1>2, <1>3, <1>4 DEF ReadChunk

(* A line that differs in pings alone.                                     *)
LEMMA ChunksPinged ==
  ASSUME ChunksOK, UNCHANGED <<reader, made>>, Live, Live',
         \A n \in 0 .. made : Gapless(Shown, n) => Gapless(Shown', n),
         made \in Nat, loop' \notin {"off", "upgrade"}, loop' # "send" => sending' = Ping
  PROVE  ChunksOK'
<1>1. PICK n \in 0 .. made : Gapless(Shown, n)  BY DEF ChunksOK, NoHoles
<1>2. NoHoles'  BY <1>1 DEF NoHoles, Gapless, Increasing
<1>3. reader # "ended" => Gapless(Shown', made)  BY DEF ChunksOK
<1>. QED  BY <1>2, <1>3 DEF ChunksOK, Gapless, Increasing

(* The loop takes a chunk off the channel, and gives it to the connection; *)
(* the viewer reads what the connection holds.                             *)
LEMMA ChunksOutput == ASSUME TerminalTypeOK, ChunksOK, Output PROVE ChunksOK'
<1>1. /\ Live /\ Live' /\ sending = 0 /\ backlog # <<>> /\ loop' = "send"
      /\ sending' = Head(backlog) /\ backlog' = Tail(backlog)
      /\ UNCHANGED <<reader, made, got, socket>>
  BY DEF Output, Begin, Live, ChunksOK, Ping, viewer
<1>2. Shown = (got \o socket) \o (<<Ping>> \o backlog)  BY <1>1, ShownIs DEF Ping
<1>3. Shown' = (got \o socket) \o (<<Head(backlog)>> \o Tail(backlog))
  BY <1>1 DEF Shown, Live
<1>4. Shown' = (got \o socket) \o backlog  BY <1>1, <1>3, ShownIs, HeadBehind
<1>5. got \o socket \in Seq(Nat) /\ backlog \in Seq(Nat) /\ made \in Nat  BY ShownIs
<1>6. \A n \in Nat : Gapless(Shown, n) => Gapless(Shown', n)
  BY <1>2, <1>4, <1>5, GaplessPing
<1>. QED  BY <1>1, <1>5, <1>6, ChunksPinged

LEMMA ChunksSend == ASSUME TerminalTypeOK, ChunksOK, Send PROVE ChunksOK'
<1>1. CASE loop' = "drop"
  <2>1. UNCHANGED <<reader, made, backlog, socket, got>> /\ sending' = Ping /\ Live
    BY <1>1 DEF Send, Live, pty, viewer
  <2>. QED  BY <1>1, <2>1, ChunksCut
<1>2. CASE loop' = "select" /\ socket' = Append(socket, sending)
  <2>1. UNCHANGED <<reader, made, backlog, got>> /\ sending' = Ping /\ Live /\ Live'
    BY <1>2 DEF Send, Live, pty, viewer
  <2>2. Shown' = (got \o Append(socket, sending)) \o (<<Ping>> \o backlog)
    BY <1>2, <2>1 DEF Shown, Live
  <2>3. Shown = (got \o Append(socket, sending)) \o backlog
    <3>1. Shown = Line(got, socket, sending, backlog)  BY <2>1, ShownIs DEF Line
    <3>2. /\ got \in Seq(Nat) /\ socket \in Seq(Nat) /\ backlog \in Seq(Nat)
          /\ sending \in Nat
      BY ShownIs
    <3>3. Whole(got, Append(socket, sending), backlog) = Line(got, socket, sending, backlog)
      BY <3>2, AppendBefore
    <3>. QED  BY <3>1, <3>3 DEF Whole
  <2>4. /\ got \o Append(socket, sending) \in Seq(Nat) /\ backlog \in Seq(Nat)
        /\ made \in Nat
    <3>1. got \in Seq(Nat) /\ Append(socket, sending) \in Seq(Nat)  BY ShownIs
    <3>. QED  BY <3>1, ShownIs
  <2>5. \A n \in Nat : Gapless(Shown, n) => Gapless(Shown', n)
    BY <2>2, <2>3, <2>4, GaplessPing
  <2>. QED  BY <1>2, <2>1, <2>4, <2>5, ChunksPinged
<1>. QED  BY <1>1, <1>2 DEF Send

LEMMA ChunksDeliver == ASSUME TerminalTypeOK, ChunksOK, Deliver PROVE ChunksOK'
<1>. DEFINE Rest == IF Live THEN <<sending>> \o backlog ELSE <<>>
<1>1. /\ socket # <<>> /\ socket' = Tail(socket)
      /\ got' = IF Head(socket) = Ping THEN got ELSE Append(got, Head(socket))
      /\ UNCHANGED <<reader, made, backlog, sending, loop>>
  BY DEF Deliver, pty
<1>2. Rest \in Seq(Nat) /\ Shown = (got \o socket) \o Rest /\ Shown' = (got' \o socket') \o Rest
  <2>1. Rest \in Seq(Nat)  BY ShownIs
  <2>. QED  BY <1>1, <2>1 DEF Shown, Live
<1>3. /\ Head(socket) \in Nat /\ Tail(socket) \in Seq(Nat)
      /\ got \o socket = Append(got, Head(socket)) \o Tail(socket)
      /\ got \o socket = got \o (<<Head(socket)>> \o Tail(socket))
  BY <1>1, ShownIs, HeadBehind
<1>. HIDE DEF Rest
<1>4. \A n \in 0 .. made : Gapless(Shown, n) => Gapless(Shown', n)
  <2>1. CASE Head(socket) # Ping  BY <1>1, <1>2, <1>3, <2>1
  <2>2. CASE Head(socket) = Ping
    <3>. DEFINE T == Tail(socket)
    <3>1. T \in Seq(Nat) /\ got \in Seq(Nat) /\ T \o Rest \in Seq(Nat)
      BY <1>2, <1>3, ShownIs
    <3>2. Shown = got \o (<<Ping>> \o (T \o Rest))
      <4>1. Shown = (got \o (<<Ping>> \o T)) \o Rest  BY <1>2, <1>3, <2>2
      <4>2. Rest \in Seq(Nat)  BY <1>2
      <4>. HIDE DEF T
      <4>3. (got \o (<<Ping>> \o T)) \o Rest = got \o (<<Ping>> \o (T \o Rest))
        BY <3>1, <4>2, PingInside
      <4>. QED  BY <4>1, <4>3
    <3>3. Shown' = got \o (T \o Rest)
      <4>1. Shown' = (got \o T) \o Rest  BY <1>1, <1>2, <2>2
      <4>2. Rest \in Seq(Nat)  BY <1>2
      <4>. HIDE DEF T
      <4>3. Rejoins(got, T, Rest)  BY <3>1, <4>2, ThreeLines
      <4>. QED  BY <4>1, <4>3 DEF Rejoins
    <3>. HIDE DEF T
    <3>4. \A n \in Nat : Gapless(Shown, n) => Gapless(Shown', n)
      BY <3>1, <3>2, <3>3, GaplessPing
    <3>. QED  BY <3>4
  <2>. QED  BY <2>1, <2>2
<1>5. NoHoles'
  <2>1. PICK n \in 0 .. made : Gapless(Shown, n)  BY DEF ChunksOK, NoHoles
  <2>. QED  BY <1>1, <1>4, <2>1 DEF NoHoles, Gapless, Increasing
<1>6. (Live /\ reader # "ended" => Gapless(Shown, made))'
  <2>1. made \in 0 .. made  BY ShownIs
  <2>2. Live /\ reader # "ended" => Gapless(Shown', made)  BY <1>4, <2>1 DEF ChunksOK
  <2>. QED  BY <1>1, <2>2 DEF Gapless, Increasing, Live
<1>. QED  BY <1>1, <1>5, <1>6 DEF ChunksOK

(* Every step keeps the line.                                              *)
LEMMA ChunksStep ==
  ASSUME TerminalTypeOK, ChunksOK, [TerminalNext]_terminalVars PROVE ChunksOK'
<1>1. CASE \E ro \in BOOLEAN : Stream(ro)
  BY <1>1, ChunksSame DEF Stream, pty, Live, ChunksOK
<1>2. CASE Open
  <2>1. CASE loop' = "done"
    BY <1>2, <2>1, ChunksCut DEF Open, Live, viewer, ChunksOK
  <2>2. CASE loop' = "select"
    <3>1. /\ Live /\ Live' /\ reader = "none" /\ reader' = "reading" /\ sending = Ping
          /\ UNCHANGED <<made, backlog, sending, socket, got>>
      BY <1>2, <2>2 DEF Open, Live, viewer, ChunksOK
    <3>2. Shown' = Shown  BY <3>1 DEF Shown, Live
    <3>3. Gapless(Shown, made) /\ NoHoles  BY <3>1 DEF ChunksOK
    <3>. QED  BY <2>2, <3>1, <3>2, <3>3 DEF ChunksOK, NoHoles, Gapless, Increasing
  <2>. QED  BY <1>2, <2>1, <2>2 DEF Open
<1>3. CASE ReadChunk  BY <1>3, ChunksRead
<1>4. CASE ReadEof
  <2>1. Shown' = Shown /\ UNCHANGED <<loop, made, sending>> /\ reader' = "ended" /\ reader = "reading"
    BY <1>4 DEF ReadEof, Shown, Live, viewer
  <2>. QED  BY <2>1 DEF ChunksOK, NoHoles, Gapless, Increasing
<1>5. CASE AttachEnds  BY <1>5, ChunksSame DEF AttachEnds, viewer, Live, ChunksOK
<1>6. CASE Tick
  <2>1. Shown' = Shown /\ UNCHANGED <<reader, made, sending>> /\ loop' = "send" /\ Live /\ sending = Ping
    BY <1>6 DEF Tick, Begin, Shown, Live, viewer, pty, ChunksOK
  <2>. QED  BY <2>1 DEF ChunksOK, NoHoles, Gapless, Increasing, Live
<1>7. CASE Output  BY <1>7, ChunksOutput
<1>8. CASE OutputEnds
  BY <1>8, ChunksCut DEF OutputEnds, Live, viewer, pty, ChunksOK
<1>9. CASE Take
  <2>1. UNCHANGED <<reader, made, backlog, sending, socket, got>> /\ Live /\ sending = Ping
    BY <1>9 DEF Take, Live, viewer, pty, ChunksOK
  <2>2. CASE loop' = "drop"  BY <2>1, <2>2, ChunksCut
  <2>3. CASE loop' # "drop"
    <3>1. loop' \in {"select", "type"}  BY <1>9, <2>3 DEF Take
    <3>. QED  BY <2>1, <3>1, ChunksSame DEF Live
  <2>. QED  BY <2>2, <2>3
<1>10. CASE TakeError
  BY <1>10, ChunksCut DEF TakeError, Live, viewer, pty, ChunksOK
<1>11. CASE Type
  <2>1. UNCHANGED <<reader, made, backlog, sending, socket, got>> /\ Live /\ sending = Ping
    BY <1>11 DEF Type, Live, viewer, pty, ChunksOK
  <2>2. CASE loop' = "drop"  BY <2>1, <2>2, ChunksCut
  <2>3. CASE loop' = "select"  BY <2>1, <2>3, ChunksSame DEF Live
  <2>. QED  BY <1>11, <2>2, <2>3 DEF Type
<1>12. CASE Send  BY <1>12, ChunksSend
<1>13. CASE DropAttachment
  <2>1. /\ UNCHANGED <<reader, made, sending, socket, got>> /\ loop' = "done"
        /\ Shown' = Shown /\ sending = Ping
    BY <1>13 DEF DropAttachment, Shown, Live, viewer, ChunksOK
  <2>. QED  BY <1>13, <2>1 DEF ChunksOK, NoHoles, Gapless, Increasing, Live
<1>14. CASE Deliver  BY <1>14, ChunksDeliver
<1>15. CASE SendKey \/ \E b \in BOOLEAN : SetReadOnly(b)
  BY <1>15, ChunksSame DEF SendKey, SetReadOnly, Says, pty, ChunksOK, Live
<1>16. CASE Leave  BY <1>16, ChunksSame DEF Leave, Says, pty, ChunksOK, Live
<1>17. CASE Stall \/ Vanish \/ TcpGivesUp
  BY <1>17, ChunksSame DEF Stall, Vanish, TcpGivesUp, pty, viewer, ChunksOK, Live
<1>18. CASE SessionEnds \/ RowEnds
  BY <1>18, ChunksSame DEF SessionEnds, RowEnds, pty, viewer, ChunksOK, Live
<1>19. CASE UNCHANGED terminalVars
  BY <1>19, ChunksSame DEF terminalVars, pty, viewer, ChunksOK, Live
<1>. QED
  BY <1>1, <1>2, <1>3, <1>4, <1>5, <1>6, <1>7, <1>8, <1>9, <1>10, <1>11, <1>12, <1>13, <1>14,
     <1>15, <1>16, <1>17, <1>18, <1>19
  DEF TerminalNext

-----------------------------------------------------------------------------
(* What the viewer sends                                                   *)

LEMMA IncomingIs ==
  ASSUME NEW message \in Incoming
  PROVE  /\ message.kind \in {"key", "read_only", "close"}
         /\ message.kind = "key" => message.key \in 1 .. MaxSent
         /\ message.kind = "read_only" => message = ReadOnly(message.value) /\ message.value \in BOOLEAN
BY DEF Incoming, Key, ReadOnly, Close

LEMMA WishIs ==
  ASSUME NEW b \in BOOLEAN
  PROVE  /\ ReadOnly(b) \in Incoming /\ ReadOnly(b).kind = "read_only" /\ ReadOnly(b).kind # "key"
         /\ ReadOnly(b) = ReadOnly(FALSE) <=> ~ b
         /\ ReadOnly(b).value = b
BY DEF Incoming, ReadOnly

(* What is sent goes behind what is there, on both sides.                  *)
LEMMA InboxSays ==
  ASSUME TerminalTypeOK, InboxOK, NEW message \in Incoming, Says(message),
         message.kind = "key" => message.key = Len(sent)
  PROVE  InboxOK' /\ Taken' = Taken
<1>1. /\ sent \in Seq(Incoming) /\ inbox \in Seq(Incoming) /\ loop # "off" /\ loop' = loop
      /\ sent' = Append(sent, message) /\ inbox' = Append(inbox, message)
  BY DEF TerminalTypeOK, Says
<1>2. /\ Len(sent') = Len(sent) + 1 /\ Len(inbox') = Len(inbox) + 1
      /\ Len(sent) \in Nat /\ Len(inbox) \in Nat
      /\ DOMAIN sent = 1 .. Len(sent) /\ DOMAIN inbox = 1 .. Len(inbox)
      /\ DOMAIN sent' = 1 .. Len(sent) + 1 /\ DOMAIN inbox' = 1 .. Len(inbox) + 1
      /\ \A i \in 1 .. Len(sent) : sent'[i] = sent[i]
      /\ sent'[Len(sent) + 1] = message
      /\ \A i \in 1 .. Len(inbox) : inbox'[i] = inbox[i]
      /\ inbox'[Len(inbox) + 1] = message
  BY <1>1
<1>3. Taken' = Taken /\ Taken \in Int /\ Taken >= 1 /\ Taken + Len(inbox) = Len(sent)
  BY <1>1, <1>2 DEF Taken, InboxOK
<1>4. sent'[1].kind = "read_only"  BY <1>1, <1>2, <1>3 DEF InboxOK
<1>5. \A i \in 1 .. Len(inbox) + 1 : inbox'[i] = sent'[Taken + i]
  <2>. TAKE i \in 1 .. Len(inbox) + 1
  <2>1. CASE i = Len(inbox) + 1
    <3>1. Taken + i = Len(sent) + 1  BY <1>2, <1>3, <2>1
    <3>. QED  BY <1>2, <2>1, <3>1
  <2>2. CASE i # Len(inbox) + 1
    <3>1. i \in 1 .. Len(inbox) /\ Taken + i \in 1 .. Len(sent)  BY <1>2, <1>3, <2>2
    <3>2. inbox[i] = sent[Taken + i]  BY <1>2, <3>1 DEF InboxOK
    <3>. QED  BY <1>2, <3>1, <3>2
  <2>. QED  BY <2>1, <2>2
<1>6. \A i \in 1 .. Len(sent) + 1 : sent'[i].kind = "key" => sent'[i].key = i - 1
  <2>. TAKE i \in 1 .. Len(sent) + 1
  <2>1. CASE i = Len(sent) + 1  BY <1>2, <2>1
  <2>2. CASE i # Len(sent) + 1
    <3>1. i \in 1 .. Len(sent) /\ i \in DOMAIN sent  BY <1>2, <2>2
    <3>2. sent[i].kind = "key" => sent[i].key = i - 1  BY <3>1 DEF InboxOK
    <3>. QED  BY <1>2, <3>1, <3>2
  <2>. QED  BY <2>1, <2>2
<1>7. \A i \in DOMAIN inbox' : inbox'[i] = sent'[Taken' + i]  BY <1>2, <1>3, <1>5
<1>8. \A i \in DOMAIN sent' : sent'[i].kind = "key" => sent'[i].key = i - 1  BY <1>2, <1>6
<1>9. Taken' >= 1  BY <1>3
<1>. QED  BY <1>1, <1>2, <1>3, <1>4, <1>7, <1>8, <1>9 DEF InboxOK

(* The loop takes what is next.                                            *)
LEMMA InboxTaken ==
  ASSUME TerminalTypeOK, InboxOK, inbox # <<>>, inbox' = Tail(inbox), sent' = sent,
         loop # "off", loop' # "off"
  PROVE  /\ InboxOK' /\ Taken' = Taken + 1 /\ Taken \in Nat /\ Taken + 1 \in 1 .. Len(sent)
         /\ Head(inbox) = sent[Taken + 1] /\ inbox[1] = sent[Taken + 1]
         /\ sent[Taken + 1] \in Incoming
<1>1. /\ sent \in Seq(Incoming) /\ inbox \in Seq(Incoming)
  BY DEF TerminalTypeOK
<1>2. /\ Len(inbox') = Len(inbox) - 1 /\ Len(sent) \in Nat /\ Len(inbox) \in Nat /\ Len(inbox) >= 1
      /\ DOMAIN sent = 1 .. Len(sent) /\ DOMAIN inbox = 1 .. Len(inbox)
      /\ DOMAIN inbox' = 1 .. Len(inbox) - 1
      /\ \A i \in 1 .. Len(inbox) - 1 : inbox'[i] = inbox[i + 1]
      /\ Head(inbox) = inbox[1]
  BY <1>1
<1>3. Taken' = Taken + 1 /\ Taken \in Int /\ Taken >= 1 /\ Taken + Len(inbox) = Len(sent)
  BY <1>2 DEF Taken, InboxOK
<1>4. \A i \in 1 .. Len(inbox) - 1 : inbox'[i] = sent[Taken' + i]
  <2>. TAKE i \in 1 .. Len(inbox) - 1
  <2>1. i + 1 \in DOMAIN inbox /\ Taken + (i + 1) = Taken' + i  BY <1>2, <1>3
  <2>2. inbox[i + 1] = sent[Taken + (i + 1)]  BY <2>1 DEF InboxOK
  <2>. QED  BY <1>2, <2>1, <2>2
<1>5. InboxOK'
  <2>1. \A i \in DOMAIN inbox' : inbox'[i] = sent'[Taken' + i]  BY <1>2, <1>4
  <2>2. Taken' >= 1  BY <1>3
  <2>3. sent'[1].kind = "read_only"  BY DEF InboxOK
  <2>4. \A i \in DOMAIN sent' : sent'[i].kind = "key" => sent'[i].key = i - 1  BY DEF InboxOK
  <2>. QED  BY <2>1, <2>2, <2>3, <2>4 DEF InboxOK
<1>6. inbox[1] = sent[Taken + 1]
  <2>1. 1 \in DOMAIN inbox  BY <1>2
  <2>. QED  BY <2>1 DEF InboxOK
<1>7. Taken + 1 \in 1 .. Len(sent)  BY <1>2, <1>3
<1>8. sent[Taken + 1] \in Incoming  BY <1>1, <1>7
<1>. QED  BY <1>2, <1>3, <1>5, <1>6, <1>7, <1>8

-----------------------------------------------------------------------------
(* Wishes, and the keys they allow                                         *)

(* What a viewer wanted does not change with what it sends later.          *)
LEMMA WishStays ==
  ASSUME NEW n \in Nat, \A i \in 1 .. n : sent'[i] = sent[i], NEW b \in BOOLEAN
  PROVE  LastWish(n, b)' <=> LastWish(n, b)
<1>1. \A w \in 1 .. n : \A j \in w + 1 .. n : j \in 1 .. n  OBVIOUS
<1>2. LastWish(n, b)' <=> \E w \in 1 .. n : /\ sent'[w] = ReadOnly(b)
                            /\ \A j \in w + 1 .. n : sent'[j].kind # "read_only"
  BY DEF LastWish, ReadOnly
<1>. QED  BY <1>1, <1>2 DEF LastWish

LEMMA AllowedStays ==
  ASSUME NEW n \in Nat, \A i \in 1 .. n : sent'[i] = sent[i]
  PROVE  Allowed(n)' = Allowed(n)
<1>1. ASSUME NEW i \in 1 .. n PROVE WantedToType(i)' <=> WantedToType(i)
  <2>1. i - 1 \in Nat /\ \A j \in 1 .. i - 1 : sent'[j] = sent[j]  OBVIOUS
  <2>2. LastWish(i - 1, FALSE)' <=> LastWish(i - 1, FALSE)  BY <2>1, WishStays
  <2>. QED  BY <2>2 DEF WantedToType
<1>. QED  BY <1>1 DEF Allowed

(* There is one last wish.                                                 *)
LEMMA WishIsOne ==
  ASSUME NEW n \in Nat, LastWish(n, TRUE), LastWish(n, FALSE) PROVE FALSE
<1>1. PICK w \in 1 .. n : sent[w] = ReadOnly(TRUE)
                          /\ \A j \in w + 1 .. n : sent[j].kind # "read_only"
  BY DEF LastWish
<1>2. PICK v \in 1 .. n : sent[v] = ReadOnly(FALSE)
                          /\ \A j \in v + 1 .. n : sent[j].kind # "read_only"
  BY DEF LastWish
<1>3. sent[w].kind = "read_only" /\ sent[v].kind = "read_only" /\ sent[w] # sent[v]
  BY <1>1, <1>2, WishIs
<1>4. w = v \/ w \in v + 1 .. n \/ v \in w + 1 .. n  OBVIOUS
<1>. QED  BY <1>1, <1>2, <1>3, <1>4

(* One more message.                                                       *)
LEMMA WishNext ==
  ASSUME NEW n \in Nat, sent[n + 1] \in Incoming, NEW b \in BOOLEAN,
         \/ LastWish(n, b) /\ sent[n + 1].kind # "read_only"
         \/ sent[n + 1].kind = "read_only" /\ b = sent[n + 1].value
  PROVE  LastWish(n + 1, b)
<1>1. CASE LastWish(n, b) /\ sent[n + 1].kind # "read_only"
  <2>1. PICK w \in 1 .. n : sent[w] = ReadOnly(b)
                            /\ \A j \in w + 1 .. n : sent[j].kind # "read_only"
    BY <1>1 DEF LastWish
  <2>2. w \in 1 .. n + 1 /\ \A j \in w + 1 .. n + 1 : j \in w + 1 .. n \/ j = n + 1  OBVIOUS
  <2>. QED  BY <1>1, <2>1, <2>2 DEF LastWish
<1>2. CASE sent[n + 1].kind = "read_only" /\ b = sent[n + 1].value
  <2>1. sent[n + 1] = ReadOnly(b)  BY <1>2, IncomingIs
  <2>2. n + 1 \in 1 .. n + 1 /\ (n + 1) + 1 .. n + 1 = {}  OBVIOUS
  <2>. QED  BY <2>1, <2>2 DEF LastWish
<1>. QED  BY <1>1, <1>2

LEMMA AllowedNext ==
  ASSUME NEW n \in Nat
  PROVE  Allowed(n + 1) = Allowed(n) \cup (IF WantedToType(n + 1) THEN {sent[n + 1].key} ELSE {})
<1>1. 1 .. n + 1 = 1 .. n \cup {n + 1}  OBVIOUS
<1>. QED  BY <1>1 DEF Allowed

LEMMA AllowedNone == Allowed(0) = {}
BY DEF Allowed

(* Nothing is taken, and nothing typed.                                    *)
LEMMA TypedSame ==
  ASSUME TypedOK, Taken \in Nat, typed' = typed, Taken' = Taken, Live' => Live,
         \A i \in 1 .. Taken : sent'[i] = sent[i],
         loop' = "type" => inbox' # <<>> /\ inbox'[1].kind = "key" /\ ~ readOnly'
  PROVE  TypedOK'
<1>1. \A n \in 0 .. Taken : Allowed(n)' = Allowed(n)
  <2>. TAKE n \in 0 .. Taken
  <2>1. n \in Nat /\ \A i \in 1 .. n : sent'[i] = sent[i]  OBVIOUS
  <2>. QED  BY <2>1, AllowedStays
<1>2. Live' => Range(typed') = Allowed(Taken)'
  <2>1. Taken \in 0 .. Taken  OBVIOUS
  <2>2. Live => Range(typed) = Allowed(Taken)  BY DEF TypedOK
  <2>. QED  BY <2>2, <1>1, <2>1 DEF Allowed, WantedToType, LastWish
<1>3. \E n \in 0 .. Taken' : Range(typed') = Allowed(n)'
  <2>1. PICK n \in 0 .. Taken : Range(typed) = Allowed(n)  BY DEF TypedOK
  <2>. QED  BY <1>1, <2>1
<1>. QED  BY <1>2, <1>3 DEF TypedOK, Allowed, WantedToType, LastWish

(* The next message is taken, and nothing is typed.                        *)
LEMMA TypedPast ==
  ASSUME TypedOK, Taken \in Nat, typed' = typed, sent' = sent, Taken' = Taken + 1,
         Live' => Live /\ ~ WantedToType(Taken + 1), loop' # "type"
  PROVE  TypedOK'
<1>1. \A n : Allowed(n)' = Allowed(n)  BY DEF Allowed, WantedToType, LastWish, ReadOnly
<1>2. ASSUME Live' PROVE Range(typed') = Allowed(Taken + 1)
  <2>1. Allowed(Taken + 1) = Allowed(Taken)  BY <1>2, AllowedNext
  <2>. QED  BY <1>2, <2>1 DEF TypedOK
<1>3. PICK n \in 0 .. Taken : Range(typed) = Allowed(n)  BY DEF TypedOK
<1>4. n \in 0 .. Taken + 1  OBVIOUS
<1>. QED  BY <1>1, <1>2, <1>3, <1>4 DEF TypedOK, Allowed, WantedToType, LastWish

(* A key is typed: it was wanted, and it is above all before it.           *)
LEMMA TypedKey ==
  ASSUME TerminalTypeOK, InboxOK, WishOK, TypedOK, Type, child
  PROVE  loop' = "select" => TypedOK'
<1>. SUFFICES ASSUME loop' = "select" PROVE TypedOK'  OBVIOUS
<1>0. /\ loop = "type" /\ inbox # <<>> /\ inbox[1].kind = "key" /\ ~ readOnly
      /\ inbox' = Tail(inbox) /\ sent' = sent /\ Live
  BY DEF Type, TypedOK, Live, viewer
<1>1. /\ Taken' = Taken + 1 /\ Taken \in Nat /\ Taken + 1 \in 1 .. Len(sent)
      /\ Head(inbox) = sent[Taken + 1] /\ inbox[1] = sent[Taken + 1]
  BY <1>0, InboxTaken
<1>2. typed' = Append(typed, sent[Taken + 1].key)  BY <1>1 DEF Type
<1>3. sent[Taken + 1].kind = "key" /\ sent[Taken + 1].key = Taken
  <2>1. Taken + 1 \in DOMAIN sent  BY <1>1 DEF TerminalTypeOK
  <2>. QED  BY <1>0, <1>1, <2>1 DEF InboxOK
<1>4. WantedToType(Taken + 1)
  <2>1. readOnly = FALSE /\ (Taken + 1) - 1 = Taken  BY <1>0, <1>1 DEF TerminalTypeOK
  <2>2. LastWish(Taken, FALSE)  BY <1>0, <2>1 DEF WishOK
  <2>. QED  BY <1>3, <2>1, <2>2 DEF WantedToType
<1>5. Range(typed) = Allowed(Taken)  BY <1>0 DEF TypedOK
<1>6. typed \in Seq(Nat)  BY TerminalBounds DEF TerminalTypeOK
<1>7. \A i \in 1 .. Len(typed) : typed[i] < Taken
  <2>. TAKE i \in 1 .. Len(typed)
  <2>1. typed[i] \in Allowed(Taken)  BY <1>5, <1>6 DEF Range
  <2>2. PICK j \in 1 .. Taken : typed[i] = sent[j].key /\ WantedToType(j)
    BY <2>1 DEF Allowed
  <2>3. j \in DOMAIN sent  BY <1>1, <2>2 DEF TerminalTypeOK
  <2>4. sent[j].key = j - 1  BY <2>2, <2>3 DEF InboxOK, WantedToType
  <2>. QED  BY <1>1, <2>2, <2>4
<1>8. /\ Len(typed') = Len(typed) + 1 /\ typed'[Len(typed) + 1] = Taken /\ Len(typed) \in Nat
      /\ \A i \in 1 .. Len(typed) : typed'[i] = typed[i]
      /\ DOMAIN typed' = 1 .. Len(typed) + 1 /\ DOMAIN typed = 1 .. Len(typed)
  BY <1>1, <1>2, <1>3, <1>6
<1>9. \A i, j \in 1 .. Len(typed) + 1 : i < j => typed'[i] < typed'[j]
  <2>. TAKE i, j \in 1 .. Len(typed) + 1
  <2>. SUFFICES ASSUME i < j PROVE typed'[i] < typed'[j]  OBVIOUS
  <2>1. i \in 1 .. Len(typed)  BY <1>8
  <2>2. CASE j = Len(typed) + 1  BY <1>7, <1>8, <2>1, <2>2
  <2>3. CASE j # Len(typed) + 1
    <3>1. j \in 1 .. Len(typed)  BY <1>8, <2>3
    <3>2. typed[i] < typed[j]  BY <1>8, <2>1, <3>1 DEF TypedOK
    <3>. QED  BY <1>8, <2>1, <3>1, <3>2
  <2>. QED  BY <2>2, <2>3
<1>10. Range(typed') = Range(typed) \cup {Taken}
  <2>1. 1 .. Len(typed) + 1 = 1 .. Len(typed) \cup {Len(typed) + 1}  BY <1>8
  <2>. QED  BY <1>8, <2>1 DEF Range
<1>11. \A n : Allowed(n)' = Allowed(n)  BY <1>0 DEF Allowed, WantedToType, LastWish, ReadOnly
<1>12. Range(typed') = Allowed(Taken + 1)
  BY <1>1, <1>3, <1>4, <1>5, <1>10, AllowedNext
<1>13. Taken + 1 \in 0 .. Taken + 1  BY <1>1
<1>. QED
  BY <1>1, <1>8, <1>9, <1>11, <1>12, <1>13 DEF TypedOK, Allowed, WantedToType, LastWish

(* Every step keeps what the loop has taken, held and typed.               *)
LEMMA KeysStep ==
  ASSUME TerminalTypeOK, InboxOK, WishOK, TypedOK, [TerminalNext]_terminalVars
  PROVE  InboxOK' /\ WishOK' /\ TypedOK'
<1>t. /\ sent \in Seq(Incoming) /\ inbox \in Seq(Incoming) /\ Taken \in Int
      /\ readOnly \in BOOLEAN /\ Taken <= Len(sent)
  BY DEF TerminalTypeOK, Taken
<1>n. Taken \in Nat
  <2>1. CASE loop = "off"  BY <2>1 DEF InboxOK, Taken
  <2>2. CASE loop # "off"  BY <1>t, <2>2 DEF InboxOK
  <2>. QED  BY <2>1, <2>2
<1>a. ASSUME UNCHANGED <<sent, inbox, typed, readOnly>>, loop' = "off" <=> loop = "off",
             Live' => Live, loop' = "type" => loop = "type"
      PROVE  InboxOK' /\ WishOK' /\ TypedOK'
  <2>1. Taken' = Taken  BY <1>a DEF Taken
  <2>2. InboxOK'  BY <1>a, <2>1 DEF InboxOK
  <2>3. WishOK'  BY <1>a, <2>1 DEF WishOK, LastWish, ReadOnly
  <2>4. loop' = "type" => inbox' # <<>> /\ inbox'[1].kind = "key" /\ ~ readOnly'
    BY <1>a DEF TypedOK
  <2>5. TypedOK'  BY <1>a, <1>n, <2>1, <2>4, TypedSame
  <2>. QED  BY <2>2, <2>3, <2>5
<1>b. ASSUME NEW message \in Incoming, Says(message),
             message.kind = "key" => message.key = Len(sent)
      PROVE  InboxOK' /\ WishOK' /\ TypedOK'
  <2>1. InboxOK' /\ Taken' = Taken  BY <1>b, InboxSays
  <2>2. /\ sent' = Append(sent, message) /\ inbox' = Append(inbox, message) /\ loop' = loop
        /\ UNCHANGED <<readOnly, typed>>
    BY <1>b DEF Says
  <2>3. \A i \in 1 .. Taken : sent'[i] = sent[i]
    BY <1>t, <1>n, <2>2
  <2>4. WishOK'
    <3>1. LastWish(Taken, readOnly)' <=> LastWish(Taken, readOnly)
      <4>1. \A b \in BOOLEAN : LastWish(Taken, b) <=> \E w \in 1 .. Taken : sent'[w] = ReadOnly(b)
                            /\ \A j \in w + 1 .. Taken : sent'[j].kind # "read_only"
        <5>1. \A w \in 1 .. Taken : \A j \in w + 1 .. Taken : j \in 1 .. Taken  BY <1>n
        <5>. QED  BY <2>3, <5>1 DEF LastWish
      <4>. QED  BY <1>t, <2>1, <2>2, <4>1 DEF LastWish, ReadOnly
    <3>. QED  BY <2>2, <3>1 DEF WishOK
  <2>5. loop' = "type" => inbox' # <<>> /\ inbox'[1].kind = "key" /\ ~ readOnly'
    <3>. SUFFICES ASSUME loop' = "type"
                  PROVE  inbox' # <<>> /\ inbox'[1].kind = "key" /\ ~ readOnly'
      OBVIOUS
    <3>1. inbox # <<>> /\ inbox[1].kind = "key" /\ ~ readOnly  BY <2>2 DEF TypedOK
    <3>2. inbox' # <<>> /\ inbox'[1] = inbox[1]  BY <1>t, <2>2, <3>1
    <3>. QED  BY <2>2, <3>1, <3>2
  <2>6. TypedOK'  BY <1>n, <2>1, <2>2, <2>3, <2>5, TypedSame DEF Live
  <2>. QED  BY <2>1, <2>4, <2>6
<1>1. ASSUME NEW ro \in BOOLEAN, Stream(ro) PROVE InboxOK' /\ WishOK' /\ TypedOK'
  <2>1. /\ loop = "off" /\ sent = <<>> /\ inbox = <<>> /\ loop' = "upgrade" /\ readOnly' = ro
        /\ sent' = <<ReadOnly(ro)>> /\ inbox' = <<>> /\ typed' = typed
    BY <1>1 DEF Stream, InboxOK
  <2>2. /\ Taken = 0 /\ Taken' = 1 /\ DOMAIN sent' = {1} /\ sent'[1] = ReadOnly(ro)
        /\ DOMAIN inbox' = {}
    BY <2>1 DEF Taken
  <2>3. ReadOnly(ro).kind = "read_only"  BY WishIs
  <2>4. InboxOK'  BY <2>1, <2>2, <2>3 DEF InboxOK
  <2>5. WishOK'
    <3>1. 1 \in 1 .. 1 /\ 1 + 1 .. 1 = {}  OBVIOUS
    <3>. QED  BY <2>1, <2>2, <3>1 DEF WishOK, LastWish, ReadOnly
  <2>6. TypedOK'
    <3>1. Live  BY <2>1 DEF Live
    <3>2. Range(typed) = Allowed(0)  BY <2>2, <3>1 DEF TypedOK
    <3>3. Allowed(1)' = {}
      <4>1. 1 .. 1 = {1}  OBVIOUS
      <4>2. ~ WantedToType(1)'  BY <2>2, <2>3 DEF WantedToType
      <4>. QED  BY <4>1, <4>2 DEF Allowed
    <3>4. Range(typed') = Allowed(1)'  BY <2>1, <3>2, <3>3, AllowedNone
    <3>5. 1 \in 0 .. 1  OBVIOUS
    <3>. QED
      BY <2>1, <2>2, <3>4, <3>5 DEF TypedOK, Allowed, WantedToType, LastWish
  <2>. QED  BY <2>4, <2>5, <2>6
<1>2. CASE Open  BY <1>2, <1>a DEF Open, viewer, Live
<1>3. CASE ReadChunk \/ ReadEof \/ AttachEnds
  BY <1>3, <1>a DEF ReadChunk, ReadEof, AttachEnds, viewer, Live
<1>4. CASE Tick \/ Output \/ OutputEnds \/ TakeError
  BY <1>4, <1>a DEF Tick, Output, Begin, OutputEnds, TakeError, viewer, Live
<1>5. CASE Take
  <2>0. /\ loop = "select" /\ inbox # <<>> /\ Live /\ UNCHANGED <<sent, typed>>
        /\ Head(inbox) = inbox[1]
    BY <1>5, <1>t DEF Take, Live, viewer
  <2>w. LastWish(Taken, readOnly)  BY <2>0 DEF WishOK
  <2>s. \A n, b : LastWish(n, b)' <=> LastWish(n, b)  BY <2>0 DEF LastWish, ReadOnly
  <2>1. CASE inbox[1].kind = "key" /\ readOnly
    <3>1. inbox' = Tail(inbox) /\ loop' = "select" /\ readOnly' = readOnly
      BY <1>5, <2>0, <2>1 DEF Take
    <3>2. /\ InboxOK' /\ Taken' = Taken + 1 /\ inbox[1] = sent[Taken + 1]
          /\ sent[Taken + 1] \in Incoming
      BY <2>0, <3>1, InboxTaken
    <3>3. readOnly = TRUE /\ (Taken + 1) - 1 = Taken  BY <1>t, <2>1
    <3>4. LastWish(Taken + 1, readOnly)  BY <1>n, <1>t, <2>1, <2>w, <3>2, WishNext
    <3>5. WishOK'  BY <3>1, <3>2, <3>4 , <2>0 DEF WishOK, LastWish, ReadOnly
    <3>6. ~ WantedToType(Taken + 1)
      BY <1>n, <2>w, <3>3, WishIsOne DEF WantedToType
    <3>7. TypedOK'  BY <1>n, <2>0, <3>1, <3>2, <3>6, TypedPast
    <3>. QED  BY <3>2, <3>5, <3>7
  <2>2. CASE inbox[1].kind = "key" /\ ~ readOnly
    <3>1. loop' = "type" /\ UNCHANGED <<inbox, readOnly>>  BY <1>5, <2>0, <2>2 DEF Take
    <3>2. Taken' = Taken /\ Live'  BY <2>0, <3>1 DEF Taken, Live
    <3>3. InboxOK'  BY <2>0, <3>1, <3>2 DEF InboxOK
    <3>4. WishOK'  BY <2>0, <2>w, <3>1, <3>2 DEF WishOK, LastWish, ReadOnly
    <3>5. TypedOK'  BY <1>n, <2>0, <2>2, <3>1, <3>2, TypedSame
    <3>. QED  BY <3>3, <3>4, <3>5
  <2>3. CASE inbox[1].kind = "read_only"
    <3>1. inbox' = Tail(inbox) /\ loop' = "select" /\ readOnly' = inbox[1].value
      BY <1>5, <2>0, <2>3 DEF Take
    <3>2. /\ InboxOK' /\ Taken' = Taken + 1 /\ inbox[1] = sent[Taken + 1]
          /\ sent[Taken + 1] \in Incoming
      BY <2>0, <3>1, InboxTaken
    <3>3. readOnly' \in BOOLEAN  BY <2>3, <3>1, <3>2, IncomingIs
    <3>4. LastWish(Taken + 1, sent[Taken + 1].value)
      <4>1. sent[Taken + 1].value \in BOOLEAN  BY <3>1, <3>2, <3>3
      <4>. QED  BY <1>n, <2>3, <3>2, <4>1, WishNext
    <3>5. WishOK'  BY <2>0, <3>1, <3>2, <3>4 DEF WishOK, LastWish, ReadOnly
    <3>6. ~ WantedToType(Taken + 1)  BY <2>3, <3>2 DEF WantedToType
    <3>7. TypedOK'  BY <1>n, <2>0, <3>1, <3>2, <3>6, TypedPast
    <3>. QED  BY <3>2, <3>5, <3>7
  <2>4. CASE inbox[1].kind = "close"
    <3>1. loop' = "drop" /\ UNCHANGED <<inbox, readOnly>>  BY <1>5, <2>0, <2>4 DEF Take
    <3>. QED  BY <1>a, <2>0, <3>1 DEF Live
  <2>. QED  BY <1>5, <2>0, <2>1, <2>2, <2>3, <2>4 DEF Take
<1>6. CASE Type
  <2>0. /\ loop = "type" /\ inbox # <<>> /\ inbox[1].kind = "key" /\ ~ readOnly
        /\ inbox' = Tail(inbox) /\ UNCHANGED <<sent, readOnly>> /\ loop' \in {"select", "drop"}
    BY <1>6 DEF Type, TypedOK, viewer
  <2>1. /\ InboxOK' /\ Taken' = Taken + 1 /\ inbox[1] = sent[Taken + 1]
        /\ sent[Taken + 1] \in Incoming
    BY <2>0, InboxTaken
  <2>2. LastWish(Taken, readOnly)  BY <2>0 DEF WishOK
  <2>3. LastWish(Taken + 1, readOnly)  BY <1>n, <1>t, <2>0, <2>1, <2>2, WishNext
  <2>4. WishOK'  BY <2>0, <2>1, <2>3 DEF WishOK, LastWish, ReadOnly
  <2>5. CASE child /\ loop' = "select"  BY <1>6, <2>1, <2>4, <2>5, TypedKey
  <2>6. CASE loop' = "drop" /\ typed' = typed
    <3>1. TypedOK'  BY <1>n, <2>0, <2>1, <2>6, TypedPast DEF Live
    <3>. QED  BY <2>1, <2>4, <3>1
  <2>. QED  BY <1>6, <2>5, <2>6 DEF Type
<1>7. CASE Send \/ DropAttachment
  BY <1>7, <1>a DEF Send, DropAttachment, viewer, Live
<1>8. CASE Deliver  BY <1>8, <1>a DEF Deliver, Live
<1>9. CASE SendKey
  <2>1. Says(Key(Len(sent))) /\ Key(Len(sent)).kind = "key" /\ Key(Len(sent)).key = Len(sent)
    BY <1>9 DEF SendKey, Key
  <2>2. Len(sent) \in 1 .. MaxSent
    BY <1>t, <2>1, TerminalBounds DEF Says, InboxOK, Taken
  <2>3. Key(Len(sent)) \in Incoming  BY <2>2 DEF Incoming
  <2>. QED  BY <1>b, <2>1, <2>3
<1>10. ASSUME NEW b \in BOOLEAN, SetReadOnly(b) PROVE InboxOK' /\ WishOK' /\ TypedOK'
  BY <1>b, <1>10, WishIs DEF SetReadOnly
<1>11. CASE Leave
  <2>1. Close \in Incoming /\ Close.kind # "key" /\ Says(Close)
    BY <1>11 DEF Leave, Close, Incoming
  <2>. QED  BY <1>b, <2>1
<1>12. CASE Stall \/ Vanish \/ TcpGivesUp \/ SessionEnds \/ RowEnds
  BY <1>12, <1>a DEF Stall, Vanish, TcpGivesUp, SessionEnds, RowEnds, viewer, Live
<1>13. CASE UNCHANGED terminalVars  BY <1>13, <1>a DEF terminalVars, viewer, Live
<1>. QED
  BY <1>1, <1>2, <1>3, <1>4, <1>5, <1>6, <1>7, <1>8, <1>9, <1>10, <1>11, <1>12, <1>13
  DEF TerminalNext

-----------------------------------------------------------------------------
(* Every variable keeps its type.                                          *)
LEMMA TerminalTypeStep ==
  ASSUME TerminalTypeOK, ChunksOK, InboxOK, TypedOK, [TerminalNext]_terminalVars
  PROVE  TerminalTypeOK'
<1>0. /\ BACKLOG \in Nat /\ Window \in Nat /\ MaxChunk \in Nat /\ MaxSent \in Nat
      /\ sent \in Seq(Incoming) /\ inbox \in Seq(Incoming)
  BY TerminalBounds DEF TerminalTypeOK
<1>. USE DEF TerminalTypeOK
<1>1. ASSUME NEW ro \in BOOLEAN, Stream(ro) PROVE TerminalTypeOK'
  <2>1. ReadOnly(ro) \in Incoming  BY WishIs
  <2>. QED  BY <1>1, <2>1 DEF Stream, pty
<1>2. CASE Open  BY <1>2 DEF Open, viewer
<1>3. CASE ReadChunk
  <2>1. made' \in 1 .. MaxChunk /\ made' \in 0 .. MaxChunk  BY <1>0, <1>3 DEF ReadChunk
  <2>2. backlog' \in Seq(1 .. MaxChunk) /\ Len(backlog') <= BACKLOG
    <3>1. backlog \in Seq(1 .. MaxChunk) /\ Len(backlog) \in Nat /\ Len(backlog) <= BACKLOG
      OBVIOUS
    <3>2. Append(backlog, made') \in Seq(1 .. MaxChunk)
          /\ Len(Append(backlog, made')) = Len(backlog) + 1
      BY <2>1, <3>1, AppendProperties
    <3>3. CASE backlog' = backlog  BY <3>1, <3>3
    <3>4. CASE backlog' = Append(backlog, made') /\ Len(backlog) < BACKLOG
      BY <1>0, <3>1, <3>2, <3>4
    <3>. QED  BY <1>3, <3>3, <3>4 DEF ReadChunk
  <2>. QED  BY <1>3, <2>1, <2>2 DEF ReadChunk, viewer
<1>4. CASE ReadEof \/ AttachEnds  BY <1>4 DEF ReadEof, AttachEnds, viewer
<1>5. CASE Tick \/ OutputEnds \/ TakeError
  <2>1. CASE Tick
    <3>1. Ping \in 0 .. MaxChunk  BY <1>0 DEF Ping
    <3>. QED  BY <2>1, <3>1 DEF Tick, Begin, viewer, pty
  <2>2. CASE OutputEnds  BY <2>2 DEF OutputEnds, viewer, pty
  <2>3. CASE TakeError  BY <2>3 DEF TakeError, viewer, pty
  <2>. QED  BY <1>5, <2>1, <2>2, <2>3
<1>6. CASE Output
  <2>1. Head(backlog) \in 0 .. MaxChunk /\ Tail(backlog) \in Seq(1 .. MaxChunk)
        /\ Len(Tail(backlog)) <= BACKLOG
    <3>1. /\ backlog \in Seq(1 .. MaxChunk) /\ backlog # <<>> /\ Len(backlog) \in Nat
          /\ Len(backlog) <= BACKLOG
      BY <1>6 DEF Output
    <3>2. /\ Head(backlog) \in 1 .. MaxChunk /\ Tail(backlog) \in Seq(1 .. MaxChunk)
          /\ Len(Tail(backlog)) = Len(backlog) - 1
      BY <3>1, HeadTailProperties
    <3>. QED  BY <1>0, <3>1, <3>2
  <2>. QED  BY <1>6, <2>1 DEF Output, Begin, viewer
<1>7. CASE Take
  <2>1. inbox' \in Seq(Incoming)
    <3>1. inbox # <<>> /\ inbox' \in {inbox, Tail(inbox)}  BY <1>7 DEF Take
    <3>2. Tail(inbox) \in Seq(Incoming)  BY <1>0, <3>1, HeadTailProperties
    <3>. QED  BY <1>0, <3>1, <3>2
  <2>2. readOnly' \in BOOLEAN
    <3>1. inbox # <<>> /\ Head(inbox) \in Incoming  BY <1>0, <1>7 DEF Take
    <3>2. Head(inbox).kind = "read_only" => Head(inbox).value \in BOOLEAN  BY <3>1, IncomingIs
    <3>. QED  BY <1>7, <3>2 DEF Take
  <2>3. loop' \in {"select", "type", "drop"}  BY <1>7 DEF Take
  <2>. QED  BY <1>7, <2>1, <2>2, <2>3 DEF Take, viewer, pty
<1>8. CASE Type
  <2>1. inbox # <<>> /\ inbox[1].kind = "key" /\ inbox[1] \in Incoming /\ Head(inbox) = inbox[1]
    BY <1>0, <1>8 DEF Type, TypedOK
  <2>2. Head(inbox).key \in 1 .. MaxSent  BY <2>1, IncomingIs
  <2>3. typed' \in Seq(1 .. MaxSent)
    <3>1. typed' \in {typed, Append(typed, Head(inbox).key)}  BY <1>8 DEF Type
    <3>2. typed \in Seq(1 .. MaxSent)  OBVIOUS
    <3>3. Append(typed, Head(inbox).key) \in Seq(1 .. MaxSent)
      BY <2>2, <3>2, AppendProperties
    <3>. QED  BY <3>1, <3>2, <3>3
  <2>4. inbox' \in Seq(Incoming)  BY <1>0, <1>8, <2>1 DEF Type
  <2>. QED  BY <1>8, <2>3, <2>4 DEF Type, viewer, pty
<1>9. CASE Send
  <2>1. socket' \in Seq(0 .. MaxChunk) /\ Len(socket') <= Window
    <3>1. /\ socket \in Seq(0 .. MaxChunk) /\ Len(socket) \in Nat /\ Len(socket) <= Window
          /\ sending \in 0 .. MaxChunk
      OBVIOUS
    <3>2. Append(socket, sending) \in Seq(0 .. MaxChunk)
          /\ Len(Append(socket, sending)) = Len(socket) + 1
      BY <3>1, AppendProperties
    <3>3. CASE socket' = socket  BY <3>1, <3>3
    <3>4. CASE socket' = Append(socket, sending) /\ Len(socket) < Window
      BY <1>0, <3>1, <3>2, <3>4
    <3>. QED  BY <1>9, <3>3, <3>4 DEF Send
  <2>. QED  BY <1>0, <1>9, <2>1 DEF Send, Ping, viewer, pty
<1>10. CASE DropAttachment
  <2>1. <<>> \in Seq(1 .. MaxChunk) /\ Len(<<>>) = 0 /\ 0 <= BACKLOG  BY <1>0
  <2>. QED  BY <1>10, <2>1 DEF DropAttachment, viewer
<1>11. CASE Deliver
  <2>1. /\ Head(socket) \in 0 .. MaxChunk /\ Tail(socket) \in Seq(0 .. MaxChunk)
        /\ Len(Tail(socket)) <= Window
    <3>1. /\ socket \in Seq(0 .. MaxChunk) /\ socket # <<>> /\ Len(socket) \in Nat
          /\ Len(socket) <= Window
      BY <1>11 DEF Deliver
    <3>2. /\ Head(socket) \in 0 .. MaxChunk /\ Tail(socket) \in Seq(0 .. MaxChunk)
          /\ Len(Tail(socket)) = Len(socket) - 1
      BY <3>1, HeadTailProperties
    <3>. QED  BY <1>0, <3>1, <3>2
  <2>2. got' \in Seq(1 .. MaxChunk)
    <3>1. Head(socket) # Ping => Head(socket) \in 1 .. MaxChunk  BY <1>0, <2>1 DEF Ping
    <3>2. got \in Seq(1 .. MaxChunk) /\ got' \in {got, Append(got, Head(socket))}
      BY <1>11 DEF Deliver
    <3>3. CASE Head(socket) = Ping  BY <1>11, <3>2, <3>3 DEF Deliver
    <3>4. CASE Head(socket) # Ping
      <4>1. Append(got, Head(socket)) \in Seq(1 .. MaxChunk)
        BY <3>1, <3>2, <3>4, AppendProperties
      <4>. QED  BY <3>2, <4>1
    <3>. QED  BY <3>3, <3>4
  <2>. QED  BY <1>11, <2>1, <2>2 DEF Deliver, pty
<1>12. ASSUME NEW message \in Incoming, Says(message),
              net' \in Alive \cup {"gone", "broken", "closed"}
       PROVE  TerminalTypeOK'
  <2>1. sent' \in Seq(Incoming) /\ inbox' \in Seq(Incoming)  BY <1>0, <1>12 DEF Says
  <2>. QED  BY <1>12, <2>1 DEF Says, pty
<1>13. CASE SendKey
  <2>1. Says(Key(Len(sent))) /\ net' = net  BY <1>13 DEF SendKey
  <2>2. Len(sent) \in 1 .. MaxSent
    BY <1>0, <2>1 DEF Says, InboxOK, Taken
  <2>3. Key(Len(sent)) \in Incoming  BY <2>2 DEF Incoming
  <2>. QED  BY <1>12, <2>1, <2>3
<1>14. ASSUME NEW b \in BOOLEAN, SetReadOnly(b) PROVE TerminalTypeOK'
  BY <1>12, <1>14, WishIs DEF SetReadOnly
<1>15. CASE Leave
  <2>1. Close \in Incoming  BY DEF Incoming
  <2>. QED  BY <1>12, <1>15, <2>1 DEF Leave
<1>16. CASE Stall \/ Vanish \/ TcpGivesUp
  BY <1>16 DEF Stall, Vanish, TcpGivesUp, Alive, viewer, pty
<1>17. CASE SessionEnds \/ RowEnds  BY <1>17 DEF SessionEnds, RowEnds, viewer, pty
<1>18. CASE UNCHANGED terminalVars  BY <1>18 DEF terminalVars, viewer, pty
<1>. QED
  BY <1>1, <1>2, <1>3, <1>4, <1>5, <1>6, <1>7, <1>8, <1>9, <1>10, <1>11, <1>13, <1>14, <1>15,
     <1>16, <1>17, <1>18
  DEF TerminalNext

LEMMA TerminalInitOK == TerminalInit => TerminalIInv
<1>. SUFFICES ASSUME TerminalInit PROVE TerminalIInv  OBVIOUS
<1>0. MaxChunk \in Nat /\ BACKLOG \in Nat /\ Window \in Nat  BY TerminalBounds
<1>1. TerminalTypeOK
  <2>1. /\ <<>> \in Seq(1 .. MaxChunk) /\ <<>> \in Seq(0 .. MaxChunk) /\ <<>> \in Seq(Incoming)
        /\ <<>> \in Seq(1 .. MaxSent)
    BY EmptySeq
  <2>2. Len(<<>>) <= BACKLOG /\ Len(<<>>) <= Window /\ 0 \in 0 .. MaxChunk  BY <1>0
  <2>. QED  BY <2>1, <2>2 DEF TerminalInit, TerminalTypeOK, Ping, Alive
<1>2. ChunksOK
  <2>1. Shown = <<0>>
    <3>1. <<0>> \o <<>> = <<0>> /\ <<>> \o <<>> = <<>> /\ <<>> \o <<0>> = <<0>>  OBVIOUS
    <3>. QED  BY <3>1 DEF TerminalInit, Shown, Ping
  <2>2. <<0>> \in Seq(Nat) /\ Len(<<0>>) = 1 /\ <<0>>[1] = 0  OBVIOUS
  <2>3. Gapless(<<0>>, 0)
    <3>1. /\ \A i, j \in 1 .. Len(<<0>>) : i < j /\ <<0>>[i] # 0 /\ <<0>>[j] # 0 => <<0>>[i] < <<0>>[j]
          /\ \A i \in 1 .. Len(<<0>>) : <<0>>[i] <= 0
          /\ \A k \in 1 .. 0 : \E i \in 1 .. Len(<<0>>) : <<0>>[i] = k
      OBVIOUS
    <3>. QED  BY <2>2, <3>1, GaplessIs
  <2>4. made = 0 /\ loop = "off" /\ reader = "none" /\ sending = Ping  BY DEF TerminalInit
  <2>5. 0 \in 0 .. made  BY <2>4
  <2>. QED  BY <2>1, <2>3, <2>4, <2>5 DEF ChunksOK, NoHoles
<1>3. Taken = 0 /\ loop = "off" /\ DOMAIN inbox = {} /\ DOMAIN sent = {} /\ typed = <<>>
  BY DEF TerminalInit, Taken
<1>4. InboxOK /\ WishOK  BY <1>3 DEF TerminalInit, InboxOK, WishOK
<1>5. TypedOK
  <2>1. Range(typed) = Allowed(0) /\ DOMAIN typed = {}  BY <1>3, AllowedNone DEF Range
  <2>2. 0 \in 0 .. 0  OBVIOUS
  <2>. QED  BY <1>3, <2>1, <2>2 DEF TypedOK
<1>. QED  BY <1>1, <1>2, <1>4, <1>5 DEF TerminalIInv

LEMMA TerminalIInvStep == TerminalIInv /\ [TerminalNext]_terminalVars => TerminalIInv'
BY TerminalTypeStep, ChunksStep, KeysStep DEF TerminalIInv

LEMMA TerminalInvariant == TerminalSpec => []TerminalIInv
BY TerminalInitOK, TerminalIInvStep, PTL DEF TerminalSpec

(* Every reachable state is of the right type, whatever the backlog, the   *)
(* connection's window and what is printed and sent.                       *)
THEOREM TerminalTypeCorrect == TerminalSpec => []TerminalTypeOK
BY TerminalInvariant, PTL DEF TerminalIInv

(* What a viewer is shown is what the attach printed, without a hole.      *)
THEOREM ViewersSeeNoHoles == TerminalSpec => []NoHoles
<1>1. TerminalIInv => NoHoles  BY DEF TerminalIInv, ChunksOK
<1>. QED  BY <1>1, TerminalInvariant, PTL

(* What reaches the agent is what the viewer wanted typed.                 *)
THEOREM KeysTypedAsAllowed == TerminalSpec => []TypedAsAllowed
<1>1. TerminalIInv => TypedAsAllowed
  <2>. SUFFICES ASSUME TerminalIInv PROVE TypedAsAllowed  OBVIOUS
  <2>1. PICK n \in 0 .. Taken : Range(typed) = Allowed(n)  BY DEF TerminalIInv, TypedOK
  <2>2. n \in 0 .. Len(sent)  BY DEF TerminalIInv, TerminalTypeOK, Taken
  <2>. QED  BY <2>1, <2>2 DEF TypedAsAllowed, TerminalIInv, TypedOK
<1>. QED  BY <1>1, TerminalInvariant, PTL
=============================================================================
