-------------------------- MODULE EventStreamProofs --------------------------
(***************************************************************************)
(* Browsers behind the event stream, for any number of them, of handlers,  *)
(* of event types and any capacity of ring and channels: a checkpoint      *)
(* never passes an event the browser was not given, nothing is sent twice, *)
(* and the latest of each cached type is known or on its way.              *)
(*                                                                         *)
(* All three rest on what a handler still holds (Supplies): each event its *)
(* browser is owed, or has to learn a status from, that is above what the  *)
(* handler has delivered is in its replay or its channel, or newer than    *)
(* everything there, and a registered subscriber's is there.  That needs   *)
(* the ring to leave nothing out (HubInv), replay and channel to ascend    *)
(* (InOrder), and the handler of a connection that is up to have delivered *)
(* exactly what the browser's checkpoint says (Placed).                    *)
(***************************************************************************)
EXTENDS EventStream, EventHubProofs

Handlers == [pc : HandlerStates, client : Clients, hasCursor : BOOLEAN,
             deliveredThrough : Nat, replay : Seq(Events), staleID : Nat]

StreamTypes ==
    /\ handler \in [Streams -> Handlers]
    /\ checkpoint \in [Clients -> Nat]
    /\ conn \in [Clients -> Streams \union {NoStream}]
    /\ drops \in 0 .. MaxDrops
    /\ restarts \in 0 .. MaxRestarts
    /\ current \subseteq Clients
    /\ owed \in [Clients -> SUBSET Nat]
    /\ status \in [Clients -> [CachedTypes -> Nat]]
    /\ redelivered \subseteq Clients

\* A stream's history is made of the events its browser is owed, and of the
\* latest of each cached type.
Issued(c) == owed[c] \union {cached[t].id : t \in {u \in CachedTypes : cached[u] # NoEvent}}

InOrder(s) ==
    LET h == handler[s] IN
    /\ Ascends(h.replay)
    /\ \A rec \in Range(h.replay) : Genuine(rec) /\ rec.id > h.deliveredThrough
    /\ h.staleID <= nextEventID
    /\ h.pc # "returned" /\ ~h.hasCursor =>
          /\ h.deliveredThrough <= nextEventID
          /\ \A e \in IdsOf(chan[s].buf) : e > h.deliveredThrough

Placed(s) ==
    LET h == handler[s] IN
    /\ h.pc # "replay" => h.replay = << >> /\ h.staleID = 0
    /\ h.replay # << >> => h.staleID = 0
    /\ ~h.hasCursor => h.pc \notin {"snapshot", "replay"}
    /\ \A c \in Clients : conn[c] = s => h.client = c
    /\ h.pc # "returned" /\ Up(s) => h.deliveredThrough = checkpoint[h.client]

\* The handler has taken its snapshot, or needs none.
HasHistory(h) == h.pc \in {"replay", "live"} \/ (h.pc = "flush" /\ ~h.hasCursor)

\* What it has delivered, or will have declared stale.
Floor(h) == IF h.staleID # 0 THEN h.staleID ELSE h.deliveredThrough

Held(s, h, e) ==
    /\ e \in IdsOf(h.replay) \/ \A d \in IdsOf(h.replay) : d < e
    /\ \/ e \in IdsOf(h.replay) \union IdsOf(chan[s].buf)
       \/ s \notin subscribers /\ \A d \in IdsOf(chan[s].buf) : d < e

Supplies(s) ==
    LET h == handler[s] IN
    HasHistory(h) => \A e \in Issued(h.client) : e > Floor(h) => Held(s, h, e)

StreamOK(s) == InOrder(s) /\ Placed(s) /\ Supplies(s)

\* A checkpoint of this lifetime is one of its ids, and a browser whose
\* checkpoint has passed a status has it.
ClientOK(c) ==
    /\ checkpoint[c] = 0 => c \in current
    /\ \A e \in owed[c] : Vouched(e)
    /\ c \in current =>
         /\ checkpoint[c] <= nextEventID
         /\ \A e \in owed[c] : e > checkpoint[c]
         /\ \A t \in CachedTypes :
               cached[t].id <= checkpoint[c] => status[c][t] >= cached[t].id

StreamInv ==
    /\ HubInv /\ StreamTypes /\ InOrderOnce
    /\ \A s \in Streams : StreamOK(s)
    /\ \A c \in Clients : ClientOK(c)

-----------------------------------------------------------------------------
LEMMA IssuedTyped ==
    ASSUME HubInv, StreamTypes, NEW c \in Clients
    PROVE  \A e \in Issued(c) : e \in Nat
BY CachedTyped DEF Issued, StreamTypes

LEMMA IdleTyped ==
    ASSUME NEW c \in Clients
    PROVE  /\ Idle(c) \in Handlers
           /\ Idle(c).pc = "returned" /\ Idle(c).client = c /\ Idle(c).replay = << >>
           /\ Idle(c).staleID = 0 /\ Idle(c).hasCursor = FALSE
           /\ Idle(c).deliveredThrough = 0
<1>1. ASSUME NEW b \in BOOLEAN
      PROVE  [pc |-> "returned", client |-> c, hasCursor |-> b,
              deliveredThrough |-> 0, replay |-> << >>, staleID |-> 0] \in Handlers
  BY DEF Handlers, HandlerStates
<1>2. Idle(c) \in Handlers
  BY <1>1 DEF Idle
<1>3. QED
  BY <1>2 DEF Idle

\* A handler that returned holds nothing.
LEMMA IdleOK ==
    ASSUME NEW s \in Streams, NEW c \in Clients, handler'[s] = Idle(c), nextEventID' \in Nat,
           \A d \in Clients : conn'[d] = s => d = c
    PROVE  StreamOK(s)'
<1>1. /\ handler'[s].pc = "returned" /\ handler'[s].client = c
      /\ handler'[s].replay = << >> /\ handler'[s].staleID = 0
  BY IdleTyped
<1>2. InOrder(s)'
  BY <1>1, AscendsNone DEF InOrder
<1>3. Placed(s)'
  BY <1>1 DEF Placed
<1>4. Supplies(s)'
  BY <1>1 DEF Supplies, HasHistory
<1>5. QED
  BY <1>2, <1>3, <1>4 DEF StreamOK

-----------------------------------------------------------------------------
(* What a step leaves alone. *)

\* Known ids only grow, and what was genuine or vouched for stays so.
Grows ==
    /\ nextEventID \in Nat /\ nextEventID' \in Nat /\ nextEventID' >= nextEventID
    /\ \A rec : Genuine(rec) => Genuine(rec)'
    /\ \A e \in Nat : Vouched(e) => Vouched(e)'

LEMMA HubGrows == ASSUME HubInv, HubKept PROVE Grows
BY HistoryKept DEF Grows, HubKept, HubInv, HubTypeOK

\* A stream that neither moved nor was sent anything.
LEMMA OtherStream ==
    ASSUME StreamInv, NEW s \in Streams, Grows,
           handler'[s] = handler[s], chan'[s].buf = chan[s].buf,
           s \in subscribers' => s \in subscribers,
           \A c \in Clients : conn'[c] = s => conn[c] = s,
           Up(s)' => checkpoint'[handler[s].client] = checkpoint[handler[s].client],
           Issued(handler[s].client)' \subseteq Issued(handler[s].client)
    PROVE  StreamOK(s)'
<1>1. StreamOK(s) /\ handler[s] \in Handlers
  BY DEF StreamInv, StreamTypes
<1>2. InOrder(s)'
  BY <1>1 DEF StreamOK, InOrder, Grows, Handlers
<1>3. Placed(s)'
  <2>1. Up(s)' => Up(s)
    BY <1>1 DEF Up, Handlers
  <2>2. QED
    BY <1>1, <2>1 DEF StreamOK, Placed
<1>4. Supplies(s)'
  BY <1>1 DEF StreamOK, Supplies, Held
<1>5. QED
  BY <1>2, <1>3, <1>4 DEF StreamOK

\* A browser nothing happened to, except that it may have to learn less.
LEMMA OtherClient ==
    ASSUME StreamInv, NEW c \in Clients, Grows,
           checkpoint'[c] = checkpoint[c], status'[c] = status[c], cached' = cached,
           owed'[c] \subseteq owed[c], c \in current' <=> c \in current
    PROVE  ClientOK(c)'
<1>1. ClientOK(c) /\ owed[c] \in SUBSET Nat /\ checkpoint[c] \in Nat
  BY DEF StreamInv, StreamTypes
<1>2. \A e \in owed'[c] : e \in Nat /\ Vouched(e)'
  BY <1>1 DEF ClientOK, Grows
<1>3. QED
  BY <1>1, <1>2 DEF ClientOK, Grows

LEMMA SameIssued ==
    ASSUME NEW c \in Clients, cached' = cached, owed'[c] \subseteq owed[c]
    PROVE  Issued(c)' \subseteq Issued(c)
BY DEF Issued

\* One handler moves, and neither the browsers nor what they wait for.
LEMMA OneHandler ==
    ASSUME StreamInv, NEW s \in Streams, NEW h \in Handlers,
           handler' = [handler EXCEPT ![s] = h],
           HubInv', HubKept, \A x \in Streams \ {s} : chan'[x].buf = chan[x].buf,
           subscribers' \subseteq subscribers,
           UNCHANGED << checkpoint, conn, drops, restarts, observed >>,
           StreamOK(s)'
    PROVE  StreamInv'
<1>1. Grows /\ cached' = cached
  BY HubGrows DEF StreamInv, HubKept
<1>2. /\ checkpoint' = checkpoint /\ conn' = conn /\ owed' = owed /\ status' = status
      /\ current' = current /\ redelivered' = redelivered
      /\ drops' = drops /\ restarts' = restarts
  BY DEF observed
<1>3. StreamTypes'
  BY <1>2 DEF StreamInv, StreamTypes
<1>4. ASSUME NEW x \in Streams PROVE StreamOK(x)'
  <2>1. CASE x = s
    BY <2>1
  <2>2. CASE x # s
    <3>1. handler'[x] = handler[x] /\ chan'[x].buf = chan[x].buf /\ handler[x].client \in Clients
      BY <2>2 DEF StreamInv, StreamTypes, Handlers
    <3>2. Issued(handler[x].client)' \subseteq Issued(handler[x].client)
      BY <3>1, <1>1, <1>2 DEF Issued
    <3>3. QED
      BY <3>1, <3>2, <1>1, <1>2, OtherStream
  <2>3. QED
    BY <2>1, <2>2
<1>5. \A c \in Clients : ClientOK(c)'
  BY <1>1, <1>2, OtherClient
<1>6. QED
  BY <1>2, <1>3, <1>4, <1>5 DEF StreamInv, InOrderOnce

\* No handler moves; a connection may be lost.
LEMMA NoHandler ==
    ASSUME StreamInv, handler' = handler,
           HubInv', HubKept, \A x \in Streams : chan'[x].buf = chan[x].buf,
           subscribers' \subseteq subscribers,
           conn' \in [Clients -> Streams \union {NoStream}],
           \A c \in Clients : conn'[c] \in {conn[c], NoStream},
           drops' \in 0 .. MaxDrops,
           UNCHANGED << checkpoint, restarts, observed >>
    PROVE  StreamInv'
<1>1. Grows /\ cached' = cached
  BY HubGrows DEF StreamInv, HubKept
<1>2. /\ checkpoint' = checkpoint /\ owed' = owed /\ status' = status
      /\ current' = current /\ redelivered' = redelivered /\ restarts' = restarts
  BY DEF observed
<1>3. StreamTypes'
  BY <1>2 DEF StreamInv, StreamTypes
<1>4. ASSUME NEW x \in Streams PROVE StreamOK(x)'
  <2>1. handler[x].client \in Clients
    BY DEF StreamInv, StreamTypes, Handlers
  <2>2. Issued(handler[x].client)' \subseteq Issued(handler[x].client)
    BY <2>1, <1>1, <1>2 DEF Issued
  <2>3. \A c \in Clients : conn'[c] = x => conn[c] = x
    BY StreamAssumption
  <2>4. QED
    BY <2>2, <2>3, <1>1, <1>2, OtherStream
<1>5. \A c \in Clients : ClientOK(c)'
  BY <1>1, <1>2, OtherClient
<1>6. QED
  BY <1>2, <1>3, <1>4, <1>5 DEF StreamInv, InOrderOnce

-----------------------------------------------------------------------------
(* Steps of a handler that its browser does not see. *)

LEMMA IssuedVouched ==
    ASSUME StreamInv, NEW c \in Clients
    PROVE  \A e \in Issued(c) : e \in Nat /\ Vouched(e)
<1>1. \A e \in owed[c] : e \in Nat /\ Vouched(e)
  BY DEF StreamInv, StreamTypes, ClientOK
<1>2. \A t \in CachedTypes : cached[t] # NoEvent => cached[t].id \in Nat /\ Vouched(cached[t].id)
  BY CachedTyped DEF StreamInv
<1>3. QED
  BY <1>1, <1>2 DEF Issued

LEMMA ReturnOK ==
    ASSUME StreamInv, NEW s \in Streams, Return(s),
           HubInv', HubKept, \A x \in Streams \ {s} : chan'[x].buf = chan[x].buf,
           subscribers' \subseteq subscribers,
           UNCHANGED << checkpoint, conn, drops, restarts, observed >>
    PROVE  StreamInv'
<1>1. /\ handler[s].client \in Clients /\ handler \in [Streams -> Handlers]
      /\ \A d \in Clients : conn[d] = s => d = handler[s].client
  BY DEF StreamInv, StreamTypes, Handlers, StreamOK, Placed
<1> DEFINE h == Idle(handler[s].client)
<1>2. h \in Handlers /\ handler' = [handler EXCEPT ![s] = h]
  BY <1>1, IdleTyped DEF Return
<1>3. handler'[s] = h /\ nextEventID' \in Nat
  BY <1>1, <1>2 DEF HubKept
<1>4. StreamOK(s)'
  <2>1. \A d \in Clients : conn'[d] = s => d = handler[s].client
    BY <1>1
  <2>2. PICK c \in Clients : c = handler[s].client
    BY <1>1
  <2>3. QED
    BY <1>3, <2>1, <2>2, IdleOK
<1> HIDE DEF h
<1>5. QED
  BY <1>2, <1>4, OneHandler

LEMMA FlushOK == ASSUME StreamInv, NEW s \in Streams, Flush(s) PROVE StreamInv'
<1>1. /\ handler \in [Streams -> Handlers] /\ handler[s] \in Handlers /\ StreamOK(s)
      /\ handler[s].pc = "flush"
  BY DEF StreamInv, StreamTypes, Flush
<1>2. /\ HubInv' /\ HubKept /\ \A x \in Streams : chan'[x].buf = chan[x].buf
      /\ subscribers' = subscribers /\ nextEventID' = nextEventID
      /\ UNCHANGED << checkpoint, conn, drops, restarts, observed >>
  BY HubUnchanged DEF StreamInv, Flush, hubVars
<1>3. CASE handler' = [handler EXCEPT ![s].pc =
                          IF handler[s].hasCursor THEN "snapshot" ELSE "live"]
  <2>h. PICK h : h = [handler[s] EXCEPT !.pc =
                         IF handler[s].hasCursor THEN "snapshot" ELSE "live"]
    OBVIOUS
  <2>1. /\ h \in Handlers /\ handler' = [handler EXCEPT ![s] = h] /\ handler'[s] = h
        /\ h.pc \in {"snapshot", "live"} /\ (h.pc = "live" <=> ~handler[s].hasCursor)
        /\ h.client = handler[s].client /\ h.hasCursor = handler[s].hasCursor
        /\ h.deliveredThrough = handler[s].deliveredThrough
        /\ h.replay = handler[s].replay /\ h.staleID = handler[s].staleID
    BY <2>h, <1>1, <1>3 DEF Handlers, HandlerStates
  <2>2. Grows /\ cached' = cached
    BY <1>2, HubGrows DEF StreamInv, HubKept
  <2>3. InOrder(s)'
    BY <1>1, <1>2, <2>1, <2>2 DEF StreamOK, InOrder, Grows
  <2>4. Placed(s)'
    BY <1>1, <1>2, <2>1 DEF StreamOK, Placed, Up
  <2>5. Supplies(s)'
    <3>1. Issued(h.client)' = Issued(h.client)
      BY <1>2, <2>1, <2>2 DEF Issued, observed
    <3>2. HasHistory(h) => HasHistory(handler[s])
      BY <1>1, <2>1 DEF HasHistory
    <3>3. Floor(h) = Floor(handler[s])
      BY <2>1 DEF Floor
    <3>4. QED
      BY <1>1, <1>2, <2>1, <3>1, <3>2, <3>3 DEF StreamOK, Supplies, Held
  <2>6. QED
    BY <1>2, <2>1, <2>3, <2>4, <2>5, OneHandler DEF StreamOK
<1>4. CASE Return(s)
  BY <1>2, <1>4, ReturnOK
<1>5. QED
  BY <1>3, <1>4 DEF Flush

LEMMA SnapshotOK == ASSUME StreamInv, NEW s \in Streams, Snapshot(s) PROVE StreamInv'
<1> DEFINE g == handler[s]
           cursor == g.deliveredThrough
<1>1. /\ handler \in [Streams -> Handlers] /\ g \in Handlers /\ StreamOK(s)
      /\ g.pc = "snapshot" /\ g.hasCursor /\ g.replay = << >> /\ g.staleID = 0
      /\ g.client \in Clients /\ cursor \in Nat /\ HubInv /\ nextEventID \in Nat
      /\ UNCHANGED << checkpoint, conn, drops, restarts, observed >>
  BY DEF StreamInv, StreamTypes, Snapshot, StreamOK, Placed, Handlers, HubInv, HubTypeOK
<1>2. CASE StaleCursor(cursor)
  <2>h. PICK h : h = [g EXCEPT !.pc = "replay", !.staleID = nextEventID + 1]
    OBVIOUS
  <2>1. /\ TakeSyntheticID
        /\ handler' = [handler EXCEPT ![s].pc = "replay", ![s].staleID = nextEventID + 1]
    BY <1>2 DEF Snapshot
  <2>2. /\ h \in Handlers /\ handler' = [handler EXCEPT ![s] = h] /\ handler'[s] = h
        /\ h.pc = "replay" /\ h.client = g.client /\ h.hasCursor = g.hasCursor
        /\ h.deliveredThrough = cursor /\ h.replay = << >> /\ h.staleID = nextEventID + 1
    BY <2>h, <1>1, <2>1 DEF Handlers, HandlerStates
  <2>3. /\ HubKept /\ nextEventID' = nextEventID + 1
        /\ subscribers' = subscribers /\ done' = done /\ closed' = closed /\ chan' = chan
    BY <1>1, <2>1 DEF TakeSyntheticID, HubKept
  <2>4. HubInv'
    BY <1>1, <2>3, BuffersKept DEF HubInv, HubTypeOK
  <2>5. InOrder(s)'
    <3>1. h.staleID <= nextEventID'
      BY <1>1, <2>2, <2>3
    <3>2. Ascends(h.replay) /\ Range(h.replay) = {}
      BY <2>2, AscendsNone
    <3>3. h.hasCursor
      BY <1>1, <2>2
    <3>4. QED
      BY <2>2, <3>1, <3>2, <3>3, Zenon DEF InOrder
  <2>6. Placed(s)'
    BY <1>1, <2>2 DEF StreamOK, Placed, Up
  <2>7. Supplies(s)'
    <3>1. Issued(h.client)' = Issued(h.client)
      BY <1>1, <2>2, <2>3 DEF Issued, observed, HubKept
    <3>2. \A e \in Issued(h.client) : e \in Nat /\ e <= nextEventID
      BY <1>1, <2>2, IssuedVouched DEF Vouched
    <3>3. Floor(h) = nextEventID + 1
      BY <1>1, <2>2 DEF Floor
    <3>4. QED
      BY <1>1, <2>2, <3>1, <3>2, <3>3 DEF Supplies
  <2>8. QED
    BY <1>1, <2>2, <2>3, <2>4, <2>5, <2>6, <2>7, OneHandler DEF StreamOK
<1>3. CASE ~StaleCursor(cursor)
  <2>a. PICK a : a = After(cursor)
    OBVIOUS
  <2>h. PICK h : h = [g EXCEPT !.pc = "replay", !.replay = a]
    OBVIOUS
  <2>1. /\ UNCHANGED hubVars
        /\ handler' = [handler EXCEPT ![s].pc = "replay", ![s].replay = a]
    BY <2>a, <1>3 DEF Snapshot
  <2>2. /\ a \in Seq(Events) /\ Ascends(a)
        /\ Range(a) \subseteq {Recorded[i] : i \in 1 .. ringCount}
        /\ IdsOf(a) = {e \in IdsOf(Recorded) : e > cursor}
    BY <2>a, <1>1, Replays DEF HubInv
  <2>3. /\ h \in Handlers /\ handler' = [handler EXCEPT ![s] = h] /\ handler'[s] = h
        /\ h.pc = "replay" /\ h.client = g.client /\ h.hasCursor = g.hasCursor
        /\ h.deliveredThrough = cursor /\ h.replay = a /\ h.staleID = 0
    BY <2>h, <1>1, <2>1, <2>2 DEF Handlers, HandlerStates
  <2>4. /\ HubInv' /\ HubKept /\ \A x \in Streams : chan'[x].buf = chan[x].buf
        /\ subscribers' = subscribers
    BY <1>1, <2>1, HubUnchanged DEF hubVars
  <2>5. Grows
    BY <1>1, <2>4, HubGrows
  <2>6. InOrder(s)'
    <3>1. \A rec \in Range(a) : Genuine(rec) /\ rec.id > cursor
      BY <1>1, <2>2, IdsTyped DEF HubInv, RingGenuine
    <3>2. \A rec \in Range(h.replay) : Genuine(rec)' /\ rec.id > h.deliveredThrough
      BY <2>3, <2>5, <3>1 DEF Grows
    <3>3. h.staleID <= nextEventID' /\ Ascends(h.replay)
      BY <2>2, <2>3, <2>5 DEF Grows
    <3>4. h.hasCursor
      BY <1>1, <2>3
    <3>5. QED
      BY <2>3, <3>2, <3>3, <3>4, Zenon DEF InOrder
  <2>7. Placed(s)'
    BY <1>1, <2>3 DEF StreamOK, Placed, Up
  <2>8. Supplies(s)'
    <3>1. Issued(h.client)' = Issued(h.client)
      BY <1>1, <2>3, <2>4 DEF Issued, observed, HubKept
    <3>2. ASSUME NEW e \in Issued(h.client), e > cursor PROVE e \in IdsOf(a)
      <4>1. e \in Nat /\ Vouched(e)
        BY <1>1, <2>3, IssuedVouched
      <4>2. ringCount > 0 /\ ~(cursor + 1 < Oldest)
        BY <4>1, <1>3 DEF Vouched, StaleCursor
      <4>3. Oldest \in Nat
        <5>1. ring[ringHead] \in Events \union {NoEvent}
          BY <1>1 DEF HubInv, HubTypeOK
        <5>2. QED
          BY <5>1 DEF Oldest, Events, NoEvent
      <4>4. e \in IdsOf(Recorded)
        BY <4>1, <4>2, <4>3, <3>2, <1>1 DEF Vouched
      <4>5. QED
        BY <4>4, <3>2, <2>2
    <3>3. Floor(h) = cursor
      BY <2>3 DEF Floor
    <3>4. QED
      BY <2>3, <3>1, <3>2, <3>3 DEF Supplies, Held
  <2>9. QED
    BY <1>1, <2>3, <2>4, <2>6, <2>7, <2>8, OneHandler DEF StreamOK
<1>4. QED
  BY <1>2, <1>3

LEMMA GoLiveOK == ASSUME StreamInv, NEW s \in Streams, GoLive(s) PROVE StreamInv'
<1> DEFINE g == handler[s]
<1>h. PICK h : h = [g EXCEPT !.pc = "live"]
  OBVIOUS
<1>1. /\ handler \in [Streams -> Handlers] /\ g \in Handlers /\ StreamOK(s)
      /\ g.pc = "replay" /\ g.staleID = 0 /\ g.replay = << >> /\ g.client \in Clients
      /\ UNCHANGED << checkpoint, conn, drops, restarts, observed >>
  BY DEF StreamInv, StreamTypes, GoLive, Handlers
<1>2. /\ HubInv' /\ HubKept /\ \A x \in Streams : chan'[x].buf = chan[x].buf
      /\ subscribers' = subscribers
  BY HubUnchanged DEF StreamInv, GoLive, hubVars
<1>3. /\ h \in Handlers /\ handler' = [handler EXCEPT ![s] = h] /\ handler'[s] = h
      /\ h.pc = "live" /\ h.client = g.client /\ h.hasCursor = g.hasCursor
      /\ h.deliveredThrough = g.deliveredThrough /\ h.replay = << >> /\ h.staleID = 0
  BY <1>h, <1>1 DEF Handlers, HandlerStates, GoLive
<1>4. Grows /\ cached' = cached
  BY <1>2, HubGrows DEF StreamInv, HubKept
<1>5. InOrder(s)'
  <2>1. h.staleID <= nextEventID' /\ Ascends(h.replay) /\ Range(h.replay) = {}
    BY <1>3, <1>4, AscendsNone DEF Grows
  <2>2. ASSUME ~h.hasCursor
        PROVE  /\ h.deliveredThrough <= nextEventID'
               /\ \A e \in IdsOf(chan'[s].buf) : e > h.deliveredThrough
    BY <1>1, <1>2, <1>3, <1>4, <2>2 DEF StreamOK, InOrder, Grows, Handlers
  <2>3. QED
    BY <1>3, <2>1, <2>2, Zenon DEF InOrder
<1>6. Placed(s)'
  BY <1>1, <1>3 DEF StreamOK, Placed, Up
<1>7. Supplies(s)'
  <2>1. Issued(h.client)' = Issued(h.client)
    BY <1>1, <1>3, <1>4 DEF Issued, observed
  <2>2. HasHistory(g) /\ Floor(h) = Floor(g)
    BY <1>1, <1>3 DEF HasHistory, Floor
  <2>3. QED
    BY <1>1, <1>2, <1>3, <2>1, <2>2 DEF StreamOK, Supplies, Held
<1>8. QED
  BY <1>1, <1>2, <1>3, <1>5, <1>6, <1>7, OneHandler DEF StreamOK

LEMMA LiveReturnsOK == ASSUME StreamInv, NEW s \in Streams, LiveReturns(s) PROVE StreamInv'
<1>1. /\ HubInv' /\ HubKept /\ \A x \in Streams : chan'[x].buf = chan[x].buf
      /\ subscribers' = subscribers
  BY HubUnchanged DEF StreamInv, LiveReturns, hubVars
<1>2. QED
  BY <1>1, ReturnOK DEF LiveReturns

-----------------------------------------------------------------------------
(* Deliveries. *)

\* The least of what the browser waits for was accepted.
LEMMA AcceptOK ==
    ASSUME StreamInv, NEW c \in Clients, NEW rec, Genuine(rec), rec.id > checkpoint[c],
           \A e \in Issued(c) : e > checkpoint[c] => e >= rec.id,
           Accept(c, rec), HubKept
    PROVE  /\ checkpoint' \in [Clients -> Nat] /\ owed' \in [Clients -> SUBSET Nat]
           /\ status' \in [Clients -> [CachedTypes -> Nat]]
           /\ current' = current /\ redelivered' = redelivered
           /\ checkpoint'[c] = rec.id
           /\ \A d \in Clients : /\ ClientOK(d)' /\ owed'[d] \subseteq owed[d]
                                 /\ d # c => checkpoint'[d] = checkpoint[d]
<1>1. /\ checkpoint \in [Clients -> Nat] /\ owed \in [Clients -> SUBSET Nat]
      /\ status \in [Clients -> [CachedTypes -> Nat]] /\ HubInv /\ ClientOK(c)
      /\ rec \in Events /\ rec.id \in Nat /\ rec.id > 0 /\ rec.id <= nextEventID
  BY DEF StreamInv, StreamTypes, Genuine, Events
<1>n. PICK n \in Nat : n = rec.id
  BY <1>1
<1>2. /\ checkpoint' = [checkpoint EXCEPT ![c] = IF rec.id > @ THEN rec.id ELSE @]
      /\ owed' = [owed EXCEPT ![c] = @ \ {rec.id}]
      /\ status' = [status EXCEPT ![c] = [t \in CachedTypes |->
                       IF t = rec.type /\ rec.id > @[t] THEN rec.id ELSE @[t]]]
      /\ redelivered' = redelivered /\ current' = current
  BY <1>1 DEF Accept
<1>3. Grows /\ cached' = cached
  BY <1>1, HubGrows DEF HubKept
<1>4. /\ checkpoint' \in [Clients -> Nat] /\ checkpoint'[c] = rec.id
      /\ \A d \in Clients : d # c => checkpoint'[d] = checkpoint[d]
  BY <1>1, <1>2
<1>5. /\ owed' \in [Clients -> SUBSET Nat] /\ owed'[c] = owed[c] \ {rec.id}
      /\ \A d \in Clients : d # c => owed'[d] = owed[d]
  BY <1>1, <1>2
<1>6. /\ \A t \in CachedTypes :
            status'[c][t] = IF t = rec.type /\ rec.id > status[c][t] THEN rec.id ELSE status[c][t]
      /\ \A d \in Clients : d # c => status'[d] = status[d]
  BY <1>1, <1>2
<1>7. status' \in [Clients -> [CachedTypes -> Nat]]
  <2>1. [t \in CachedTypes |-> IF t = rec.type
          /\ rec.id > status[c][t] THEN rec.id ELSE status[c][t]]
          \in [CachedTypes -> Nat]
    BY <1>1
  <2>2. QED
    BY <1>1, <1>2, <2>1
<1>8. ClientOK(c)'
  <2>1. checkpoint'[c] # 0
    BY <1>1, <1>4
  <2>2. \A e \in owed'[c] : Vouched(e)'
    BY <1>1, <1>3, <1>5 DEF ClientOK, Grows
  <2>3. checkpoint'[c] <= nextEventID'
    BY <1>1, <1>3, <1>4 DEF Grows
  <2>4. ASSUME c \in current, NEW e \in owed'[c] PROVE e > checkpoint'[c]
    <3>1. e \in owed[c] /\ e # rec.id /\ e \in Nat
      BY <1>1, <1>5
    <3>2. e > checkpoint[c] /\ e \in Issued(c)
      BY <1>1, <2>4, <3>1 DEF ClientOK, Issued
    <3>3. e >= rec.id
      BY <3>2
    <3>4. QED
      BY <1>n, <1>4, <3>1, <3>3
  <2>5. ASSUME c \in current, NEW t \in CachedTypes, cached'[t].id <= checkpoint'[c]
        PROVE  status'[c][t] >= cached'[t].id
    <3>1. cached[t].id \in Nat /\ cached[t].id <= rec.id /\ status[c][t] \in Nat
      BY <1>1, <1>3, <1>4, <2>5, CachedTyped
    <3>2. CASE cached[t].id <= checkpoint[c]
      <4>1. status[c][t] >= cached[t].id
        BY <1>1, <2>5, <3>2 DEF ClientOK
      <4>2. QED
        BY <4>1, <3>1, <1>1, <1>3, <1>6
    <3>3. CASE cached[t].id > checkpoint[c]
      <4>1. cached[t] # NoEvent
        BY <1>1, <3>1, <3>3, CachedTyped
      <4>2. cached[t].id \in Issued(c)
        BY <4>1 DEF Issued
      <4>3. cached[t].id = rec.id
        BY <4>2, <3>1, <3>3, <1>n
      <4>4. rec.type = t
        BY <4>3 DEF Genuine
      <4>5. QED
        BY <4>3, <4>4, <3>1, <1>1, <1>3, <1>6
    <3>4. QED
      BY <3>1, <3>2, <3>3, <1>1
  <2>6. checkpoint'[c] = 0 => c \in current'
    BY <2>1
  <2>7. QED
    BY <2>2, <2>3, <2>4, <2>5, <2>6, <1>2, Zenon DEF ClientOK
<1>9. ASSUME NEW d \in Clients, d # c PROVE ClientOK(d)'
  BY <1>2, <1>3, <1>4, <1>5, <1>6, <1>9, OtherClient
<1>10. QED
  BY <1>2, <1>4, <1>5, <1>7, <1>8, <1>9

\* Handler s writes rec, the least of what its browser waits for, and goes on as h.
LEMMA SendOK ==
    ASSUME StreamInv, NEW s \in Streams, NEW h \in Handlers, NEW rec, Genuine(rec),
           handler' = [handler EXCEPT ![s] = h], handler[s].pc # "returned",
           h.client = handler[s].client, h.deliveredThrough = rec.id,
           rec.id > handler[s].deliveredThrough,
           \A e \in Issued(h.client) : e > handler[s].deliveredThrough => e >= rec.id,
           HubInv', HubKept, \A x \in Streams \ {s} : chan'[x].buf = chan[x].buf,
           subscribers' = subscribers,
           IF Up(s) THEN Accept(h.client, rec) ELSE UNCHANGED << checkpoint, observed >>,
           UNCHANGED << conn, drops, restarts >>,
           InOrder(s)',
           h.pc # "replay" => h.replay = << >>, h.staleID = 0,
           ~h.hasCursor => h.pc \notin {"snapshot", "replay"},
           \A e \in Issued(h.client) : e > rec.id => Held(s, h, e)'
    PROVE  StreamInv'
<1>1. /\ handler \in [Streams -> Handlers] /\ StreamOK(s) /\ h.client \in Clients
      /\ conn' = conn /\ drops' = drops /\ restarts' = restarts /\ handler'[s] = h
      /\ handler[s] \in Handlers /\ HubInv /\ rec.id \in Nat
  BY DEF StreamInv, StreamTypes, Handlers, Genuine, Events
<1>2. Grows /\ cached' = cached
  BY <1>1, HubGrows DEF HubKept
<1>3. /\ checkpoint' \in [Clients -> Nat] /\ owed' \in [Clients -> SUBSET Nat]
      /\ status' \in [Clients -> [CachedTypes -> Nat]]
      /\ current' = current /\ redelivered' = redelivered
      /\ Up(s) => checkpoint'[h.client] = rec.id
      /\ \A d \in Clients : /\ ClientOK(d)' /\ owed'[d] \subseteq owed[d]
                            /\ ~Up(s) \/ d # h.client => checkpoint'[d] = checkpoint[d]
  <2>1. CASE Up(s)
    <3>1. checkpoint[h.client] = handler[s].deliveredThrough
      BY <1>1, <2>1 DEF StreamOK, Placed
    <3>2. QED
      BY <1>1, <2>1, <3>1, AcceptOK
  <2>2. CASE ~Up(s)
    <3>1. checkpoint' = checkpoint /\ owed' = owed /\ status' = status
            /\ current' = current /\ redelivered' = redelivered
      BY <2>2 DEF observed
    <3>2. \A d \in Clients : ClientOK(d)'
      BY <3>1, <1>2, OtherClient
    <3>3. QED
      BY <3>1, <3>2, <2>2 DEF StreamInv, StreamTypes
  <2>3. QED
    BY <2>1, <2>2
<1>4. StreamTypes'
  BY <1>1, <1>3 DEF StreamInv, StreamTypes
<1>5. Placed(s)'
  <2>1. Up(s)' <=> Up(s)
    BY <1>1 DEF Up
  <2>2. \A c \in Clients : conn'[c] = s => h.client = c
    BY <1>1 DEF StreamOK, Placed
  <2>3. QED
    BY <1>1, <1>3, <2>1, <2>2 DEF Placed
<1>6. Supplies(s)'
  <2>1. Issued(h.client)' \subseteq Issued(h.client)
    BY <1>1, <1>2, <1>3, SameIssued
  <2>2. PICK floor : floor = rec.id /\ floor = Floor(h)
    BY DEF Floor
  <2>3. QED
    BY <1>1, <2>1, <2>2 DEF Supplies
<1>7. ASSUME NEW x \in Streams, x # s PROVE StreamOK(x)'
  <2>1. /\ handler'[x] = handler[x] /\ chan'[x].buf = chan[x].buf
        /\ handler[x].client \in Clients /\ conn' = conn
    BY <1>1, <1>7 DEF Handlers
  <2>2. Issued(handler[x].client)' \subseteq Issued(handler[x].client)
    BY <1>2, <1>3, <2>1, SameIssued
  <2>3. Up(x)' => checkpoint'[handler[x].client] = checkpoint[handler[x].client]
    <3> SUFFICES ASSUME conn[handler[x].client] = x, Up(s)
                 PROVE  handler[x].client # h.client
      BY <1>3, <2>1 DEF Up
    <3>1. QED
      BY <1>1, <1>7 DEF Up
  <2>4. QED
    BY <1>2, <2>1, <2>2, <2>3, OtherStream
<1>8. QED
  BY <1>1, <1>3, <1>4, <1>5, <1>6, <1>7 DEF StreamInv, StreamOK, InOrderOnce

LEMMA WriteReplayOK == ASSUME StreamInv, NEW s \in Streams, WriteReplay(s) PROVE StreamInv'
<1> DEFINE g == handler[s]
<1>1. /\ handler \in [Streams -> Handlers] /\ g \in Handlers /\ StreamOK(s)
      /\ g.pc = "replay" /\ g.replay # << >> /\ g.staleID = 0 /\ g.hasCursor
      /\ g.client \in Clients /\ g.replay \in Seq(Events) /\ g.deliveredThrough \in Nat
      /\ UNCHANGED << conn, drops, restarts >>
  BY DEF StreamInv, StreamTypes, WriteReplay, Handlers, StreamOK, Placed
<1>2. /\ HubInv' /\ HubKept /\ \A x \in Streams : chan'[x].buf = chan[x].buf
      /\ subscribers' = subscribers /\ UNCHANGED hubVars
  BY HubUnchanged DEF StreamInv, WriteReplay, hubVars
<1>3. Grows
  BY <1>2, HubGrows DEF StreamInv
<1>r. PICK rec : rec = Head(g.replay)
  OBVIOUS
<1>q. PICK q : q = Tail(g.replay)
  OBVIOUS
<1>4. /\ q \in Seq(Events) /\ rec \in Events /\ Ascends(q)
      /\ IdsOf(g.replay) = IdsOf(q) \union {rec.id}
      /\ \A e \in IdsOf(q) : e > rec.id
      /\ Range(g.replay) = Range(q) \union {rec}
  BY <1>1, <1>r, <1>q, AscendsTail DEF StreamOK, InOrder
<1>5. /\ Genuine(rec) /\ rec.id > g.deliveredThrough
      /\ \A r \in Range(q) : Genuine(r) /\ r.id > rec.id
  BY <1>1, <1>4, IdsTyped DEF StreamOK, InOrder
<1>6. CASE ~Up(s) /\ Return(s) /\ UNCHANGED << checkpoint, observed >>
  BY <1>1, <1>2, <1>6, ReturnOK
<1>7. CASE /\ handler' = [handler EXCEPT ![s].deliveredThrough = rec.id, ![s].replay = q]
           /\ IF Up(s) THEN Accept(g.client, rec) ELSE UNCHANGED << checkpoint, observed >>
  <2>h. PICK h : h = [g EXCEPT !.deliveredThrough = rec.id, !.replay = q]
    OBVIOUS
  <2>1. /\ h \in Handlers /\ handler' = [handler EXCEPT ![s] = h] /\ handler'[s] = h
        /\ h.pc = "replay" /\ h.client = g.client /\ h.hasCursor = g.hasCursor
        /\ h.deliveredThrough = rec.id /\ h.replay = q /\ h.staleID = 0
    BY <2>h, <1>1, <1>4, <1>7 DEF Handlers, HandlerStates, Events
  <2>2. \A e \in Issued(g.client) : e > g.deliveredThrough => e \in Nat /\ Held(s, g, e)
    BY <1>1, IssuedTyped DEF StreamInv, StreamOK, Supplies, HasHistory, Floor
  <2>3. PICK n \in Nat : n = rec.id
    BY <1>4 DEF Events
  <2>4. IdsOf(q) \subseteq Nat
    BY <1>4, IdsTyped
  <2>5. ASSUME NEW e \in Issued(h.client), e > g.deliveredThrough PROVE e >= rec.id
    <3>1. e \in Nat /\ (e \in IdsOf(q) \union {rec.id} \/ rec.id < e)
      BY <2>1, <2>2, <2>5, <1>4 DEF Held
    <3>2. QED
      BY <3>1, <2>3, <1>4
  <2>6. ASSUME NEW e \in Issued(h.client), e > rec.id PROVE Held(s, h, e)'
    <3>1. e > g.deliveredThrough /\ e # rec.id
      BY <2>1, <2>3, <2>6, <1>1, <1>5, IssuedTyped DEF StreamInv
    <3>2. Held(s, g, e)
      BY <2>1, <2>2, <3>1
    <3>3. QED
      BY <3>1, <3>2, <2>1, <1>2, <1>4 DEF Held
  <2>7. InOrder(s)'
    <3>1. \A r \in Range(h.replay) : Genuine(r)' /\ r.id > h.deliveredThrough
      BY <2>1, <1>3, <1>5 DEF Grows
    <3>2. h.staleID <= nextEventID' /\ Ascends(h.replay) /\ h.hasCursor
      BY <2>1, <1>1, <1>3, <1>4 DEF Grows
    <3>3. QED
      BY <2>1, <3>1, <3>2, Zenon DEF InOrder
  <2>8. QED
    BY <1>1, <1>2, <1>5, <1>7, <2>1, <2>5, <2>6, <2>7, SendOK
<1>8. QED
  BY <1>6, <1>7, <1>r, <1>q DEF WriteReplay

LEMMA LiveOK == ASSUME StreamInv, NEW s \in Streams, Live(s) PROVE StreamInv'
<1> DEFINE g == handler[s]
           buf == chan[s].buf
<1>1. /\ handler \in [Streams -> Handlers] /\ g \in Handlers /\ StreamOK(s) /\ HubInv
      /\ g.pc = "live" /\ g.replay = << >> /\ g.staleID = 0 /\ buf # << >>
      /\ g.client \in Clients /\ g.deliveredThrough \in Nat /\ buf \in Seq(Events)
      /\ Ascends(buf) /\ (\A r \in Range(buf) : Genuine(r))
      /\ UNCHANGED << conn, drops, restarts >>
  BY DEF StreamInv, StreamTypes, Live, Handlers, StreamOK, Placed, HubInv, HubTypeOK,
         ChannelsInOrder
<1>2. /\ HubInv' /\ chan'[s].buf = Tail(buf)
      /\ \A x \in Streams \ {s} : chan'[x].buf = chan[x].buf
      /\ subscribers' = subscribers /\ HubKept
  BY <1>1, ReceiveKeeps DEF Live, HubInv, HubTypeOK, HubKept
<1>3. Grows
  BY <1>1, <1>2, HubGrows
<1>r. PICK rec : rec = Head(buf)
  OBVIOUS
<1>q. PICK q : q = Tail(buf)
  OBVIOUS
<1>4. /\ q \in Seq(Events) /\ rec \in Events /\ Ascends(q) /\ chan'[s].buf = q
      /\ IdsOf(buf) = IdsOf(q) \union {rec.id}
      /\ \A e \in IdsOf(q) : e > rec.id
      /\ Range(buf) = Range(q) \union {rec}
  BY <1>1, <1>2, <1>r, <1>q, AscendsTail
<1>5. Genuine(rec) /\ IdsOf(q) \subseteq Nat
  BY <1>1, <1>4, IdsTyped
<1>6. PICK n \in Nat : n = rec.id
  BY <1>4 DEF Events
<1>7. \A e \in Issued(g.client) : e > g.deliveredThrough => e \in Nat /\ Held(s, g, e)
  BY <1>1, IssuedTyped DEF StreamInv, StreamOK, Supplies, HasHistory, Floor
<1>none. IdsOf(<< >>) = {} /\ Range(<< >>) = {} /\ Ascends(<< >>)
  BY AscendsNone
<1>8. CASE Skip(s, rec) /\ UNCHANGED << handler, checkpoint, observed >>
  <2>1. /\ handler' = [handler EXCEPT ![s] = g] /\ handler'[s] = g /\ handler' = handler
        /\ g.hasCursor /\ rec.id <= g.deliveredThrough
    BY <1>1, <1>8 DEF Skip
  <2>2. InOrder(s)'
    <3>1. g.staleID <= nextEventID'
      BY <1>1, <1>3 DEF Grows
    <3>2. QED
      BY <1>1, <1>none, <2>1, <3>1, Zenon DEF InOrder
  <2>3. Placed(s)'
    BY <1>1, <1>8, <2>1 DEF StreamOK, Placed, Up
  <2>4. Supplies(s)'
    <3>1. Issued(g.client)' = Issued(g.client)
      BY <1>2, <1>8, <2>1 DEF Issued, observed, HubKept
    <3>2. ASSUME NEW e \in Issued(g.client), e > g.deliveredThrough PROVE Held(s, g, e)'
      <4>1. Held(s, g, e) /\ e \in Nat
        BY <1>7, <3>2
      <4>2. e # rec.id
        BY <4>1, <3>2, <2>1, <1>6, <1>1
      <4>3. QED
        BY <4>1, <4>2, <1>1, <1>2, <1>4, <1>none, <2>1 DEF Held
    <3>3. Floor(g) = g.deliveredThrough
      BY <1>1 DEF Floor
    <3>4. QED
      BY <2>1, <3>1, <3>2, <3>3 DEF Supplies
  <2>5. QED
    BY <1>1, <1>2, <1>8, <2>1, <2>2, <2>3, <2>4, OneHandler DEF StreamOK
<1>9. CASE /\ ~Skip(s, rec)
           /\ handler' = [handler EXCEPT ![s].deliveredThrough = rec.id]
           /\ IF Up(s) THEN Accept(g.client, rec) ELSE UNCHANGED << checkpoint, observed >>
  <2>h. PICK h : h = [g EXCEPT !.deliveredThrough = rec.id]
    OBVIOUS
  <2>1. /\ h \in Handlers /\ handler' = [handler EXCEPT ![s] = h] /\ handler'[s] = h
        /\ h.pc = "live" /\ h.client = g.client /\ h.hasCursor = g.hasCursor
        /\ h.deliveredThrough = rec.id /\ h.replay = << >> /\ h.staleID = 0
    BY <2>h, <1>1, <1>4, <1>9 DEF Handlers, HandlerStates, Events
  <2>2. rec.id > g.deliveredThrough
    <3>1. CASE g.hasCursor
      BY <3>1, <1>9, <1>1, <1>6 DEF Skip
    <3>2. CASE ~g.hasCursor
      BY <3>2, <1>1, <1>4 DEF StreamOK, InOrder
    <3>3. QED
      BY <3>1, <3>2
  <2>3. ASSUME NEW e \in Issued(h.client), e > g.deliveredThrough PROVE e >= rec.id
    <3>1. e \in Nat /\ (e \in IdsOf(q) \union {rec.id} \/ rec.id < e)
      BY <2>1, <2>3, <1>1, <1>4, <1>7, <1>none DEF Held
    <3>2. QED
      BY <3>1, <1>6, <1>4
  <2>4. ASSUME NEW e \in Issued(h.client), e > rec.id PROVE Held(s, h, e)'
    <3>1. e > g.deliveredThrough /\ e # rec.id
      BY <2>1, <2>2, <2>4, <1>1, <1>6, IssuedTyped DEF StreamInv
    <3>2. Held(s, g, e)
      BY <2>1, <1>7, <3>1
    <3>3. QED
      BY <3>1, <3>2, <2>1, <1>1, <1>2, <1>4, <1>none DEF Held
  <2>5. InOrder(s)'
    <3>1. h.staleID <= nextEventID' /\ h.deliveredThrough <= nextEventID'
      BY <2>1, <1>3, <1>5, <1>6 DEF Grows, Genuine
    <3>2. \A e \in IdsOf(chan'[s].buf) : e > h.deliveredThrough
      BY <2>1, <1>4
    <3>3. QED
      BY <2>1, <1>none, <3>1, <3>2, Zenon DEF InOrder
  <2>6. QED
    BY <1>1, <1>2, <1>5, <1>9, <2>1, <2>2, <2>3, <2>4, <2>5, SendOK
<1>10. CASE ~Up(s) /\ Return(s) /\ UNCHANGED << checkpoint, observed >>
  BY <1>1, <1>2, <1>10, ReturnOK
<1>11. QED
  BY <1>8, <1>9, <1>10, <1>r DEF Live

LEMMA WriteStaleOK == ASSUME StreamInv, NEW s \in Streams, WriteStale(s) PROVE StreamInv'
<1> DEFINE g == handler[s]
<1>1. /\ handler \in [Streams -> Handlers] /\ g \in Handlers /\ StreamOK(s) /\ HubInv
      /\ g.pc = "replay" /\ g.staleID # 0 /\ g.replay = << >> /\ g.hasCursor
      /\ g.client \in Clients /\ g.staleID \in Nat /\ g.staleID <= nextEventID
      /\ UNCHANGED << conn, drops, restarts >>
  BY DEF StreamInv, StreamTypes, WriteStale, Handlers, StreamOK, Placed, InOrder
<1>2. /\ HubInv' /\ HubKept /\ \A x \in Streams : chan'[x].buf = chan[x].buf
      /\ subscribers' = subscribers
  BY HubUnchanged DEF StreamInv, WriteStale, hubVars
<1>3. Grows /\ cached' = cached
  BY <1>1, <1>2, HubGrows DEF HubKept
<1>c. PICK c \in Clients : c = g.client
  BY <1>1
<1>i. PICK id \in Nat \ {0} : id = g.staleID
  BY <1>1
<1>4. CASE ~Up(s) /\ Return(s) /\ UNCHANGED << checkpoint, observed >>
  BY <1>1, <1>2, <1>4, ReturnOK
<1>5. CASE /\ handler' = [handler EXCEPT ![s].deliveredThrough = id, ![s].staleID = 0]
           /\ IF Up(s) THEN AcceptStale(c, id) ELSE UNCHANGED << checkpoint, observed >>
  <2>h. PICK h : h = [g EXCEPT !.deliveredThrough = id, !.staleID = 0]
    OBVIOUS
  <2>1. /\ h \in Handlers /\ handler' = [handler EXCEPT ![s] = h] /\ handler'[s] = h
        /\ h.pc = "replay" /\ h.client = c /\ h.hasCursor = g.hasCursor
        /\ h.deliveredThrough = id /\ h.replay = << >> /\ h.staleID = 0
    BY <2>h, <1>1, <1>5, <1>c DEF Handlers, HandlerStates
  <2>2. InOrder(s)'
    <3>1. h.staleID <= nextEventID' /\ h.hasCursor
      BY <2>1, <1>1, <1>3 DEF Grows
    <3>2. Range(h.replay) = {} /\ Ascends(h.replay)
      BY <2>1, AscendsNone
    <3>3. QED
      BY <2>1, <3>1, <3>2, Zenon DEF InOrder
  <2>3. /\ checkpoint' \in [Clients -> Nat] /\ owed' \in [Clients -> SUBSET Nat]
        /\ status' \in [Clients -> [CachedTypes -> Nat]] /\ current' \subseteq Clients
        /\ redelivered' = redelivered
        /\ Up(s) => checkpoint'[c] = id
        /\ \A d \in Clients : /\ ClientOK(d)' /\ owed'[d] \subseteq owed[d]
                              /\ ~Up(s) \/ d # c => checkpoint'[d] = checkpoint[d]
    <3>1. /\ checkpoint \in [Clients -> Nat] /\ owed \in [Clients -> SUBSET Nat]
          /\ status \in [Clients -> [CachedTypes -> Nat]] /\ current \subseteq Clients
      BY DEF StreamInv, StreamTypes
    <3>2. CASE Up(s)
      <4>1. /\ checkpoint' = [checkpoint EXCEPT ![c] = id]
            /\ owed' = [owed EXCEPT ![c] = {}]
            /\ status' = [status EXCEPT ![c] = [t \in CachedTypes |-> cached[t].id]]
            /\ current' = current \union {c} /\ redelivered' = redelivered
        BY <1>5, <3>2 DEF AcceptStale
      <4>2. [t \in CachedTypes |-> cached[t].id] \in [CachedTypes -> Nat]
        BY <1>1, CachedTyped
      <4>3. /\ checkpoint'[c] = id /\ owed'[c] = {}
            /\ \A t \in CachedTypes : status'[c][t] = cached[t].id
            /\ \A d \in Clients \ {c} : /\ checkpoint'[d] = checkpoint[d]
                                        /\ owed'[d] = owed[d] /\ status'[d] = status[d]
                                        /\ d \in current' <=> d \in current
        BY <3>1, <4>1
      <4>4. ClientOK(c)'
        <5>1. checkpoint'[c] # 0 /\ checkpoint'[c] <= nextEventID'
          BY <4>3, <1>1, <1>3, <1>i DEF Grows
        <5>2. \A t \in CachedTypes : status'[c][t] >= cached'[t].id
          BY <4>3, <1>1, <1>3, CachedTyped
        <5>3. QED
          BY <4>3, <5>1, <5>2, Zenon DEF ClientOK
      <4>5. \A d \in Clients \ {c} : ClientOK(d)'
        BY <4>3, <1>3, OtherClient
      <4>6. QED
        BY <3>1, <3>2, <4>1, <4>2, <4>3, <4>4, <4>5
    <3>3. CASE ~Up(s)
      <4>1. checkpoint' = checkpoint /\ owed' = owed /\ status' = status
              /\ current' = current /\ redelivered' = redelivered
        BY <1>5, <3>3 DEF observed
      <4>2. \A d \in Clients : ClientOK(d)'
        BY <4>1, <1>3, OtherClient
      <4>3. QED
        BY <3>1, <3>3, <4>1, <4>2
    <3>4. QED
      BY <3>2, <3>3
  <2>4. Placed(s)'
    <3>1. Up(s)' <=> Up(s)
      BY <1>1, <2>1, <1>c DEF Up
    <3>2. \A d \in Clients : conn'[d] = s => h.client = d
      BY <1>1, <2>1, <1>c DEF StreamOK, Placed
    <3>3. QED
      BY <1>1, <2>1, <2>3, <3>1, <3>2 DEF Placed
  <2>5. Supplies(s)'
    <3>1. Issued(c)' \subseteq Issued(c)
      BY <1>3, <2>3, SameIssued
    <3>2. Floor(h) = id /\ Floor(g) = id /\ HasHistory(g)
      BY <1>1, <1>i, <2>1 DEF Floor, HasHistory
    <3>3. QED
      BY <1>1, <1>2, <1>c, <2>1, <3>1, <3>2 DEF StreamOK, Supplies, Held
  <2>6. ASSUME NEW x \in Streams, x # s PROVE StreamOK(x)'
    <3>1. /\ handler'[x] = handler[x] /\ chan'[x].buf = chan[x].buf
          /\ handler[x].client \in Clients /\ conn' = conn
      BY <1>1, <1>2, <2>1, <2>6 DEF Handlers
    <3>2. Issued(handler[x].client)' \subseteq Issued(handler[x].client)
      BY <1>3, <2>3, <3>1, SameIssued
    <3>3. Up(x)' => checkpoint'[handler[x].client] = checkpoint[handler[x].client]
      <4> SUFFICES ASSUME conn[handler[x].client] = x, Up(s)
                   PROVE  handler[x].client # c
        BY <2>3, <3>1 DEF Up
      <4>1. QED
        BY <1>c, <2>6 DEF Up
    <3>4. QED
      BY <1>2, <1>3, <3>1, <3>2, <3>3, OtherStream
  <2>7. StreamTypes'
    BY <1>1, <2>1, <2>3 DEF StreamInv, StreamTypes
  <2>8. QED
    BY <1>2, <2>2, <2>3, <2>4, <2>5, <2>6, <2>7 DEF StreamInv, StreamOK, InOrderOnce
<1>6. QED
  BY <1>4, <1>5, <1>c, <1>i DEF WriteStale

-----------------------------------------------------------------------------
(* Connections and the end of the hub. *)

LEMMA ContextDoneOK == ASSUME StreamInv, NEW s \in Streams, ContextDone(s) PROVE StreamInv'
<1>1. /\ HubInv /\ HubKept /\ done' \in BOOLEAN /\ closed' \in BOOLEAN
      /\ handler' = handler /\ conn' = conn /\ drops' = drops
      /\ UNCHANGED << checkpoint, restarts, observed >>
      /\ conn \in [Clients -> Streams \union {NoStream}] /\ drops \in 0 .. MaxDrops
  BY DEF StreamInv, StreamTypes, ContextDone, HubInv, HubTypeOK, HubKept, streamVars
<1>2. HubInv' /\ \A x \in Streams : chan'[x].buf = chan[x].buf
  <2>1. {s} \in SUBSET Streams /\ Unsubscribe({s})
    BY DEF ContextDone
  <2>2. QED
    BY <1>1, <2>1, UnsubscribeKeeps
<1>3. subscribers' \subseteq subscribers
  BY DEF ContextDone, Unsubscribe
<1>4. QED
  BY <1>1, <1>2, <1>3, NoHandler

LEMMA CloseHubOK == ASSUME StreamInv, CloseHub PROVE StreamInv'
<1>1. /\ HubInv /\ HubKept /\ done' \in BOOLEAN /\ closed' \in BOOLEAN
      /\ handler' = handler /\ conn' = conn /\ drops' = drops
      /\ UNCHANGED << checkpoint, restarts, observed >>
      /\ conn \in [Clients -> Streams \union {NoStream}] /\ drops \in 0 .. MaxDrops
  <2>1. /\ UNCHANGED << nextEventID, ring, ringHead, ringCount, cached >>
        /\ done' \in {done, TRUE} /\ closed' \in {closed, TRUE}
    BY DEF CloseHub, CloseDone, CloseSubscribers
  <2>2. /\ nextEventID \in Nat /\ done \in BOOLEAN /\ closed \in BOOLEAN
    BY DEF StreamInv, HubInv, HubTypeOK
  <2>3. HubKept
    BY <2>1, <2>2 DEF HubKept
  <2>4. done' \in BOOLEAN /\ closed' \in BOOLEAN
    BY <2>1, <2>2
  <2>5. QED
    BY <2>3, <2>4 DEF StreamInv, StreamTypes, CloseHub, streamVars
<1>2. HubInv' /\ (\A x \in Streams : chan'[x].buf = chan[x].buf)
        /\ subscribers' \subseteq subscribers
  <2>1. CASE CloseDone
    <3>1. chan' = chan /\ subscribers' = subscribers
      BY <2>1 DEF CloseDone
    <3>2. QED
      BY <3>1, <1>1, BuffersKept DEF HubInv, HubTypeOK
  <2>2. CASE CloseSubscribers
    <3>1. Streams \in SUBSET Streams /\ Unsubscribe(Streams)
      BY <2>2 DEF CloseSubscribers
    <3>2. HubInv' /\ \A x \in Streams : chan'[x].buf = chan[x].buf
      BY <1>1, <3>1, UnsubscribeKeeps
    <3>3. QED
      BY <3>1, <3>2 DEF Unsubscribe
  <2>3. QED
    BY <2>1, <2>2 DEF CloseHub
<1>3. QED
  BY <1>1, <1>2, NoHandler

LEMMA LosesConnection ==
    ASSUME StreamInv, NEW c \in Clients, conn' = [conn EXCEPT ![c] = NoStream],
           drops' \in 0 .. MaxDrops,
           UNCHANGED << hubVars, handler, checkpoint, restarts, observed >>
    PROVE  StreamInv'
<1>1. /\ HubInv' /\ HubKept /\ \A x \in Streams : chan'[x].buf = chan[x].buf
      /\ subscribers' = subscribers
  BY HubUnchanged DEF StreamInv, hubVars
<1>2. /\ conn' \in [Clients -> Streams \union {NoStream}]
      /\ \A d \in Clients : conn'[d] \in {conn[d], NoStream}
  BY DEF StreamInv, StreamTypes
<1>3. QED
  BY <1>1, <1>2, NoHandler

LEMMA SeesEndOK == ASSUME StreamInv, NEW c \in Clients, SeesEnd(c) PROVE StreamInv'
<1>1. drops' \in 0 .. MaxDrops
  BY DEF SeesEnd, StreamInv, StreamTypes
<1>2. QED
  BY <1>1, LosesConnection DEF SeesEnd

LEMMA DropOK == ASSUME StreamInv, NEW c \in Clients, Drop(c) PROVE StreamInv'
<1>1. drops' \in 0 .. MaxDrops
  BY StreamAssumption DEF Drop, StreamInv, StreamTypes
<1>2. QED
  BY <1>1, LosesConnection DEF Drop

LEMMA ConnectOK ==
    ASSUME StreamInv, NEW c \in Clients, NEW s \in Streams, Connect(c, s)
    PROVE  StreamInv'
<1>b. PICK b \in BOOLEAN : b = (checkpoint[c] # 0)
  OBVIOUS
<1>h. PICK h : h = [pc |-> "flush", client |-> c, hasCursor |-> b,
                    deliveredThrough |-> checkpoint[c], replay |-> << >>, staleID |-> 0]
  OBVIOUS
<1>1. /\ conn[c] = NoStream /\ s \notin subscribers /\ \A d \in Clients : conn[d] # s
      /\ conn' = [conn EXCEPT ![c] = s] /\ Subscribe(s, ~b)
      /\ handler' = [handler EXCEPT ![s] = h]
      /\ owed' = IF b THEN owed ELSE [owed EXCEPT ![c] = {}]
      /\ checkpoint' = checkpoint /\ drops' = drops /\ restarts' = restarts
      /\ current' = current /\ status' = status /\ redelivered' = redelivered
  BY <1>b, <1>h DEF Connect
<1>2. /\ handler \in [Streams -> Handlers] /\ checkpoint \in [Clients -> Nat]
      /\ conn \in [Clients -> Streams \union {NoStream}] /\ owed \in [Clients -> SUBSET Nat]
      /\ HubInv
  BY DEF StreamInv, StreamTypes
<1>3. /\ HubInv' /\ \A x \in Streams \ {s} : chan'[x].buf = chan[x].buf
      /\ subscribers \subseteq subscribers' /\ subscribers' \subseteq subscribers \union {s}
      /\ b \/ s \notin subscribers' => IdsOf(chan'[s].buf) = {}
      /\ ~b /\ s \in subscribers' \ subscribers => \A t \in CachedTypes :
            cached[t] = NoEvent \/ cached[t].id \in IdsOf(chan'[s].buf)
  BY <1>1, <1>2, SubscribeKeeps
<1>4. Grows /\ cached' = cached
  <2>1. HubKept
    BY <1>1, <1>2 DEF Subscribe, HubKept, HubInv, HubTypeOK
  <2>2. QED
    BY <1>2, <2>1, HubGrows DEF HubKept
<1>5. /\ h \in Handlers /\ h.pc = "flush" /\ h.client = c /\ h.hasCursor = b
      /\ h.deliveredThrough = checkpoint[c] /\ h.replay = << >> /\ h.staleID = 0
  <2>1. checkpoint[c] \in Nat
    BY <1>2
  <2>2. QED
    BY <1>h, <2>1 DEF Handlers, HandlerStates
<1>6. /\ handler' \in [Streams -> Handlers] /\ handler'[s] = h
      /\ \A x \in Streams \ {s} : handler'[x] = handler[x]
      /\ conn' \in [Clients -> Streams \union {NoStream}] /\ conn'[c] = s
      /\ \A d \in Clients \ {c} : conn'[d] = conn[d]
      /\ owed' \in [Clients -> SUBSET Nat] /\ \A d \in Clients : owed'[d] \subseteq owed[d]
      /\ ~b => owed'[c] = {}
  BY <1>1, <1>2, <1>5
<1>7. InOrder(s)'
  <2>1. Ascends(h.replay) /\ Range(h.replay) = {} /\ h.staleID <= nextEventID'
    BY <1>4, <1>5, AscendsNone DEF Grows
  <2>2. ~b => h.deliveredThrough = 0 /\ h.deliveredThrough <= nextEventID'
    <3>1. ~b => checkpoint[c] = 0
      BY <1>b
    <3>2. QED
      BY <3>1, <1>4, <1>5 DEF Grows
  <2>3. \A e \in IdsOf(chan'[s].buf) : e > 0
    <3>1. chan'[s].buf \in Seq(Events)
      BY <1>3 DEF HubInv, HubTypeOK
    <3>2. \A i \in DOMAIN chan'[s].buf : chan'[s].buf[i] \in Events
      BY <3>1
    <3>3. QED
      BY <3>2 DEF IdsOf, Events
  <2>4. QED
    BY <1>5, <1>6, <2>1, <2>2, <2>3, Zenon DEF InOrder
<1>8. Placed(s)'
  <2>1. \A d \in Clients : conn'[d] = s => h.client = d
    BY <1>1, <1>5, <1>6
  <2>2. QED
    BY <1>1, <1>5, <1>6, <2>1 DEF Placed
<1>9. Supplies(s)'
  <2>1. ASSUME ~b, NEW e \in Issued(c)' PROVE Held(s, h, e)'
    <3>1. PICK t \in CachedTypes : cached[t] # NoEvent /\ e = cached[t].id
      BY <2>1, <1>4, <1>6 DEF Issued
    <3>2. s \in subscribers' => e \in IdsOf(chan'[s].buf)
      BY <3>1, <2>1, <1>1, <1>3
    <3>3. s \notin subscribers' => IdsOf(chan'[s].buf) = {}
      BY <1>3
    <3>4. IdsOf(h.replay) = {}
      BY <1>5, AscendsNone
    <3>5. QED
      BY <3>2, <3>3, <3>4, Zenon DEF Held
  <2>2. HasHistory(h) => ~b
    BY <1>5 DEF HasHistory
  <2>3. QED
    BY <1>5, <1>6, <2>1, <2>2, Zenon DEF Supplies
<1>10. ASSUME NEW x \in Streams, x # s PROVE StreamOK(x)'
  <2>1. /\ handler'[x] = handler[x] /\ chan'[x].buf = chan[x].buf
        /\ handler[x].client \in Clients
        /\ x \in subscribers' => x \in subscribers
        /\ \A d \in Clients : conn'[d] = x => conn[d] = x
    BY <1>2, <1>3, <1>6, <1>10 DEF Handlers
  <2>2. Issued(handler[x].client)' \subseteq Issued(handler[x].client)
    BY <1>4, <1>6, <2>1, SameIssued
  <2>3. QED
    BY <1>1, <1>4, <2>1, <2>2, OtherStream
<1>11. \A d \in Clients : ClientOK(d)'
  BY <1>1, <1>4, <1>6, OtherClient
<1>12. StreamTypes'
  BY <1>1, <1>6 DEF StreamInv, StreamTypes
<1>13. QED
  BY <1>1, <1>3, <1>7, <1>8, <1>9, <1>10, <1>11, <1>12 DEF StreamInv, StreamOK, InOrderOnce

-----------------------------------------------------------------------------
(* The daemon. *)

LEMMA PublishOK == ASSUME StreamInv, NEW type \in EventTypes, Publish(type) PROVE StreamInv'
<1>r. PICK rec : rec = [id |-> nextEventID + 1, type |-> type]
  OBVIOUS
<1>1. /\ HubInv /\ nextEventID \in Nat /\ Broadcast(type)
      /\ handler' = handler /\ checkpoint' = checkpoint /\ conn' = conn
      /\ drops' = drops /\ restarts' = restarts /\ current' = current
      /\ status' = status /\ redelivered' = redelivered
  BY DEF StreamInv, HubInv, HubTypeOK, Publish, streamVars
<1>2. /\ HubInv' /\ nextEventID' = rec.id
      /\ \A t \in CachedTypes : cached'[t] = IF t = type THEN rec ELSE cached[t]
      /\ \A r : Genuine(r) => Genuine(r)'
      /\ \A e \in Nat : Vouched(e) => Vouched(e)'
      /\ Vouched(rec.id)' /\ subscribers' \subseteq subscribers
      /\ \A s \in Streams :
            /\ s \in subscribers' => IdsOf(chan'[s].buf) = IdsOf(chan[s].buf) \union {rec.id}
            /\ s \notin subscribers' => chan'[s].buf = chan[s].buf
  BY <1>1, <1>r, BroadcastKeeps
<1>n. PICK n \in Nat : n = rec.id /\ n = nextEventID + 1
  BY <1>1, <1>r
<1>3. Grows
  BY <1>1, <1>2, <1>n DEF Grows
<1>4. /\ owed \in [Clients -> SUBSET Nat] /\ owed' \in [Clients -> SUBSET Nat]
      /\ \A c \in Clients : \/ owed'[c] = owed[c]
                            \/ owed'[c] = owed[c] \union {n}
  <2>1. owed \in [Clients -> SUBSET Nat]
    BY DEF StreamInv, StreamTypes
  <2>2. owed' = [c \in Clients |->
          IF c \in current /\ (checkpoint[c] # 0 \/ conn[c] # NoStream)
          THEN owed[c] \union {n} ELSE owed[c]]
    BY <1>n DEF Publish
  <2>3. QED
    BY <2>1, <2>2
<1>5. ASSUME NEW c \in Clients PROVE Issued(c)' \subseteq Issued(c) \union {n}
  <2>1. \A t \in CachedTypes : cached'[t] # NoEvent =>
            cached'[t].id = n \/ (cached[t] # NoEvent /\ cached'[t].id = cached[t].id)
    BY <1>2, <1>n
  <2>2. QED
    BY <1>4, <2>1 DEF Issued
<1>6. ASSUME NEW s \in Streams PROVE StreamOK(s)'
  <2>1. /\ StreamOK(s) /\ handler[s] \in Handlers /\ handler'[s] = handler[s]
        /\ handler[s].replay \in Seq(Events) /\ chan[s].buf \in Seq(Events)
        /\ handler[s].client \in Clients
    BY <1>1 DEF StreamInv, StreamTypes, Handlers, HubInv, HubTypeOK
  <2>2. \A e \in IdsOf(chan[s].buf) \union IdsOf(handler[s].replay) : e < n
    <3>1. \A r \in Range(chan[s].buf) \union Range(handler[s].replay) : Genuine(r)
      BY <1>1, <2>1 DEF StreamOK, InOrder, HubInv, ChannelsInOrder
    <3>2. \A r \in Range(chan[s].buf) \union Range(handler[s].replay) : r.id < n
      BY <3>1, <1>1, <1>n DEF Genuine, Events
    <3>3. QED
      BY <3>2 DEF IdsOf, Range
  <2>3. InOrder(s)'
    <3>1. \A r \in Range(handler[s].replay) :
             Genuine(r)' /\ r.id > handler[s].deliveredThrough
      BY <2>1, <1>2 DEF StreamOK, InOrder
    <3>2. handler[s].staleID <= nextEventID' /\ Ascends(handler[s].replay)
      BY <2>1, <1>3 DEF StreamOK, InOrder, Grows, Handlers
    <3>3. ASSUME handler[s].pc # "returned", ~handler[s].hasCursor
          PROVE  /\ handler[s].deliveredThrough <= nextEventID'
                 /\ \A e \in IdsOf(chan'[s].buf) : e > handler[s].deliveredThrough
      <4>1. /\ handler[s].deliveredThrough <= nextEventID
            /\ handler[s].deliveredThrough \in Nat
            /\ \A e \in IdsOf(chan[s].buf) : e > handler[s].deliveredThrough
        BY <2>1, <3>3 DEF StreamOK, InOrder, Handlers
      <4>2. n > handler[s].deliveredThrough
        BY <4>1, <1>n, <1>1
      <4>3. \A e \in IdsOf(chan'[s].buf) : e \in IdsOf(chan[s].buf) \/ e = n
        BY <1>2, <1>n
      <4>4. QED
        BY <4>1, <4>2, <4>3, <1>2, <1>n
    <3>4. QED
      BY <2>1, <3>1, <3>2, <3>3, Zenon DEF InOrder
  <2>4. Placed(s)'
    BY <1>1, <2>1 DEF StreamOK, Placed, Up
  <2>5. Supplies(s)'
    <3> DEFINE g == handler[s]
    <3>1. ASSUME HasHistory(g), NEW e \in Issued(g.client)', e > Floor(g)
          PROVE  Held(s, g, e)'
      <4>1. CASE e = n
        <5>1. \A d \in IdsOf(g.replay) : d < e
          BY <4>1, <2>2
        <5>2. s \in subscribers' => e \in IdsOf(chan'[s].buf)
          BY <4>1, <1>2, <1>n
        <5>3. s \notin subscribers' => \A d \in IdsOf(chan'[s].buf) : d < e
          BY <4>1, <1>2, <2>2
        <5>4. QED
          BY <5>1, <5>2, <5>3, <2>1, Zenon DEF Held
      <4>2. CASE e # n
        <5>1. Held(s, g, e)
          BY <3>1, <4>2, <1>5, <2>1 DEF StreamOK, Supplies
        <5>2. s \in subscribers' => IdsOf(chan[s].buf) \subseteq IdsOf(chan'[s].buf)
          BY <1>2
        <5>3. s \notin subscribers' => chan'[s].buf = chan[s].buf
          BY <1>2
        <5>4. QED
          BY <5>1, <5>2, <5>3, <1>2, <2>1 DEF Held
      <4>3. QED
        BY <4>1, <4>2
    <3>2. QED
      BY <2>1, <3>1 DEF Supplies
  <2>6. QED
    BY <2>3, <2>4, <2>5 DEF StreamOK
<1>7. ASSUME NEW c \in Clients PROVE ClientOK(c)'
  <2>1. ClientOK(c) /\ checkpoint[c] \in Nat /\ owed[c] \in SUBSET Nat
    BY DEF StreamInv, StreamTypes
  <2>2. \A e \in owed'[c] : e \in owed[c] \/ e = n
    BY <1>4
  <2>3. \A e \in owed'[c] : Vouched(e)'
    BY <2>1, <2>2, <1>2, <1>n DEF ClientOK
  <2>4. ASSUME c \in current PROVE checkpoint[c] < n
    BY <2>1, <2>4, <1>1, <1>n DEF ClientOK
  <2>5. ASSUME c \in current, NEW t \in CachedTypes, cached'[t].id <= checkpoint[c]
        PROVE  status[c][t] >= cached'[t].id
    <3>1. t # type
      <4> SUFFICES ASSUME t = type PROVE FALSE
        OBVIOUS
      <4>1. cached'[t] = rec
        BY <1>2
      <4>2. n <= checkpoint[c]
        BY <4>1, <2>5, <1>n
      <4>3. QED
        BY <4>2, <2>1, <2>4, <2>5
    <3>2. cached'[t] = cached[t]
      BY <3>1, <1>2
    <3>3. QED
      BY <3>2, <2>1, <2>5 DEF ClientOK
  <2>6. checkpoint[c] = 0 => c \in current
    BY <2>1 DEF ClientOK
  <2>7. c \in current => checkpoint[c] <= nextEventID'
                           /\ \A e \in owed'[c] : e > checkpoint[c]
    BY <2>1, <2>2, <2>4, <1>2, <1>n DEF ClientOK
  <2>8. QED
    BY <2>3, <2>5, <2>6, <2>7, <1>1, Zenon DEF ClientOK
<1>8. StreamTypes'
  BY <1>1, <1>4 DEF StreamInv, StreamTypes
<1>9. QED
  BY <1>1, <1>2, <1>6, <1>7, <1>8 DEF StreamInv, InOrderOnce

LEMMA RestartOK == ASSUME StreamInv, Restart PROVE StreamInv'
<1>1. /\ HubInv' /\ nextEventID' = 0 /\ \A t \in CachedTypes : cached'[t].id = 0
      /\ handler \in [Streams -> Handlers] /\ checkpoint \in [Clients -> Nat]
      /\ handler' = [s \in Streams |-> Idle(handler[s].client)]
      /\ conn' = [c \in Clients |-> NoStream]
      /\ current' = {c \in Clients : checkpoint[c] = 0}
      /\ owed' = [c \in Clients |-> {}]
      /\ status' = [c \in Clients |-> [t \in CachedTypes |-> 0]]
      /\ checkpoint' = checkpoint /\ drops' = drops /\ redelivered' = redelivered
  BY HubRestarts DEF Restart, NewLifetime, StreamInv, StreamTypes, NoEvent
<1>2. \A s \in Streams : handler[s].client \in Clients /\ handler'[s] = Idle(handler[s].client)
  BY <1>1 DEF Handlers
<1>3. StreamTypes'
  <2>1. handler' \in [Streams -> Handlers]
    BY <1>1, <1>2, IdleTyped
  <2>2. restarts' \in 0 .. MaxRestarts
    BY StreamAssumption DEF Restart, StreamInv, StreamTypes
  <2>3. conn' \in [Clients -> Streams \union {NoStream}] /\ owed' \in [Clients -> SUBSET Nat]
        /\ status' \in [Clients -> [CachedTypes -> Nat]] /\ current' \subseteq Clients
    BY <1>1
  <2>4. QED
    BY <1>1, <2>1, <2>2, <2>3 DEF StreamInv, StreamTypes
<1>4. ASSUME NEW s \in Streams PROVE StreamOK(s)'
  <2>1. PICK c \in Clients : c = handler[s].client
    BY <1>2
  <2>2. \A d \in Clients : conn'[d] = s => d = c
    BY <1>1, StreamAssumption
  <2>3. handler'[s] = Idle(c) /\ nextEventID' \in Nat
    BY <1>1, <1>2, <2>1
  <2>4. QED
    BY <2>2, <2>3, IdleOK
<1>5. ASSUME NEW c \in Clients PROVE ClientOK(c)'
  <2>1. owed'[c] = {} /\ \A t \in CachedTypes : status'[c][t] = 0
    BY <1>1
  <2>2. c \in current' <=> checkpoint[c] = 0
    BY <1>1
  <2>3. QED
    BY <1>1, <2>1, <2>2 DEF ClientOK
<1>6. QED
  BY <1>1, <1>3, <1>4, <1>5 DEF StreamInv, InOrderOnce

LEMMA InitOK == Init => StreamInv
<1> SUFFICES ASSUME Init PROVE StreamInv
  OBVIOUS
<1>1. HubInv
  BY HubStarts DEF Init
<1>2. /\ nextEventID = 0 /\ \A t \in CachedTypes : cached[t].id = 0
      /\ checkpoint = [c \in Clients |-> 0] /\ conn = [c \in Clients |-> NoStream]
      /\ drops = 0 /\ restarts = 0 /\ current = Clients
      /\ owed = [c \in Clients |-> {}]
      /\ status = [c \in Clients |-> [t \in CachedTypes |-> 0]] /\ redelivered = {}
  BY DEF Init, HubInit, NoEvent
<1>3. PICK c \in Clients : handler = [s \in Streams |-> Idle(c)]
  BY DEF Init
<1>4. StreamTypes
  <2>1. handler \in [Streams -> Handlers]
    BY <1>3, IdleTyped
  <2>2. QED
    BY <1>2, <2>1, StreamAssumption DEF StreamTypes
<1>5. ASSUME NEW s \in Streams PROVE StreamOK(s)
  <2>1. /\ handler[s].pc = "returned" /\ handler[s].client = c
        /\ handler[s].replay = << >> /\ handler[s].staleID = 0
    BY <1>3, IdleTyped
  <2>2. InOrder(s)
    BY <1>2, <2>1, AscendsNone DEF InOrder
  <2>3. Placed(s)
    BY <1>2, <2>1, StreamAssumption DEF Placed
  <2>4. Supplies(s)
    BY <2>1 DEF Supplies, HasHistory
  <2>5. QED
    BY <2>2, <2>3, <2>4 DEF StreamOK
<1>6. ASSUME NEW d \in Clients PROVE ClientOK(d)
  BY <1>2 DEF ClientOK
<1>7. QED
  BY <1>1, <1>2, <1>4, <1>5, <1>6 DEF StreamInv, InOrderOnce

-----------------------------------------------------------------------------
LEMMA StreamStep == StreamInv /\ [Next]_vars => StreamInv'
<1> SUFFICES ASSUME StreamInv, [Next]_vars PROVE StreamInv'
  OBVIOUS
<1>1. ASSUME NEW t \in EventTypes, Publish(t) PROVE StreamInv'
  BY <1>1, PublishOK
<1>2. ASSUME NEW c \in Clients, NEW s \in Streams, Connect(c, s) PROVE StreamInv'
  BY <1>2, ConnectOK
<1>3. ASSUME NEW c \in Clients, SeesEnd(c) \/ Drop(c) PROVE StreamInv'
  BY <1>3, SeesEndOK, DropOK
<1>4. ASSUME NEW s \in Streams, HandlerStep(s) PROVE StreamInv'
  BY <1>4, FlushOK, SnapshotOK, WriteStaleOK, WriteReplayOK, GoLiveOK, LiveOK,
     LiveReturnsOK, ContextDoneOK DEF HandlerStep
<1>5. ASSUME CloseHub PROVE StreamInv'
  BY <1>5, CloseHubOK
<1>6. ASSUME Restart PROVE StreamInv'
  BY <1>6, RestartOK
<1>7. CASE UNCHANGED vars
  <2>1. UNCHANGED << hubVars, handler, checkpoint, conn, drops, restarts, observed >>
    BY <1>7 DEF vars, streamVars
  <2>2. /\ HubInv' /\ HubKept /\ \A x \in Streams : chan'[x].buf = chan[x].buf
        /\ subscribers' = subscribers
    BY <2>1, HubUnchanged DEF StreamInv, hubVars
  <2>3. /\ conn' \in [Clients -> Streams \union {NoStream}] /\ drops' \in 0 .. MaxDrops
        /\ \A c \in Clients : conn'[c] \in {conn[c], NoStream}
    BY <2>1 DEF StreamInv, StreamTypes
  <2>4. QED
    BY <2>1, <2>2, <2>3, NoHandler
<1>8. QED
  BY <1>1, <1>2, <1>3, <1>4, <1>5, <1>6, <1>7 DEF Next

LEMMA StreamInvariant == Spec => []StreamInv
<1>1. QED
  BY InitOK, StreamStep, PTL DEF Spec

\* Every step keeps the hub, the handlers and the browsers within their types:
\* ids, ring slots, channel lengths and handler states.
THEOREM StreamTypeOK == Spec => []TypeOK
<1>1. StreamInv => TypeOK
  BY DEF StreamInv, HubInv, StreamTypes, TypeOK, Handlers
<1>2. QED
  BY <1>1, StreamInvariant, PTL

\* No checkpoint passes an event its browser was not given, for any number of
\* browsers and handlers and any capacity of the ring and of the channels.
THEOREM StreamCheckpointSound == Spec => []CheckpointSound
<1>1. StreamInv => CheckpointSound
  BY DEF StreamInv, StreamTypes, ClientOK, CheckpointSound
<1>2. QED
  BY <1>1, StreamInvariant, PTL

\* No browser is sent an event at or below its checkpoint: replay and channel
\* overlap, and a browser that reconnects may be served by any handler.
THEOREM StreamInOrderOnce == Spec => []InOrderOnce
<1>1. StreamInv => InOrderOnce
  BY DEF StreamInv
<1>2. QED
  BY <1>1, StreamInvariant, PTL

\* The latest event of each cached type is known to every browser a live
\* subscriber serves, or still in that subscriber's replay or channel.
THEOREM StreamStatusOnItsWay == Spec => []StatusOnItsWay
<1>1. ASSUME StreamInv PROVE StatusOnItsWay
  <2> SUFFICES ASSUME NEW s \in subscribers, Up(s), handler[s].pc = "live",
                      handler[s].client \in current, NEW t \in CachedTypes,
                      ~(status[handler[s].client][t] >= cached[t].id)
               PROVE  cached[t].id \in Pending(s)
    BY DEF StatusOnItsWay
  <2> DEFINE h == handler[s]
  <2>1. /\ s \in Streams /\ h \in Handlers /\ StreamOK(s) /\ ClientOK(h.client)
        /\ h.client \in Clients /\ checkpoint[h.client] \in Nat /\ HubInv
    BY <1>1 DEF StreamInv, StreamTypes, HubInv, HubTypeOK, Handlers
  <2>2. h.deliveredThrough = checkpoint[h.client] /\ h.replay = << >> /\ h.staleID = 0
    BY <2>1 DEF StreamOK, Placed
  <2>3. cached[t].id \in Nat /\ cached[t].id > checkpoint[h.client]
    BY <2>1, CachedTyped DEF ClientOK
  <2>4. cached[t].id \in Issued(h.client)
    <3>1. cached[t] # NoEvent
      BY <2>1, <2>3, CachedTyped
    <3>2. QED
      BY <3>1 DEF Issued
  <2>5. Held(s, h, cached[t].id)
    BY <2>1, <2>2, <2>3, <2>4 DEF StreamOK, Supplies, HasHistory, Floor
  <2>6. QED
    BY <2>5 DEF Held, Pending, IdsOf
<1>2. QED
  BY <1>1, StreamInvariant, PTL
=============================================================================
