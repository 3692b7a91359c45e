---------------------------- MODULE EventStream ----------------------------
(***************************************************************************)
(* The browser event stream: the SSE request handlers of                   *)
(* internal/server/streamapi on one side, on the other the browsers that   *)
(* keep the id of the last accepted event as a checkpoint and present it   *)
(* when they reconnect (frontend provider-events-workflow.ts).             *)
(*                                                                         *)
(* A connection can break at any moment.  A handler that has not noticed   *)
(* still writes, and such a write either disappears or fails.  A write on  *)
(* a connection that is up and its processing by the browser are one step: *)
(* a frame that was sent and not processed before the break is a frame     *)
(* that was written after it.                                              *)
(***************************************************************************)
EXTENDS EventHub

CONSTANTS
    Clients,       \* browsers
    NoStream,      \* a browser without a connection
    MaxEventID,    \* bound: the last id that is broadcast
    MaxDrops,      \* bound: connections that break
    MaxRestarts    \* bound: daemon restarts

ASSUME StreamAssumption ==
    /\ NoStream \notin Streams
    /\ MaxEventID \in Nat
    /\ MaxDrops \in Nat
    /\ MaxRestarts \in Nat

VARIABLES
    handler,       \* local state of each SSE handler
    checkpoint,    \* last accepted event id of each browser, 0 when none
    conn,          \* the stream a browser reads from
    drops, restarts,
    (* Observation only. *)
    current,       \* browsers whose checkpoint was issued in this lifetime
    owed,          \* events broadcast for a browser that it has not accounted for
    status,        \* newest event of each cached type a browser knows of
    redelivered    \* browsers sent an event at or below their checkpoint

streamVars == << handler, checkpoint, conn, drops, restarts >>
observed   == << current, owed, status, redelivered >>
vars       == << hubVars, streamVars, observed >>

HandlerStates == {"flush", "snapshot", "replay", "live", "returned"}

Idle(c) == [pc |-> "returned", client |-> c, hasCursor |-> FALSE,
            deliveredThrough |-> 0, replay |-> << >>, staleID |-> 0]

TypeOK ==
    /\ HubTypeOK
    /\ handler \in [Streams -> [pc : HandlerStates, client : Clients,
                                hasCursor : BOOLEAN, deliveredThrough : Nat,
                                replay : Seq(Events), staleID : Nat]]
    /\ checkpoint \in [Clients -> Nat]
    /\ conn \in [Clients -> Streams \union {NoStream}]
    /\ drops \in 0 .. MaxDrops
    /\ restarts \in 0 .. MaxRestarts
    /\ current \subseteq Clients
    /\ owed \in [Clients -> SUBSET Nat]
    /\ status \in [Clients -> [CachedTypes -> Nat]]
    /\ redelivered \subseteq Clients

Init ==
    /\ HubInit
    /\ \E c \in Clients : handler = [s \in Streams |-> Idle(c)]
    /\ checkpoint = [c \in Clients |-> 0]
    /\ conn = [c \in Clients |-> NoStream]
    /\ drops = 0
    /\ restarts = 0
    /\ current = Clients
    /\ owed = [c \in Clients |-> {}]
    /\ status = [c \in Clients |-> [t \in CachedTypes |-> 0]]
    /\ redelivered = {}

-----------------------------------------------------------------------------
(* The browser. *)

Up(s) == conn[handler[s].client] = s

\* The browser accepts one event: the checkpoint only ever advances.
Accept(c, rec) ==
    /\ checkpoint' = [checkpoint EXCEPT ![c] = IF rec.id > @ THEN rec.id ELSE @]
    /\ owed' = [owed EXCEPT ![c] = @ \ {rec.id}]
    /\ status' = [status EXCEPT ![c] = [t \in CachedTypes |->
                     IF t = rec.type /\ rec.id > @[t] THEN rec.id ELSE @[t]]]
    /\ redelivered' = IF rec.id <= checkpoint[c]
                      THEN redelivered \union {c} ELSE redelivered
    /\ UNCHANGED current

\* reconnect.stale: refetch everything, then restart from the given id.
AcceptStale(c, id) ==
    /\ checkpoint' = [checkpoint EXCEPT ![c] = id]
    /\ owed' = [owed EXCEPT ![c] = {}]
    /\ status' = [status EXCEPT ![c] = [t \in CachedTypes |-> cached[t].id]]
    /\ current' = current \union {c}
    /\ UNCHANGED redelivered

\* The server sees the request ended, or the browser that the stream ended.
SeesEnd(c) ==
    /\ conn[c] # NoStream
    /\ handler[conn[c]].pc = "returned"
    /\ conn' = [conn EXCEPT ![c] = NoStream]
    /\ UNCHANGED << hubVars, handler, checkpoint, drops, restarts, observed >>

Drop(c) ==
    /\ conn[c] # NoStream
    /\ drops < MaxDrops
    /\ drops' = drops + 1
    /\ conn' = [conn EXCEPT ![c] = NoStream]
    /\ UNCHANGED << hubVars, handler, checkpoint, restarts, observed >>

-----------------------------------------------------------------------------
(* The SSE handler. *)

\* ParseLastEventID, then Subscribe before anything is written.
Connect(c, s) ==
    LET hasCursor == checkpoint[c] # 0 IN
    /\ conn[c] = NoStream
    /\ handler[s].pc = "returned" /\ s \notin subscribers
    /\ \A d \in Clients : conn[d] # s
    /\ conn' = [conn EXCEPT ![c] = s]
    /\ Subscribe(s, ~hasCursor)
    /\ handler' = [handler EXCEPT ![s] =
          [pc |-> "flush", client |-> c, hasCursor |-> hasCursor,
           deliveredThrough |-> checkpoint[c], replay |-> << >>, staleID |-> 0]]
    \* without a checkpoint the browser loads its state afresh
    /\ owed' = IF hasCursor THEN owed ELSE [owed EXCEPT ![c] = {}]
    /\ UNCHANGED << checkpoint, drops, restarts, current, status, redelivered >>

\* Its local variables are gone with it.
Return(s) == handler' = [handler EXCEPT ![s] = Idle(handler[s].client)]

\* rc.Flush of the response header
Flush(s) ==
    /\ handler[s].pc = "flush"
    /\ \/ handler' = [handler EXCEPT ![s].pc =
                         IF handler[s].hasCursor THEN "snapshot" ELSE "live"]
       \/ ~Up(s) /\ Return(s)
    /\ UNCHANGED << hubVars, checkpoint, conn, drops, restarts, observed >>

\* ReplaySnapshotSince
Snapshot(s) ==
    LET cursor == handler[s].deliveredThrough IN
    /\ handler[s].pc = "snapshot"
    /\ IF StaleCursor(cursor)
       THEN /\ TakeSyntheticID
            /\ handler' = [handler EXCEPT ![s].pc = "replay",
                                          ![s].staleID = nextEventID + 1]
       ELSE /\ handler' = [handler EXCEPT ![s].pc = "replay",
                                          ![s].replay = After(cursor)]
            /\ UNCHANGED hubVars
    /\ UNCHANGED << checkpoint, conn, drops, restarts, observed >>

WriteStale(s) ==
    LET h == handler[s] IN
    /\ h.pc = "replay" /\ h.staleID # 0
    /\ \/ /\ handler' = [handler EXCEPT ![s].deliveredThrough = h.staleID,
                                        ![s].staleID = 0]
          /\ IF Up(s) THEN AcceptStale(h.client, h.staleID)
                      ELSE UNCHANGED << checkpoint, observed >>
       \/ ~Up(s) /\ Return(s) /\ UNCHANGED << checkpoint, observed >>
    /\ UNCHANGED << hubVars, conn, drops, restarts >>

WriteReplay(s) ==
    LET h == handler[s]  rec == Head(h.replay) IN
    /\ h.pc = "replay" /\ h.replay # << >>
    /\ \/ /\ handler' = [handler EXCEPT ![s].deliveredThrough = rec.id,
                                        ![s].replay = Tail(@)]
          /\ IF Up(s) THEN Accept(h.client, rec)
                      ELSE UNCHANGED << checkpoint, observed >>
       \/ ~Up(s) /\ Return(s) /\ UNCHANGED << checkpoint, observed >>
    /\ UNCHANGED << hubVars, conn, drops, restarts >>

GoLive(s) ==
    /\ handler[s].pc = "replay"
    /\ handler[s].staleID = 0 /\ handler[s].replay = << >>
    /\ handler' = [handler EXCEPT ![s].pc = "live"]
    /\ UNCHANGED << hubVars, checkpoint, conn, drops, restarts, observed >>

\* Mutant: the last replayed event is sent again.
SkipBefore(s, rec) == handler[s].hasCursor /\ rec.id < handler[s].deliveredThrough

\* A replayed event that also reached the channel is not sent twice.
Skip(s, rec) == handler[s].hasCursor /\ rec.id <= handler[s].deliveredThrough

Live(s) ==
    LET h == handler[s]  rec == Head(chan[s].buf) IN
    /\ h.pc = "live" /\ chan[s].buf # << >>
    /\ Receive(s)
    /\ \/ /\ Skip(s, rec)
          /\ UNCHANGED << handler, checkpoint, observed >>
       \/ /\ ~Skip(s, rec)
          /\ handler' = [handler EXCEPT ![s].deliveredThrough = rec.id]
          /\ IF Up(s) THEN Accept(h.client, rec)
                      ELSE UNCHANGED << checkpoint, observed >>
       \/ /\ ~Skip(s, rec) /\ ~Up(s)
          /\ Return(s) /\ UNCHANGED << checkpoint, observed >>
    /\ UNCHANGED << nextEventID, ring, ringHead, ringCount, cached, subscribers,
                    done, closed, conn, drops, restarts >>

\* Mutant: an evicted handler waits for its request to end.
LiveReturnsLate(s) ==
    /\ handler[s].pc = "live"
    /\ done \/ ~Up(s)
    /\ Return(s)
    /\ UNCHANGED << hubVars, checkpoint, conn, drops, restarts, observed >>

\* done closed, channel closed and drained, request context cancelled, or a
\* failed keepalive
LiveReturns(s) ==
    /\ handler[s].pc = "live"
    /\ done \/ (chan[s].closed /\ chan[s].buf = << >>) \/ ~Up(s)
    /\ Return(s)
    /\ UNCHANGED << hubVars, checkpoint, conn, drops, restarts, observed >>

\* The goroutine that waits for the request context.
ContextDone(s) ==
    /\ s \in subscribers
    /\ handler[s].pc = "returned" \/ ~Up(s)
    /\ Unsubscribe({s})
    /\ UNCHANGED << nextEventID, ring, ringHead, ringCount, cached, done, closed,
                    streamVars, observed >>

-----------------------------------------------------------------------------
(* The daemon. *)

Publish(type) ==
    /\ nextEventID < MaxEventID
    /\ Broadcast(type)
    /\ owed' = [c \in Clients |->
          IF c \in current /\ (checkpoint[c] # 0 \/ conn[c] # NoStream)
          THEN owed[c] \union {nextEventID + 1} ELSE owed[c]]
    /\ UNCHANGED << streamVars, current, status, redelivered >>

CloseHub ==
    /\ CloseDone \/ CloseSubscribers
    /\ UNCHANGED << streamVars, observed >>

\* Crash or exit, and start: browsers keep their checkpoints.
Restart ==
    /\ restarts < MaxRestarts
    /\ restarts' = restarts + 1
    /\ NewLifetime
    /\ handler' = [s \in Streams |-> Idle(handler[s].client)]
    /\ conn' = [c \in Clients |-> NoStream]
    /\ current' = {c \in Clients : checkpoint[c] = 0}
    /\ owed' = [c \in Clients |-> {}]
    /\ status' = [c \in Clients |-> [t \in CachedTypes |-> 0]]
    /\ UNCHANGED << checkpoint, drops, redelivered >>

HandlerStep(s) ==
    \/ Flush(s) \/ Snapshot(s) \/ WriteStale(s) \/ WriteReplay(s) \/ GoLive(s)
    \/ Live(s) \/ LiveReturns(s) \/ ContextDone(s)

Next ==
    \/ \E t \in EventTypes : Publish(t)
    \/ \E c \in Clients, s \in Streams : Connect(c, s)
    \/ \E c \in Clients : SeesEnd(c) \/ Drop(c)
    \/ \E s \in Streams : HandlerStep(s)
    \/ CloseHub
    \/ Restart

Spec == Init /\ [][Next]_vars

\* A goroutine that can run does; a browser reconnects (reconnectSchedule).
Fairness ==
    /\ \A s \in Streams : WF_vars(HandlerStep(s)) /\ WF_vars(ContextDone(s))
    /\ \A c \in Clients : WF_vars(SeesEnd(c))
    /\ \A c \in Clients : WF_vars(\E s \in Streams : Connect(c, s))

FairSpec == Spec /\ Fairness

-----------------------------------------------------------------------------
(* Properties. *)

\* A browser's checkpoint never passes an event it was not given: when it
\* reconnects, ReplaySnapshotSince(checkpoint) replays the event or reports
\* reconnect.stale.  (Subscribe before the snapshot, deliveredThrough, eviction.)
CheckpointSound ==
    \A c \in current : \A e \in owed[c] : e > checkpoint[c]

\* What a stream still holds for its browser.
Pending(s) ==
    {chan[s].buf[i].id : i \in DOMAIN chan[s].buf}
        \union {handler[s].replay[i].id : i \in DOMAIN handler[s].replay}

\* A browser is never sent an event at or below its checkpoint: replay and live
\* delivery do not repeat or reorder events, across reconnects included.
InOrderOnce == redelivered = {}

\* The latest sync status, config and hub-connection event is known to every
\* connected browser or is on its way to it, whether it came with a checkpoint,
\* with none, or with one that was stale.
StatusOnItsWay ==
    \A s \in subscribers :
        LET h == handler[s] IN
        (Up(s) /\ h.pc = "live" /\ h.client \in current)
            => \A t \in CachedTypes :
                  status[h.client][t] >= cached[t].id \/ cached[t].id \in Pending(s)

\* Every event a browser is owed is accounted for, by delivery or by a stale
\* signal, however often its connection breaks or its channel overflows.
EventuallyAccountedFor ==
    \A c \in Clients, e \in 1 .. MaxEventID :
        e \in owed[c] ~> (e \notin owed[c] \/ done)
=============================================================================
