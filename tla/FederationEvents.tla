-------------------------- MODULE FederationEvents --------------------------
(***************************************************************************)
(* The provider event stream from a federation hub to one spoke: the hub's *)
(* request handler (server/federation_events.go over streamapi), the       *)
(* spoke's EventClient (providerplane/events.go) with the callbacks it is  *)
(* given (syncevents/federation_events.go), the lifecycle that fleet.enabled *)
(* switches (spokeapi/federation_events.go), and revocation at the hub.    *)
(*                                                                         *)
(* The hub remembers nothing about the spoke and restarts its ids with     *)
(* every process.  The spoke tells its browsers that the hub is connected  *)
(* only after an authoritative refresh at the barrier that follows replay. *)
(*                                                                         *)
(* A handler whose connection is gone can no longer reach the spoke, so    *)
(* only the handler of the newest request is kept.                         *)
(***************************************************************************)
EXTENDS EventHub

CONSTANTS
    ProviderTypes,  \* hubProviderEventTypes of the spoke's version
    ForeignTypes,   \* let through by a newer hub, unknown to the spoke
    StatusType,     \* sync_status
    MaxEventID,     \* bound: the last id that is broadcast
    MaxWire,        \* frames the connection buffers
    MaxIncidents    \* bound: broken connections, failed requests, hub restarts,
                    \* changes of fleet.enabled and revocations, taken together

ASSUME FederationAssumption ==
    /\ \E s \in Streams : Streams = {s}
    \* an SSE event of its own, and a comment
    /\ {"stale", "barrier"} \intersect EventTypes = {}
    /\ StatusType \in ProviderTypes \intersect CachedTypes
    /\ ProviderTypes \subseteq EventTypes
    /\ ForeignTypes \subseteq EventTypes \ ProviderTypes
    /\ MaxWire \in Nat \ {0}
    /\ MaxEventID \in Nat /\ MaxIncidents \in Nat

VARIABLES
    life,        \* which process the hub is
    handler,     \* local state of the hub's request handler
    enrollment,  \* the hub's record of the spoke, and how far revocation got
    wire,        \* frames written by the handler and not yet read
    eof,         \* nothing more will arrive on the connection
    client,      \* the EventClient and its Run
    enabled,     \* fleet.enabled of the spoke
    incidents,   \* how many of the bounded events have happened
    (* Observation only. *)
    owed,        \* provider events whose consequence the spoke does not have
    spokeStatus  \* the sync status the spoke's browsers see

observed == << owed, spokeStatus >>
vars == << hubVars, life, handler, enrollment, wire, eof, client, enabled,
           incidents, observed >>

\* The one subscription.
S == CHOOSE s \in Streams : TRUE

HandlerStates == {"returned", "arrived", "tracked", "authorized", "snapshot", "replay",
                  "live"}
ClientStates == {"stopped", "dial", "read", "refresh", "fetch", "announce"}

Stamps == [life : 0 .. MaxIncidents, id : Nat]
Frames == [life : 0 .. MaxIncidents, id : Nat,
           type : ProviderTypes \union ForeignTypes \union {"stale", "barrier"}]

Returned == [pc |-> "returned", hasCursor |-> FALSE, deliveredThrough |-> 0,
             replay |-> << >>, staleID |-> 0, cancelled |-> FALSE]

NoStamp == [life |-> 0, id |-> 0]

TypeOK ==
    /\ HubTypeOK
    /\ life \in 0 .. MaxIncidents
    /\ handler \in [pc : HandlerStates, hasCursor : BOOLEAN, deliveredThrough : Nat,
                    replay : Seq(Events), staleID : Nat, cancelled : BOOLEAN]
    /\ enrollment \in {"active", "revoked", "cleaned"}
    /\ wire \in Seq(Frames) /\ Len(wire) <= MaxWire
    /\ eof \in BOOLEAN
    /\ client \in [pc : ClientStates, cursor : Nat, ready : BOOLEAN,
                   connected : {"unknown", "yes", "no"}, cancelled : BOOLEAN,
                   fetched : Stamps]
    /\ enabled \in BOOLEAN
    /\ incidents \in 0 .. MaxIncidents
    /\ owed \subseteq Stamps
    /\ spokeStatus \in Stamps

Init ==
    /\ HubInit
    /\ life = 0
    /\ handler = Returned
    /\ enrollment = "active"
    /\ wire = << >>
    /\ eof = TRUE
    /\ client = [pc |-> "stopped", cursor |-> 0, ready |-> FALSE,
                 connected |-> "unknown", cancelled |-> FALSE, fetched |-> NoStamp]
    /\ enabled \in BOOLEAN
    /\ incidents = 0
    /\ owed = {}
    /\ spokeStatus = NoStamp

Incident == incidents < MaxIncidents /\ incidents' = incidents + 1

\* The syncer stores a status and broadcasts it: one step here, so what the
\* status route answers is what was broadcast last.
HubStatus == [life |-> life, id |-> cached[StatusType].id]

-----------------------------------------------------------------------------
(* The hub's handler. *)

\* The frame fits into the connection's buffer; what is written after the
\* connection ended is lost.
Write(id, type) ==
    /\ Len(wire) < MaxWire
    /\ wire' = IF eof THEN wire
               ELSE Append(wire, [life |-> life, id |-> id, type |-> type])

ReturnHandler == handler' = Returned

\* TrackFederationEventStream: from here on a revocation can cancel the stream.
Track ==
    /\ handler.pc = "arrived"
    /\ handler' = [handler EXCEPT !.pc = "tracked"]
    /\ UNCHANGED << hubVars, life, enrollment, wire, eof, client, enabled, incidents,
                    observed >>

\* Mutant: the enrollment is not looked at again.
AuthorizeOnce ==
    /\ handler.pc = "tracked"
    /\ handler' = [handler EXCEPT !.pc = "authorized"]
    /\ UNCHANGED << hubVars, life, enrollment, wire, eof, client, enabled, incidents,
                    observed >>

\* The enrollment is looked at again once the stream is tracked.
Authorize ==
    /\ handler.pc = "tracked"
    /\ IF enrollment = "active"
       THEN handler' = [handler EXCEPT !.pc = "authorized"] /\ UNCHANGED eof
       ELSE ReturnHandler /\ eof' = TRUE
    /\ UNCHANGED << hubVars, life, enrollment, wire, client, enabled, incidents, observed >>

\* Subscribe, and flush the response header.
OpenStream ==
    /\ handler.pc = "authorized"
    /\ Subscribe(S, FALSE)
    /\ handler' = [handler EXCEPT !.pc = IF handler.hasCursor THEN "snapshot" ELSE "replay"]
    /\ UNCHANGED << life, enrollment, wire, eof, client, enabled, incidents, observed >>

ReplaySnapshot ==
    LET cursor == handler.deliveredThrough IN
    /\ handler.pc = "snapshot"
    /\ IF StaleCursor(cursor)
       THEN /\ TakeSyntheticID
            /\ handler' = [handler EXCEPT !.pc = "replay", !.staleID = nextEventID + 1]
       ELSE /\ handler' = [handler EXCEPT !.pc = "replay", !.replay = After(cursor)]
            /\ UNCHANGED hubVars
    /\ UNCHANGED << life, enrollment, wire, eof, client, enabled, incidents, observed >>

WriteStale ==
    /\ handler.pc = "replay" /\ handler.staleID # 0
    /\ Write(handler.staleID, "stale")
    /\ handler' = [handler EXCEPT !.deliveredThrough = handler.staleID, !.staleID = 0]
    /\ UNCHANGED << hubVars, life, enrollment, eof, client, enabled, incidents, observed >>

\* The hub's filter: only provider events cross to a spoke.
Crosses(type) == type \in ProviderTypes \union ForeignTypes

WriteReplay ==
    LET rec == Head(handler.replay) IN
    /\ handler.pc = "replay" /\ handler.replay # << >>
    /\ IF Crosses(rec.type) THEN Write(rec.id, rec.type) ELSE UNCHANGED wire
    /\ handler' = [handler EXCEPT !.deliveredThrough = rec.id, !.replay = Tail(@)]
    /\ UNCHANGED << hubVars, life, enrollment, eof, client, enabled, incidents, observed >>

\* WriteFederationReplayComplete
WriteBarrier ==
    /\ handler.pc = "replay" /\ handler.staleID = 0 /\ handler.replay = << >>
    /\ Write(0, "barrier")
    /\ handler' = [handler EXCEPT !.pc = "live"]
    /\ UNCHANGED << hubVars, life, enrollment, eof, client, enabled, incidents, observed >>

\* A replayed event that also reached the channel is not sent twice.
Skip(rec) == handler.hasCursor /\ rec.id <= handler.deliveredThrough

Live ==
    LET rec == Head(chan[S].buf) IN
    /\ handler.pc = "live" /\ chan[S].buf # << >>
    /\ Receive(S)
    /\ IF Skip(rec)
       THEN UNCHANGED << wire, handler >>
       ELSE /\ handler' = [handler EXCEPT !.deliveredThrough = rec.id]
            /\ IF Crosses(rec.type) THEN Write(rec.id, rec.type) ELSE UNCHANGED wire
    /\ UNCHANGED << nextEventID, ring, ringHead, ringCount, cached, subscribers,
                    done, closed, life, enrollment, eof, client, enabled, incidents,
                    observed >>

\* Mutant: an evicted handler waits for its request to end.
LiveReturnsLate ==
    /\ handler.pc = "live"
    /\ handler.cancelled \/ eof
    /\ ReturnHandler
    /\ eof' = TRUE
    /\ UNCHANGED << hubVars, life, enrollment, wire, client, enabled, incidents, observed >>

\* The live loop ends: evicted and drained, cancelled, or the request is gone.
LiveReturns ==
    /\ handler.pc = "live"
    /\ (chan[S].closed /\ chan[S].buf = << >>) \/ handler.cancelled \/ eof
    /\ ReturnHandler
    /\ eof' = TRUE
    /\ UNCHANGED << hubVars, life, enrollment, wire, client, enabled, incidents, observed >>

\* A write or flush fails once the connection is gone.
WriteFails ==
    /\ handler.pc \in {"snapshot", "replay"} /\ eof
    /\ ReturnHandler
    /\ UNCHANGED << hubVars, life, enrollment, wire, eof, client, enabled, incidents,
                    observed >>

\* The goroutine that waits for the stream's context.
ContextDone ==
    /\ S \in subscribers
    /\ handler.pc = "returned" \/ handler.cancelled \/ eof
    /\ Unsubscribe({S})
    /\ UNCHANGED << nextEventID, ring, ringHead, ringCount, cached, done, closed, life,
                    handler, enrollment, wire, eof, client, enabled, incidents, observed >>

-----------------------------------------------------------------------------
(* The hub's daemon. *)

Publish(type) ==
    /\ nextEventID < MaxEventID
    /\ Broadcast(type)
    /\ owed' = IF Crosses(type) /\ type # StatusType
               THEN owed \union {[life |-> life, id |-> nextEventID + 1]} ELSE owed
    /\ UNCHANGED << life, handler, enrollment, wire, eof, client, enabled, incidents,
                    spokeStatus >>

\* Exit or crash, and start.  What was written may still arrive.
Restart ==
    /\ Incident
    /\ life' = life + 1
    /\ NewLifetime
    /\ handler' = Returned
    /\ eof' = TRUE
    /\ UNCHANGED << enrollment, wire, client, enabled, observed >>

\* revokeEnrollmentState, up to the durable tombstone
Revoke ==
    /\ enrollment = "active" /\ Incident
    /\ enrollment' = "revoked"
    /\ UNCHANGED << hubVars, life, handler, wire, eof, client, enabled, observed >>

\* CancelFederationEventStreams: every stream tracked at this moment
CancelStreams ==
    handler' = [handler EXCEPT !.cancelled =
                    @ \/ handler.pc \notin {"returned", "arrived"}]

\* The rest of it: the inbound credential, which can fail and be retried, and
\* then the streams.
FinishRevocation ==
    /\ enrollment = "revoked"
    /\ CancelStreams
    /\ enrollment' = "cleaned"
    /\ UNCHANGED << hubVars, life, wire, eof, client, enabled, incidents, observed >>

-----------------------------------------------------------------------------
(* The spoke's EventClient. *)

SetConnection(c, connected) == [c EXCEPT !.connected = connected]

\* runOnce returned an error: the response is closed, and the outage announced;
\* the next request follows after the back-off.
Fail ==
    /\ client' = [SetConnection(client, "no") EXCEPT !.pc = "dial"]
    /\ wire' = << >>
    /\ eof' = TRUE

\* The lifecycle loop enters Run with its own context and no cursor.
Start ==
    /\ client.pc = "stopped" /\ enabled
    /\ client' = [client EXCEPT !.pc = "dial", !.cursor = 0, !.cancelled = FALSE]
    /\ UNCHANGED << hubVars, life, handler, enrollment, wire, eof, enabled, incidents,
                    observed >>

\* The hub's middleware admits the request, or the spoke sees it refused.
Dial ==
    /\ client.pc = "dial" /\ ~client.cancelled
    /\ IF enrollment = "active"
       THEN /\ handler' = [Returned EXCEPT !.pc = "arrived",
                              !.hasCursor = client.cursor > 0,
                              !.deliveredThrough = client.cursor]
            /\ Unsubscribe({S})
            /\ wire' = << >>
            /\ eof' = FALSE
            /\ client' = [client EXCEPT !.pc = "read", !.ready = FALSE]
       ELSE Fail /\ UNCHANGED << handler, subscribers, chan >>
    /\ UNCHANGED << nextEventID, ring, ringHead, ringCount, cached, done, closed, life,
                    enrollment, enabled, incidents, observed >>

\* A request of the spoke fails: the hub cannot be reached, or answers with an
\* error.
RequestFails ==
    /\ client.pc \in {"dial", "fetch"}
    /\ Incident
    /\ Fail
    /\ UNCHANGED << hubVars, life, handler, enrollment, enabled, observed >>

\* resynchronize begins by withdrawing a connection it has announced.
BeginResync(c) ==
    [c EXCEPT !.pc = "refresh",
              !.connected = IF @ = "unknown" THEN @ ELSE "no"]

\* Mutant: the stale marker is compared with the cursor.
CursorFromStaleForward(c, id) == [c EXCEPT !.cursor = IF id > @ THEN id ELSE @]

\* A restarted hub's ids begin anew, so its marker replaces the cursor.
CursorFromStale(c, id) == [c EXCEPT !.cursor = id]

\* onEvent: ReceiveHubEvent re-stamps the event for the spoke's browsers.
Republish(f) ==
    /\ owed' = owed \ {[life |-> f.life, id |-> f.id]}
    /\ spokeStatus' = IF f.type = StatusType
                      THEN [life |-> f.life, id |-> f.id] ELSE spokeStatus

\* consumeFrame, and the barrier comment
ReadFrame ==
    LET f    == Head(wire)
        past == [client EXCEPT !.cursor = f.id]
    IN
    /\ client.pc = "read" /\ wire # << >>
    /\ \/ /\ f.type = "barrier"
          /\ client' = IF client.ready THEN client ELSE BeginResync(client)
          /\ wire' = Tail(wire)
          /\ UNCHANGED << eof, observed >>
       \/ /\ f.type = "stale"
          /\ LET c == CursorFromStale(client, f.id)
             IN  client' = IF client.ready THEN BeginResync(c) ELSE c
          /\ wire' = Tail(wire)
          /\ UNCHANGED << eof, observed >>
       \/ /\ f.type \notin {"barrier", "stale"} /\ f.id <= client.cursor
          /\ wire' = Tail(wire)
          /\ UNCHANGED << client, eof, observed >>
       \/ /\ f.type \in ForeignTypes /\ f.id > client.cursor
          /\ client' = IF client.ready THEN BeginResync(past) ELSE past
          /\ wire' = Tail(wire)
          /\ UNCHANGED << eof, observed >>
       \/ /\ f.type \in ProviderTypes /\ f.id > client.cursor /\ enabled
          /\ Republish(f)
          /\ client' = past
          /\ wire' = Tail(wire)
          /\ UNCHANGED eof
       \/ /\ f.type \in ProviderTypes /\ f.id > client.cursor /\ ~enabled
          /\ Fail
          /\ UNCHANGED observed
    /\ UNCHANGED << hubVars, life, handler, enrollment, enabled, incidents >>

\* The stream ended, with or without its barrier.
ReadEnds ==
    /\ client.pc = "read" /\ wire = << >> /\ eof
    /\ Fail
    /\ UNCHANGED << hubVars, life, handler, enrollment, enabled, incidents, observed >>

\* onResync: ResynchronizeHubProviderState makes the browsers read everything
\* anew,
Refresh ==
    /\ client.pc = "refresh"
    /\ IF enabled
       THEN /\ owed' = {}
            /\ client' = [client EXCEPT !.pc = "fetch"]
            /\ UNCHANGED << wire, eof >>
       ELSE Fail /\ UNCHANGED owed
    /\ UNCHANGED << hubVars, life, handler, enrollment, enabled, incidents, spokeStatus >>

\* reads the hub's sync status,
FetchStatus ==
    /\ client.pc = "fetch"
    /\ IF enrollment = "active"
       THEN /\ client' = [client EXCEPT !.pc = "announce", !.fetched = HubStatus]
            /\ UNCHANGED << wire, eof >>
       ELSE Fail
    /\ UNCHANGED << hubVars, life, handler, enrollment, enabled, incidents, observed >>

\* Mutant: the fetched status is not published.
AnnounceOnly ==
    /\ client.pc = "announce"
    /\ client' = [SetConnection(client, "yes") EXCEPT !.pc = "read", !.ready = TRUE,
                                                      !.fetched = NoStamp]
    /\ UNCHANGED << hubVars, life, handler, enrollment, wire, eof, enabled, incidents,
                    observed >>

\* and publishes it; then the hub is connected.
Announce ==
    /\ client.pc = "announce"
    /\ spokeStatus' = client.fetched
    /\ client' = [SetConnection(client, "yes") EXCEPT !.pc = "read", !.ready = TRUE,
                                                      !.fetched = NoStamp]
    /\ UNCHANGED << hubVars, life, handler, enrollment, wire, eof, enabled, incidents, owed >>

\* Run leaves its loop, or the call it waits in, when its context is cancelled.
Stop ==
    /\ client.cancelled /\ client.pc \in {"dial", "read", "fetch"}
    /\ client' = [SetConnection(client, "no") EXCEPT !.pc = "stopped", !.ready = FALSE,
                                                     !.cursor = 0]
    /\ wire' = << >>
    /\ eof' = TRUE
    /\ UNCHANGED << hubVars, life, handler, enrollment, enabled, incidents, observed >>

\* ApplyFleetConfigLocked: fleet.enabled and the lifecycle change under one lock.
SetEnabled ==
    /\ Incident
    /\ enabled' = ~enabled
    /\ client' = [client EXCEPT !.cancelled = @ \/ (enabled /\ client.pc # "stopped")]
    /\ UNCHANGED << hubVars, life, handler, enrollment, wire, eof, observed >>

\* The connection breaks and loses what it held.
Drop ==
    /\ ~eof /\ Incident
    /\ wire' = << >>
    /\ eof' = TRUE
    /\ UNCHANGED << hubVars, life, handler, enrollment, client, enabled, observed >>

-----------------------------------------------------------------------------
HandlerStep ==
    \/ Track \/ Authorize \/ OpenStream \/ ReplaySnapshot \/ WriteStale \/ WriteReplay
    \/ WriteBarrier \/ Live \/ LiveReturns \/ WriteFails

ClientStep ==
    \/ Start \/ Dial \/ ReadFrame \/ ReadEnds \/ Refresh \/ FetchStatus \/ Announce

Next ==
    \/ \E t \in EventTypes : Publish(t)
    \/ HandlerStep \/ ContextDone
    \/ ClientStep \/ RequestFails \/ Stop \/ SetEnabled
    \/ Revoke \/ FinishRevocation
    \/ Restart \/ Drop

Spec == Init /\ [][Next]_vars

\* Goroutines that can run do, and the back-off timer fires; a cancelled context
\* closes the response body, so Run notices although frames keep arriving.
Fairness ==
    /\ WF_vars(HandlerStep) /\ WF_vars(ContextDone)
    /\ WF_vars(ClientStep) /\ WF_vars(Stop)

FairSpec == Spec /\ Fairness

-----------------------------------------------------------------------------
(* Properties. *)

\* Frames that will still reach the spoke: on the connection, replayed, or in the
\* channel of a subscriber that was not evicted.
OnTheWay ==
    {wire[i] : i \in DOMAIN wire}
        \union {[life |-> life, id |-> handler.replay[i].id, type |-> handler.replay[i].type] :
                   i \in DOMAIN handler.replay}
        \union {[life |-> life, id |-> chan[S].buf[i].id, type |-> chan[S].buf[i].type] :
                   i \in DOMAIN chan[S].buf}

\* The hub is announced as connected and its stream has not ended.
Attached ==
    /\ client.connected = "yes" /\ ~client.cancelled
    /\ ~eof /\ S \in subscribers /\ ~handler.cancelled

\* While the spoke's browsers are told that the hub is connected, every provider
\* event of the hub has had its consequence on the spoke or is on the way to it
\* with an id that the private cursor does not reject, through broken
\* connections, full channels, replays that are stale and hub restarts that
\* start their ids over.  (EventClient, ResynchronizeHubProviderState.)
ConnectedMissesNothing ==
    Attached => \A e \in owed : \E f \in OnTheWay :
        f.life = e.life /\ f.id = e.id /\ f.id > client.cursor

\* While connected, the sync status the browsers see is the hub's, or the hub's
\* is on the way: neither a replayed nor a buffered older status has the last
\* word after the status fetched at the barrier.
StatusOnItsWay ==
    Attached =>
        \/ spokeStatus = HubStatus
        \/ \E f \in OnTheWay :
               f.type = StatusType /\ f.id > client.cursor
                   /\ [life |-> f.life, id |-> f.id] = HubStatus

\* When revocation has finished, no stream of the spoke goes on: it is cancelled,
\* or it has yet to look at the enrollment it will find revoked.
\* (Track before the second look; tombstone before CancelFederationEventStreams.)
RevokedStreamEnds ==
    enrollment = "cleaned" =>
        handler.pc \in {"returned", "arrived", "tracked"} \/ handler.cancelled

\* If fleet.enabled stays on and the enrollment active, the spoke ends up
\* connected with nothing owed and the hub's status, whatever broke before.
EventuallyInStep ==
    <>[](enabled /\ enrollment = "active")
        => <>[](client.connected = "yes" /\ owed = {} /\ spokeStatus = HubStatus)
=============================================================================
