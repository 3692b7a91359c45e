------------------------ MODULE FederationEventsProofs ------------------------
(***************************************************************************)
(* The hub's event stream to a spoke, for a ring and channels of any size, *)
(* any number of frames in the connection's buffer and any number of       *)
(* outages, restarts and revocations.                                      *)
(*                                                                         *)
(* What the spoke promises its browsers while it says connected depends on *)
(* everything a frame passes.  FedInv follows it from the far end:         *)
(*   - HubOpen: the ring is an unbroken, ascending end of the history;     *)
(*   - HandlerPhases, HandlerPosition: what is replayed, and what waits in *)
(*     the channel, lies ahead of deliveredThrough;                        *)
(*   - WireInOrder, WireCurrent: ids ascend on the connection, the stale   *)
(*     marker can only come first, and no event that arrives is one that   *)
(*     the cursor rejects;                                                 *)
(*   - Connection: past its barrier the client faces a live handler;       *)
(*   - OwedComes, StatusFollows, StatusComes: what the spoke lacks is on   *)
(*     the connection or in a channel that will be read in full.  For the  *)
(*     status this starts at the replay: where any status comes, the       *)
(*     newest does, since the cached one is no older than the cursor and   *)
(*     the ring still vouches for it.                                      *)
(***************************************************************************)
EXTENDS FederationEvents, EventHubProofs

HandlerType == [pc : HandlerStates, hasCursor : BOOLEAN, deliveredThrough : Nat,
                replay : Seq(Events), staleID : Nat, cancelled : BOOLEAN]
ClientType  == [pc : ClientStates, cursor : Nat, ready : BOOLEAN,
                connected : {"unknown", "yes", "no"}, cancelled : BOOLEAN,
                fetched : Stamps]

FedTypes ==
    /\ life \in 0 .. incidents
    /\ handler \in HandlerType
    /\ enrollment \in {"active", "revoked", "cleaned"}
    /\ wire \in Seq(Frames) /\ Len(wire) <= MaxWire
    /\ eof \in BOOLEAN
    /\ client \in ClientType
    /\ enabled \in BOOLEAN
    /\ incidents \in 0 .. MaxIncidents
    /\ owed \subseteq Stamps
    /\ spokeStatus \in Stamps

\* The spoke got past the barrier of its connection.
Passed == client.ready \/ client.pc \in {"refresh", "fetch", "announce"}

HasBarrier == \E i \in DOMAIN wire : wire[i].type = "barrier"

\* What the two ends know of the connection.
Connection ==
    /\ client.pc \in {"stopped", "dial"} => eof /\ wire = << >>
    /\ ~eof => handler.pc # "returned"
    /\ client.connected = "yes" => client.pc = "read" /\ client.ready
    /\ Passed \/ HasBarrier => handler.pc \in {"live", "returned"}

\* The hub of the federation runs until its process ends.
HubOpen == HubInv /\ ~done /\ ~closed

-----------------------------------------------------------------------------
(* The constants, and sequences of frames. *)

LEMMA TheStream == S \in Streams /\ Streams = {S}
<1>1. PICK s \in Streams : Streams = {s}
  BY FederationAssumption
<1>2. QED
  BY <1>1 DEF S

LEMMA Bounds == MaxIncidents \in Nat /\ MaxWire \in Nat \ {0}
  BY FederationAssumption

LEMMA FrameTypes ==
    /\ ProviderTypes \union ForeignTypes \subseteq EventTypes
    /\ ProviderTypes \intersect ForeignTypes = {}
    /\ "stale" \notin EventTypes /\ "barrier" \notin EventTypes
    /\ StatusType \in ProviderTypes /\ StatusType \in CachedTypes
    /\ StatusType # "stale" /\ StatusType # "barrier"
  BY FederationAssumption

LEMMA NoFrames ==
    ASSUME NEW w, w = << >>
    PROVE  w \in Seq(Frames) /\ Len(w) <= MaxWire /\ DOMAIN w = {}
<1>1. << >> \in Seq(Frames) /\ Len(<< >>) = 0 /\ DOMAIN << >> = {}
  OBVIOUS
<1>2. QED
  BY <1>1, FederationAssumption

LEMMA FrameAppended ==
    ASSUME NEW w \in Seq(Frames), NEW f \in Frames
    PROVE  /\ Append(w, f) \in Seq(Frames) /\ Len(Append(w, f)) = Len(w) + 1
           /\ \A i \in DOMAIN w : i \in DOMAIN Append(w, f) /\ Append(w, f)[i] = w[i]
           /\ Len(w) + 1 \in DOMAIN Append(w, f) /\ Append(w, f)[Len(w) + 1] = f
           /\ \A i \in DOMAIN Append(w, f) : i \in DOMAIN w \/ i = Len(w) + 1
           /\ \A i \in DOMAIN w : i \in Nat /\ i >= 1 /\ i < Len(w) + 1
           /\ Len(w) \in Nat
  OBVIOUS

LEMMA FramesTyped ==
    ASSUME NEW w \in Seq(Frames)
    PROVE  \A i \in DOMAIN w : w[i] \in Frames /\ w[i].id \in Nat
<1>1. \A i \in DOMAIN w : w[i] \in Frames
  OBVIOUS
<1>2. QED
  BY <1>1 DEF Frames

LEMMA FrameTaken ==
    ASSUME NEW w \in Seq(Frames), w # << >>
    PROVE  /\ Tail(w) \in Seq(Frames) /\ Len(Tail(w)) = Len(w) - 1
           /\ Head(w) = w[1] /\ w[1] \in Frames /\ 1 \in DOMAIN w
           /\ \A i \in DOMAIN Tail(w) : i + 1 \in DOMAIN w /\ Tail(w)[i] = w[i + 1] /\ 1 < i + 1
           /\ \A i \in DOMAIN w : i = 1 \/ (i - 1 \in DOMAIN Tail(w) /\ Tail(w)[i - 1] = w[i])
           /\ \A i \in DOMAIN w : i \in Nat
           /\ \A i \in DOMAIN Tail(w) : i \in Nat
  OBVIOUS

LEMMA Written ==
    ASSUME FedTypes, NEW id \in Nat,
           NEW type \in ProviderTypes \union ForeignTypes \union {"stale", "barrier"},
           Write(id, type)
    PROVE  /\ wire' \in Seq(Frames) /\ Len(wire') <= MaxWire
           /\ [life |-> life, id |-> id, type |-> type] \in Frames
           /\ wire' = IF eof THEN wire ELSE Append(wire, [life |-> life, id |-> id, type |-> type])
<1>1. [life |-> life, id |-> id, type |-> type] \in Frames
  BY FederationAssumption DEF Frames, FedTypes
<1>2. QED
  BY <1>1, FrameAppended, FederationAssumption DEF Write, FedTypes

LEMMA ReturnedTyped ==
    /\ Returned \in HandlerType
    /\ Returned.pc = "returned" /\ Returned.hasCursor = FALSE /\ Returned.replay = << >>
    /\ Returned.deliveredThrough = 0 /\ Returned.staleID = 0 /\ Returned.cancelled = FALSE
<1>1. ASSUME NEW b \in BOOLEAN
      PROVE  [pc |-> "returned", hasCursor |-> b, deliveredThrough |-> 0,
              replay |-> << >>, staleID |-> 0, cancelled |-> b] \in HandlerType
  BY DEF HandlerType, HandlerStates
<1>2. Returned \in HandlerType
  BY <1>1 DEF Returned
<1>3. QED
  BY <1>2 DEF Returned

LEMMA NewestTyped ==
    ASSUME HubInv
    PROVE  cached[StatusType].id \in Nat /\ HubStatus.id = cached[StatusType].id
             /\ HubStatus.life = life
  BY CachedTyped, FrameTypes DEF HubStatus

LEMMA HubStatusTyped == ASSUME HubInv, FedTypes PROVE HubStatus \in Stamps
<1>1. cached[StatusType].id \in Nat
  BY NewestTyped
<1>2. QED
  BY <1>1, FederationAssumption DEF HubStatus, FedTypes, Stamps

-----------------------------------------------------------------------------
(* The hub under the federation's steps. *)

\* Nothing but who is subscribed, and whether a channel is closed.
Bystander ==
    /\ UNCHANGED << nextEventID, ring, ringHead, ringCount, cached >>
    /\ chan'[S].buf = chan[S].buf
    /\ subscribers' \subseteq subscribers

Opens ==
    /\ handler.pc = "authorized"
    /\ UNCHANGED << nextEventID, ring, ringHead, ringCount, cached >>
    /\ chan'[S].buf = << >>

Synthesizes ==
    /\ UNCHANGED << ring, ringHead, ringCount, cached, chan, subscribers >>
    /\ nextEventID' = nextEventID + 1

Receives ==
    /\ UNCHANGED << nextEventID, ring, ringHead, ringCount, cached, subscribers >>
    /\ chan[S].buf # << >> /\ chan'[S].buf = Tail(chan[S].buf)

LEMMA Opened == ASSUME HubOpen, OpenStream PROVE HubOpen' /\ Opens
<1> USE TheStream
<1>0. /\ HubInv /\ ~done /\ ~closed
      /\ chan \in [Streams -> [buf : Seq(Events), closed : BOOLEAN]]
  BY DEF HubOpen, HubInv, HubTypeOK
<1>1. HubInv'
  BY <1>0, SubscribeKeeps DEF OpenStream
<1>2. PICK q : chan' = [chan EXCEPT ![S] = [buf |-> IF FALSE THEN q ELSE << >>, closed |-> FALSE]]
  BY <1>0 DEF OpenStream, Subscribe
<1>3. chan'[S].buf = << >>
  BY <1>0, <1>2
<1>4. Opens
  BY <1>0, <1>3 DEF OpenStream, Subscribe, Opens
<1>5. done' = done /\ closed' = closed
  BY DEF OpenStream, Subscribe
<1>6. QED
  BY <1>0, <1>1, <1>4, <1>5 DEF HubOpen

LEMMA Received == ASSUME HubOpen, Live PROVE HubOpen' /\ Receives
<1>1. /\ chan[S].buf # << >> /\ Receive(S)
      /\ UNCHANGED << nextEventID, ring, ringHead, ringCount, cached, subscribers,
                      done, closed >>
  BY DEF Live
<1>2. HubInv' /\ chan'[S].buf = Tail(chan[S].buf)
  BY <1>1, ReceiveKeeps, TheStream DEF HubOpen
<1>3. QED
  BY <1>1, <1>2 DEF Receives, HubOpen

\* A subscriber that is not evicted gets the event, and no other channel changes.
LEMMA Published ==
    ASSUME HubOpen, NEW t \in EventTypes, Publish(t)
    PROVE  /\ nextEventID' = nextEventID + 1
           /\ subscribers' \subseteq subscribers
           /\ S \in subscribers' =>
                 chan'[S].buf = Append(chan[S].buf, [id |-> nextEventID + 1, type |-> t])
           /\ S \notin subscribers' => chan'[S].buf = chan[S].buf
           /\ S \in subscribers' => IdsOf(chan'[S].buf) = IdsOf(chan[S].buf) \union {nextEventID + 1}
           /\ \A x \in CachedTypes : cached'[x] = IF x = t THEN [id |-> nextEventID + 1, type |-> t]
                                                ELSE cached[x]
<1>0. HubInv /\ S \in Streams /\ Broadcast(t)
  BY TheStream DEF HubOpen, Publish
<1>1. PICK rec : rec = [id |-> nextEventID + 1, type |-> t]
  OBVIOUS
<1>2. /\ nextEventID' = rec.id /\ subscribers' \subseteq subscribers
      /\ \A x \in CachedTypes : cached'[x] = IF x = t THEN rec ELSE cached[x]
      /\ S \in subscribers' => IdsOf(chan'[S].buf) = IdsOf(chan[S].buf) \union {rec.id}
      /\ S \notin subscribers' => chan'[S].buf = chan[S].buf
  BY <1>0, <1>1, BroadcastKeeps
<1>3. S \in subscribers' => chan'[S].buf = Append(chan[S].buf, rec)
  <2>1. /\ chan \in [Streams -> [buf : Seq(Events), closed : BOOLEAN]]
        /\ subscribers' = {s \in subscribers : ~Slow(s)}
        /\ chan' = [s \in Streams |->
                      IF s \notin subscribers THEN chan[s]
                      ELSE IF Slow(s) THEN [chan[s] EXCEPT !.closed = TRUE]
                      ELSE [chan[s] EXCEPT !.buf = Append(@, rec)]]
    BY <1>0, <1>1 DEF Broadcast, HubInv, HubTypeOK
  <2>2. QED
    BY <1>0, <2>1
<1>4. rec.id = nextEventID + 1
  BY <1>1
<1>5. QED
  BY <1>1, <1>2, <1>3, <1>4

LEMMA HubSteps ==
    ASSUME FedTypes, HubOpen, [Next]_vars
    PROVE  /\ HubOpen'
           /\ \/ Bystander
              \/ OpenStream /\ Opens
              \/ ReplaySnapshot /\ Synthesizes
              \/ Live /\ Receives
              \/ \E t \in EventTypes : Publish(t)
              \/ Restart
<1> USE TheStream
<1>0. /\ HubInv /\ ~done /\ ~closed /\ subscribers \subseteq Streams
      /\ chan \in [Streams -> [buf : Seq(Events), closed : BOOLEAN]]
      /\ nextEventID \in Nat
  BY DEF HubOpen, HubInv, HubTypeOK
<1>1. CASE UNCHANGED hubVars
  <2>1. HubInv' /\ done' = done /\ closed' = closed
    BY <1>0, <1>1, HubUnchanged DEF hubVars
  <2>2. Bystander
    BY <1>1 DEF Bystander, hubVars
  <2>3. QED
    BY <2>1, <2>2, <1>0 DEF HubOpen
<1>2. CASE /\ Unsubscribe({S})
           /\ UNCHANGED << nextEventID, ring, ringHead, ringCount, cached, done, closed >>
  <2>1. HubKept /\ done' \in BOOLEAN /\ closed' \in BOOLEAN /\ {S} \in SUBSET Streams
    BY <1>0, <1>2 DEF HubKept, HubInv, HubTypeOK
  <2>2. HubInv' /\ chan'[S].buf = chan[S].buf
    BY <1>0, <1>2, <2>1, UnsubscribeKeeps
  <2>3. Bystander
    BY <1>2, <2>2 DEF Bystander, Unsubscribe
  <2>4. QED
    BY <2>2, <2>3, <1>0, <1>2 DEF HubOpen
<1>3. CASE OpenStream
  BY <1>3, Opened
<1>4. CASE ReplaySnapshot /\ TakeSyntheticID
  <2>1. HubKept /\ \A x \in Streams : chan'[x].buf = chan[x].buf
    BY <1>0, <1>4 DEF TakeSyntheticID, HubKept
  <2>2. /\ chan' = chan /\ subscribers' = subscribers /\ done' = done /\ closed' = closed
        /\ done' \in BOOLEAN /\ closed' \in BOOLEAN
    BY <1>4 DEF TakeSyntheticID, HubOpen, HubInv, HubTypeOK
  <2>3. HubInv'
    BY <1>0, <2>1, <2>2, BuffersKept
  <2>4. Synthesizes
    BY <1>4 DEF TakeSyntheticID, Synthesizes
  <2>5. QED
    BY <1>0, <1>4, <2>2, <2>3, <2>4 DEF HubOpen
<1>5. CASE Live
  BY <1>5, Received
<1>6. ASSUME NEW t \in EventTypes, Publish(t) PROVE HubOpen'
  <2>1. PICK rec : rec = [id |-> nextEventID + 1, type |-> t]
    OBVIOUS
  <2>2. HubInv'
    BY <1>0, <1>6, <2>1, BroadcastKeeps DEF Publish
  <2>3. done' = done /\ closed' = closed
    BY <1>6 DEF Publish, Broadcast
  <2>4. QED
    BY <1>0, <2>2, <2>3 DEF HubOpen
<1>7. CASE Restart
  <2>1. NewLifetime
    BY <1>7 DEF Restart
  <2>2. HubInv' /\ ~done' /\ ~closed'
    BY <2>1, HubRestarts DEF NewLifetime
  <2>3. QED
    BY <1>7, <2>2 DEF HubOpen
<1>8. CASE UNCHANGED vars
  BY <1>8, <1>1 DEF vars
<1>9. CASE HandlerStep
  <2>1. CASE Track \/ Authorize \/ WriteStale \/ WriteReplay \/ WriteBarrier \/ LiveReturns \/ WriteFails
    BY <2>1, <1>1 DEF Track, Authorize, WriteStale, WriteReplay, WriteBarrier, LiveReturns, WriteFails
  <2>2. CASE ReplaySnapshot
    BY <2>2, <1>1, <1>4 DEF ReplaySnapshot
  <2>3. QED
    BY <1>9, <2>1, <2>2, <1>3, <1>5 DEF HandlerStep
<1>10. CASE ContextDone
  BY <1>10, <1>2 DEF ContextDone
<1>11. CASE ClientStep
  <2>1. CASE Dial
    <3>1. CASE enrollment = "active"
      BY <2>1, <3>1, <1>2 DEF Dial
    <3>2. CASE enrollment # "active"
      BY <2>1, <3>2, <1>1 DEF Dial, hubVars
    <3>3. QED
      BY <3>1, <3>2
  <2>2. CASE Start \/ ReadFrame \/ ReadEnds \/ Refresh \/ FetchStatus \/ Announce
    BY <2>2, <1>1 DEF Start, ReadFrame, ReadEnds, Refresh, FetchStatus, Announce
  <2>3. QED
    BY <1>11, <2>1, <2>2 DEF ClientStep
<1>12. CASE RequestFails \/ Stop \/ SetEnabled \/ Revoke \/ FinishRevocation \/ Drop
  BY <1>12, <1>1 DEF RequestFails, Stop, SetEnabled, Revoke, FinishRevocation, Drop
<1>13. QED
  BY <1>6, <1>7, <1>8, <1>9, <1>10, <1>11, <1>12 DEF Next

-----------------------------------------------------------------------------
(* The shapes of what the two sides keep. *)

\* What the spoke's client is left with when a request fails.
LEMMA FailTyped ==
    ASSUME FedTypes, Fail
    PROVE  /\ client' \in ClientType /\ wire' = << >> /\ eof' = TRUE
           /\ wire' \in Seq(Frames) /\ Len(wire') <= MaxWire
           /\ client'.pc = "dial" /\ client'.connected = "no"
           /\ client'.cursor = client.cursor /\ client'.cancelled = client.cancelled
           /\ client'.ready = client.ready
<1>1. wire' = << >> /\ eof' = TRUE
  BY DEF Fail
<1>2. client' = [[client EXCEPT !.connected = "no"] EXCEPT !.pc = "dial"] /\ client \in ClientType
  BY DEF Fail, SetConnection, FedTypes
<1>3. /\ client' \in ClientType
      /\ client'.pc = "dial" /\ client'.connected = "no"
      /\ client'.cursor = client.cursor /\ client'.cancelled = client.cancelled
      /\ client'.ready = client.ready
  BY <1>2 DEF ClientType, ClientStates
<1>4. QED
  BY <1>1, <1>3, NoFrames

LEMMA TypesStep == ASSUME FedTypes, HubOpen, [Next]_vars PROVE FedTypes'
<1> USE TheStream, Bounds
<1>0. /\ nextEventID \in Nat /\ HubInv /\ RingInOrder /\ HubOpen'
      /\ chan \in [Streams -> [buf : Seq(Events), closed : BOOLEAN]]
  BY HubSteps DEF HubOpen, HubInv, HubTypeOK
<1>1. CASE UNCHANGED vars
  BY <1>1 DEF vars, observed, FedTypes
<1>2. ASSUME NEW t \in EventTypes, Publish(t) PROVE FedTypes'
  <2>1. [life |-> life, id |-> nextEventID + 1] \in Stamps
    BY <1>0 DEF FedTypes, Stamps
  <2>2. QED
    BY <1>2, <2>1 DEF Publish, FedTypes
<1>3. CASE Track \/ Authorize \/ OpenStream \/ LiveReturns \/ WriteFails \/ ContextDone \/ FinishRevocation
  BY <1>3, ReturnedTyped DEF Track, Authorize, OpenStream, LiveReturns, WriteFails, ContextDone,
    FinishRevocation,
       CancelStreams, ReturnHandler, observed, FedTypes, HandlerType, HandlerStates
<1>4. CASE ReplaySnapshot
  <2>1. After(handler.deliveredThrough) \in Seq(Events)
    BY <1>0, Replays DEF FedTypes, HandlerType
  <2>2. handler' \in HandlerType
    <3>1. handler \in HandlerType /\ nextEventID + 1 \in Nat
      BY <1>0 DEF FedTypes
    <3>2. CASE handler' = [handler EXCEPT !.pc = "replay", !.staleID = nextEventID + 1]
      BY <3>1, <3>2 DEF HandlerType, HandlerStates
    <3>3. CASE handler' = [handler EXCEPT !.pc = "replay",
                                          !.replay = After(handler.deliveredThrough)]
      BY <3>1, <3>3, <2>1 DEF HandlerType, HandlerStates
    <3>4. QED
      BY <1>4, <3>2, <3>3 DEF ReplaySnapshot
  <2>3. QED
    BY <1>4, <2>2 DEF ReplaySnapshot, observed, FedTypes
<1>5. CASE WriteStale
  <2>1. wire' \in Seq(Frames) /\ Len(wire') <= MaxWire
    BY <1>5, Written DEF WriteStale, FedTypes, HandlerType
  <2>2. handler' \in HandlerType
    BY <1>5 DEF WriteStale, FedTypes, HandlerType, HandlerStates
  <2>3. QED
    BY <1>5, <2>1, <2>2 DEF WriteStale, observed, FedTypes
<1>6. CASE WriteReplay
  <2>1. Head(handler.replay) \in Events /\ Tail(handler.replay) \in Seq(Events)
    BY <1>6 DEF WriteReplay, FedTypes, HandlerType
  <2>2. wire' \in Seq(Frames) /\ Len(wire') <= MaxWire
    BY <1>6, <2>1, Written DEF WriteReplay, Crosses, Events, FedTypes
  <2>3. handler' \in HandlerType
    BY <1>6, <2>1 DEF WriteReplay, FedTypes, HandlerType, HandlerStates, Events
  <2>4. QED
    BY <1>6, <2>2, <2>3 DEF WriteReplay, observed, FedTypes
<1>7. CASE WriteBarrier
  <2>1. wire' \in Seq(Frames) /\ Len(wire') <= MaxWire
    <3>1. Write(0, "barrier")
      BY <1>7 DEF WriteBarrier
    <3>2. QED
      BY <3>1, Written
  <2>2. handler' \in HandlerType
    BY <1>7 DEF WriteBarrier, FedTypes, HandlerType, HandlerStates
  <2>3. QED
    BY <1>7, <2>1, <2>2 DEF WriteBarrier, observed, FedTypes
<1>8. CASE Live
  <2>1. Head(chan[S].buf) \in Events
    BY <1>0, <1>8 DEF Live
  <2>2. wire' \in Seq(Frames) /\ Len(wire') <= MaxWire
    BY <1>8, <2>1, Written DEF Live, Crosses, Events, FedTypes
  <2>3. handler' \in HandlerType
    BY <1>8, <2>1 DEF Live, FedTypes, HandlerType, HandlerStates, Events
  <2>4. QED
    BY <1>8, <2>2, <2>3 DEF Live, observed, FedTypes
<1>9. CASE Restart
  BY <1>9, ReturnedTyped DEF Restart, Incident, observed, FedTypes
<1>10. CASE Fail /\ UNCHANGED << life, handler, enrollment, enabled, observed >>
                 /\ incidents' \in incidents .. MaxIncidents
  <2>1. client' \in ClientType /\ wire' \in Seq(Frames) /\ Len(wire') <= MaxWire /\ eof' \in BOOLEAN
    BY <1>10, FailTyped
  <2>2. /\ UNCHANGED << life, handler, enrollment, enabled, owed, spokeStatus >>
        /\ life \in 0 .. incidents /\ incidents \in 0 .. MaxIncidents
        /\ incidents' \in incidents .. MaxIncidents
    BY <1>10 DEF observed, FedTypes
  <2>3. life' \in 0 .. incidents' /\ incidents' \in 0 .. MaxIncidents
    BY <2>2, FederationAssumption
  <2>4. QED
    BY <2>1, <2>2, <2>3 DEF FedTypes
<1>11. CASE Dial
  <2>1. CASE enrollment = "active"
    <3>1. client' \in ClientType
      BY <1>11, <2>1 DEF Dial, FedTypes, ClientType, ClientStates
    <3>2. handler' \in HandlerType
      <4>1. handler' = [Returned EXCEPT !.pc = "arrived", !.hasCursor = client.cursor > 0,
                                        !.deliveredThrough = client.cursor]
        BY <1>11, <2>1 DEF Dial
      <4>2. Returned \in HandlerType /\ client.cursor \in Nat /\ (client.cursor > 0) \in BOOLEAN
        BY ReturnedTyped DEF FedTypes, ClientType
      <4>3. QED
        BY <4>1, <4>2 DEF HandlerType, HandlerStates
    <3>3. wire' = << >> /\ eof' = FALSE
      BY <1>11, <2>1 DEF Dial
    <3>4. QED
      BY <1>11, <2>1, <3>1, <3>2, <3>3, NoFrames DEF Dial, observed, FedTypes
  <2>2. CASE enrollment # "active"
    BY <1>10, <1>11, <2>2 DEF Dial, FedTypes
  <2>3. QED
    BY <2>1, <2>2
<1>12. CASE ReadFrame
  <2>1. wire # << >> /\ Head(wire) \in Frames /\ Tail(wire) \in Seq(Frames) /\ Len(Tail(wire)) <= MaxWire
    BY <1>12 DEF ReadFrame, FedTypes
  <2>2. [life |-> Head(wire).life, id |-> Head(wire).id] \in Stamps /\ Head(wire).id \in Nat
    BY <2>1 DEF Frames, Stamps
  <2>3. CASE wire' = Tail(wire) /\ eof' = eof
    <3>1. client' \in ClientType
      BY <1>12, <2>2 DEF ReadFrame, BeginResync, CursorFromStale, Fail, SetConnection, FedTypes,
        ClientType, ClientStates
    <3>2. owed' \subseteq Stamps /\ spokeStatus' \in Stamps
      BY <1>12, <2>2 DEF ReadFrame, Republish, observed, FedTypes
    <3>3. QED
      BY <1>12, <2>1, <2>3, <3>1, <3>2 DEF ReadFrame, FedTypes
  <2>4. CASE Fail /\ UNCHANGED observed
    BY <1>10, <1>12, <2>4 DEF ReadFrame, FedTypes
  <2>5. QED
    BY <1>12, <2>3, <2>4 DEF ReadFrame
<1>13. CASE Refresh
  <2>1. CASE enabled
    BY <1>13, <2>1 DEF Refresh, FedTypes, ClientType, ClientStates
  <2>2. CASE ~enabled
    BY <1>10, <1>13, <2>2 DEF Refresh, observed, FedTypes
  <2>3. QED
    BY <2>1, <2>2
<1>14. CASE FetchStatus
  <2>1. CASE enrollment = "active"
    BY <1>0, <1>14, <2>1, HubStatusTyped DEF FetchStatus, observed, FedTypes, ClientType, ClientStates
  <2>2. CASE enrollment # "active"
    BY <1>10, <1>14, <2>2 DEF FetchStatus, FedTypes
  <2>3. QED
    BY <2>1, <2>2
<1>15. CASE ReadEnds \/ RequestFails
  BY <1>10, <1>15 DEF ReadEnds, RequestFails, Incident, FedTypes
<1>16. CASE Start \/ Announce \/ SetEnabled
  <2>1. NoStamp \in Stamps
    BY DEF NoStamp, Stamps
  <2>2. client' \in ClientType
    <3>1. client \in ClientType /\ enabled \in BOOLEAN
      BY DEF FedTypes
    <3>2. CASE Start
      BY <3>1, <3>2 DEF Start, ClientType, ClientStates
    <3>3. CASE Announce
      BY <3>1, <3>3, <2>1 DEF Announce, SetConnection, ClientType, ClientStates
    <3>4. CASE SetEnabled
      BY <3>1, <3>4 DEF SetEnabled, ClientType, ClientStates
    <3>5. QED
      BY <1>16, <3>2, <3>3, <3>4
  <2>3. spokeStatus' \in Stamps
    BY <1>16 DEF Start, Announce, SetEnabled, observed, FedTypes, ClientType
  <2>4. /\ UNCHANGED << life, handler, enrollment, wire, eof, owed >>
        /\ enabled' \in BOOLEAN /\ incidents' \in incidents .. MaxIncidents
    <3>1. enabled \in BOOLEAN /\ incidents \in 0 .. MaxIncidents
      BY DEF FedTypes
    <3>2. CASE Start \/ Announce
      BY <3>1, <3>2, Bounds DEF Start, Announce, observed
    <3>3. CASE SetEnabled
      BY <3>1, <3>3, Bounds DEF SetEnabled, Incident, observed
    <3>4. QED
      BY <1>16, <3>2, <3>3
  <2>5. QED
    BY <2>2, <2>3, <2>4 DEF FedTypes
<1>17. CASE Stop \/ Drop
  <2>1. client' \in ClientType
    <3>1. client \in ClientType
      BY DEF FedTypes
    <3>2. CASE Stop
      BY <3>1, <3>2 DEF Stop, SetConnection, ClientType, ClientStates
    <3>3. CASE Drop
      BY <3>1, <3>3 DEF Drop
    <3>4. QED
      BY <1>17, <3>2, <3>3
  <2>2. wire' = << >> /\ eof' = TRUE
    BY <1>17 DEF Stop, Drop
  <2>3. QED
    BY <1>17, <2>1, <2>2, NoFrames DEF Stop, Drop, Incident, observed, FedTypes
<1>18. CASE Revoke
  BY <1>18 DEF Revoke, Incident, observed, FedTypes
<1>19. QED
  BY <1>1, <1>2, <1>3, <1>4, <1>5, <1>6, <1>7, <1>8, <1>9, <1>11, <1>12, <1>13, <1>14, <1>15,
     <1>16, <1>17, <1>18 DEF Next, HandlerStep, ClientStep

-----------------------------------------------------------------------------
(* The two ends of a connection. *)

\* A connection that failed.
LEMMA FailedConnection ==
    ASSUME FedTypes, Connection, Fail, handler' = handler
    PROVE  Connection'
<1>1. /\ client' \in ClientType /\ wire' = << >> /\ eof' = TRUE
      /\ client'.pc = "dial" /\ client'.connected = "no" /\ client'.ready = client.ready
  BY FailTyped
<1>2. ~HasBarrier'
  BY <1>1, NoFrames DEF HasBarrier
<1>3. QED
  BY <1>1, <1>2 DEF Connection, Passed

LEMMA ConnectionStep ==
    ASSUME FedTypes, HubOpen, FedTypes', Connection, [Next]_vars
    PROVE  Connection'
<1>0. handler \in HandlerType /\ client \in ClientType /\ wire \in Seq(Frames)
  BY DEF FedTypes
<1>1. CASE UNCHANGED << handler, wire, eof, client >>
  BY <1>1 DEF Connection, Passed, HasBarrier
<1>2. CASE /\ UNCHANGED << wire, eof, client >>
           /\ handler'.pc = handler.pc \/ handler.pc \notin {"live", "returned"}
           /\ handler'.pc # "returned"
  BY <1>2 DEF Connection, Passed, HasBarrier
<1>3. CASE Track \/ OpenStream \/ ReplaySnapshot \/ FinishRevocation
  <2>1. CASE Track \/ OpenStream \/ ReplaySnapshot
    <3>1. /\ UNCHANGED << wire, eof, client >> /\ handler'.pc # "returned"
          /\ handler.pc \notin {"live", "returned"}
      BY <1>0, <2>1 DEF Track, OpenStream, ReplaySnapshot, HandlerType
    <3>2. QED
      BY <1>2, <3>1
  <2>2. CASE FinishRevocation
    <3>1. UNCHANGED << wire, eof, client >> /\ handler'.pc = handler.pc
      BY <1>0, <2>2 DEF FinishRevocation, CancelStreams, HandlerType
    <3>2. QED
      BY <3>1 DEF Connection, Passed, HasBarrier
  <2>3. QED
    BY <1>3, <2>1, <2>2
<1>4. CASE handler' = Returned /\ eof' = TRUE /\ UNCHANGED << wire, client >>
  BY <1>4, ReturnedTyped DEF Connection, Passed, HasBarrier
<1>5. CASE Authorize
  <2>1. CASE enrollment = "active"
    <3>1. UNCHANGED << wire, eof, client >> /\ handler.pc = "tracked" /\ handler'.pc = "authorized"
      BY <1>0, <1>5, <2>1 DEF Authorize, HandlerType
    <3>2. QED
      BY <1>2, <3>1
  <2>2. CASE enrollment # "active"
    BY <1>4, <1>5, <2>2 DEF Authorize, ReturnHandler
  <2>3. QED
    BY <2>1, <2>2
<1>6. CASE LiveReturns \/ Restart
  BY <1>4, <1>6 DEF LiveReturns, Restart, ReturnHandler
<1>7. CASE WriteFails
  <2>1. handler' = Returned /\ eof /\ UNCHANGED << wire, eof, client >>
    BY <1>7 DEF WriteFails, ReturnHandler
  <2>2. QED
    BY <2>1, ReturnedTyped DEF Connection, Passed, HasBarrier
<1>8. ASSUME NEW id \in Nat, NEW type \in ProviderTypes \union ForeignTypes \union {"stale", "barrier"},
             Write(id, type), UNCHANGED << eof, client >>,
             handler'.pc \in {"replay", "live"},
             handler.pc # handler'.pc \/ type = "barrier" => handler'.pc = "live",
             handler.pc \in {"replay", "live"}, handler.pc = "live" => handler'.pc = "live"
      PROVE  Connection'
  <2>1. [life |-> life, id |-> id, type |-> type] \in Frames
        /\ wire' = IF eof THEN wire ELSE Append(wire, [life |-> life, id |-> id, type |-> type])
    BY <1>8, Written
  <2>2. HasBarrier' => HasBarrier \/ type = "barrier"
    <3>1. CASE wire' = wire
      BY <3>1 DEF HasBarrier
    <3>2. CASE wire' = Append(wire, [life |-> life, id |-> id, type |-> type])
      BY <1>0, <2>1, <3>2, FrameAppended DEF HasBarrier
    <3>3. QED
      BY <2>1, <3>1, <3>2
  <2>3. client.pc \in {"stopped", "dial"} => wire' = << >>
    BY <2>1 DEF Connection
  <2>4. QED
    BY <1>8, <2>2, <2>3 DEF Connection, Passed
<1>9. CASE WriteStale
  <2>1. /\ Write(handler.staleID, "stale") /\ handler.staleID \in Nat
        /\ handler'.pc = "replay" /\ handler.pc = "replay" /\ UNCHANGED << eof, client >>
    BY <1>0, <1>9 DEF WriteStale, HandlerType
  <2>2. QED
    BY <1>8, <2>1
<1>10. CASE WriteReplay
  <2>1. /\ handler'.pc = "replay" /\ handler.pc = "replay" /\ UNCHANGED << eof, client >>
        /\ Head(handler.replay) \in Events
    BY <1>0, <1>10 DEF WriteReplay, HandlerType
  <2>2. \/ Write(Head(handler.replay).id, Head(handler.replay).type)
              /\ Crosses(Head(handler.replay).type)
        \/ wire' = wire
    BY <1>10 DEF WriteReplay
  <2>3. CASE wire' = wire
    BY <2>1, <2>3 DEF Connection, Passed, HasBarrier
  <2>4. CASE /\ Write(Head(handler.replay).id, Head(handler.replay).type)
             /\ Crosses(Head(handler.replay).type)
    <3>1. /\ Head(handler.replay).id \in Nat
          /\ Head(handler.replay).type \in ProviderTypes \union ForeignTypes
          /\ Head(handler.replay).type # "barrier"
      BY <2>1, <2>4, FrameTypes DEF Crosses, Events
    <3>2. QED
      BY <1>8, <2>1, <2>4, <3>1
  <2>5. QED
    BY <2>2, <2>3, <2>4
<1>11. CASE WriteBarrier
  <2>1. /\ Write(0, "barrier") /\ handler'.pc = "live" /\ handler.pc = "replay"
        /\ UNCHANGED << eof, client >>
    BY <1>0, <1>11 DEF WriteBarrier, HandlerType
  <2>2. QED
    BY <1>8, <2>1
<1>12. CASE Live
  <2>1. /\ handler'.pc = "live" /\ handler.pc = "live" /\ UNCHANGED << eof, client >>
        /\ Head(chan[S].buf) \in Events
    <3>1. chan[S].buf # << >> /\ chan[S].buf \in Seq(Events)
      BY <1>12, TheStream DEF Live, HubOpen, HubInv, HubTypeOK
    <3>2. QED
      BY <1>0, <1>12, <3>1 DEF Live, HandlerType
  <2>2. \/ Write(Head(chan[S].buf).id, Head(chan[S].buf).type)
              /\ Crosses(Head(chan[S].buf).type)
        \/ wire' = wire
    BY <1>12 DEF Live
  <2>3. CASE wire' = wire
    BY <2>1, <2>3 DEF Connection, Passed, HasBarrier
  <2>4. QED
    BY <1>8, <2>1, <2>2, <2>3 DEF Crosses, Events
<1>13. CASE Fail /\ handler' = handler
  BY <1>13, FailedConnection
<1>14. CASE Dial
  <2>1. CASE enrollment = "active"
    <3>1. /\ handler' = [Returned EXCEPT !.pc = "arrived", !.hasCursor = client.cursor > 0,
                                         !.deliveredThrough = client.cursor]
          /\ client' = [client EXCEPT !.pc = "read", !.ready = FALSE]
          /\ wire' = << >> /\ eof' = FALSE /\ client.pc = "dial"
      BY <1>14, <2>1 DEF Dial
    <3>2. handler'.pc = "arrived"
      BY <3>1, ReturnedTyped DEF HandlerType
    <3>3. client'.pc = "read" /\ ~client'.ready /\ client'.connected = client.connected
      BY <1>0, <3>1 DEF ClientType
    <3>4. ~HasBarrier'
      BY <3>1, NoFrames DEF HasBarrier
    <3>5. client.connected # "yes"
      BY <3>1 DEF Connection
    <3>6. QED
      BY <3>1, <3>2, <3>3, <3>4, <3>5 DEF Connection, Passed
  <2>2. CASE enrollment # "active"
    BY <1>13, <1>14, <2>2 DEF Dial
  <2>3. QED
    BY <2>1, <2>2
<1>15. CASE ReadFrame
  <2>1. wire # << >> /\ client.pc = "read" /\ handler' = handler
    BY <1>15 DEF ReadFrame
  <2>2. CASE Fail
    BY <1>13, <2>1, <2>2
  <2>3. CASE wire' = Tail(wire) /\ eof' = eof /\ ~Fail
    <3>1. HasBarrier' => HasBarrier
      BY <1>0, <2>1, <2>3, FrameTaken DEF HasBarrier
    <3>2. \/ client'.pc = "read" /\ client'.ready = client.ready /\ client'.connected = client.connected
          \/ /\ client'.pc = "refresh" /\ client'.ready = client.ready /\ client'.connected # "yes"
             /\ client.ready \/ Head(wire).type = "barrier"
      <4>1. ASSUME NEW c \in ClientType, c.ready = client.ready
            PROVE  /\ BeginResync(c).pc = "refresh" /\ BeginResync(c).ready = client.ready
                   /\ BeginResync(c).connected # "yes"
        BY <4>1 DEF BeginResync, ClientType
      <4>2. DEFINE past == [client EXCEPT !.cursor = Head(wire).id]
      <4>3. /\ past \in ClientType /\ past.ready = client.ready /\ past.pc = client.pc
            /\ past.connected = client.connected
            /\ CursorFromStale(client, Head(wire).id) = past
        BY <1>0, <2>1, FrameTaken DEF CursorFromStale, ClientType, Frames
      <4>4. \/ client' = client
            \/ client' = past
            \/ client' = BeginResync(client) /\ Head(wire).type = "barrier"
            \/ client' = BeginResync(past) /\ client.ready
        BY <1>15, <2>3, <4>3 DEF ReadFrame
      <4>5. QED
        BY <1>0, <2>1, <4>1, <4>3, <4>4
    <3>3. Head(wire).type = "barrier" => HasBarrier
      BY <1>0, <2>1, FrameTaken DEF HasBarrier
    <3>4. QED
      BY <2>1, <2>3, <3>1, <3>2, <3>3 DEF Connection, Passed
  <2>4. QED
    BY <1>15, <2>2, <2>3 DEF ReadFrame
<1>16. CASE Refresh \/ FetchStatus \/ ReadEnds \/ RequestFails
  <2>1. CASE /\ UNCHANGED << handler, wire, eof >> /\ client'.connected = client.connected
             /\ client'.ready = client.ready /\ client.pc \in {"refresh", "fetch"}
             /\ client'.pc \in {"fetch", "announce"}
    BY <2>1 DEF Connection, Passed, HasBarrier
  <2>2. CASE Refresh /\ enabled
    BY <1>0, <2>1, <2>2 DEF Refresh, ClientType
  <2>3. CASE FetchStatus /\ enrollment = "active"
    BY <1>0, <2>1, <2>3 DEF FetchStatus, ClientType
  <2>4. QED
    BY <1>13, <1>16, <2>2, <2>3 DEF Refresh, FetchStatus, ReadEnds, RequestFails
<1>17. CASE Announce
  <2>1. /\ UNCHANGED << handler, wire, eof >> /\ client.pc = "announce"
        /\ client'.pc = "read" /\ client'.ready
    BY <1>0, <1>17 DEF Announce, SetConnection, ClientType
  <2>2. QED
    BY <2>1 DEF Connection, Passed, HasBarrier
<1>18. CASE Start
  <2>1. /\ UNCHANGED << handler, wire, eof >> /\ client.pc = "stopped" /\ client'.pc = "dial"
        /\ client'.ready = client.ready /\ client'.connected = client.connected
    BY <1>0, <1>18 DEF Start, ClientType
  <2>2. QED
    BY <2>1 DEF Connection, Passed, HasBarrier
<1>19. CASE Stop
  <2>1. /\ handler' = handler /\ wire' = << >> /\ eof' = TRUE
        /\ client'.pc = "stopped" /\ ~client'.ready /\ client'.connected = "no"
    BY <1>0, <1>19 DEF Stop, SetConnection, ClientType
  <2>2. ~HasBarrier'
    BY <2>1, NoFrames DEF HasBarrier
  <2>3. QED
    BY <2>1, <2>2 DEF Connection, Passed
<1>20. CASE SetEnabled
  <2>1. /\ UNCHANGED << handler, wire, eof >> /\ client'.pc = client.pc
        /\ client'.ready = client.ready /\ client'.connected = client.connected
    BY <1>0, <1>20 DEF SetEnabled, ClientType
  <2>2. QED
    BY <2>1 DEF Connection, Passed, HasBarrier
<1>21. CASE Drop
  <2>1. /\ handler' = handler /\ wire' = << >> /\ eof' = TRUE /\ client' = client
    BY <1>21 DEF Drop
  <2>2. ~HasBarrier'
    BY <2>1, NoFrames DEF HasBarrier
  <2>3. QED
    BY <2>1, <2>2 DEF Connection, Passed
<1>22. CASE ContextDone \/ Revoke \/ (\E t \in EventTypes : Publish(t)) \/ UNCHANGED vars
  BY <1>1, <1>22 DEF ContextDone, Revoke, Publish, vars
<1>23. QED
  BY <1>3, <1>5, <1>6, <1>7, <1>9, <1>10, <1>11, <1>12, <1>14, <1>15, <1>16, <1>17, <1>18, <1>19,
     <1>20, <1>21, <1>22 DEF Next, HandlerStep, ClientStep

\* Revocation: the second look at the enrollment and the cancellation of the
\* tracked streams leave no stream out, whichever comes first.
LEMMA RevokedStep ==
    ASSUME FedTypes, RevokedStreamEnds, [Next]_vars
    PROVE  RevokedStreamEnds'
<1>0. /\ handler \in HandlerType
      /\ enrollment = "cleaned" =>
            handler.pc \in {"returned", "arrived", "tracked"} \/ handler.cancelled
  BY DEF FedTypes, RevokedStreamEnds
<1>1. CASE handler' = handler /\ enrollment' = enrollment
  BY <1>0, <1>1 DEF RevokedStreamEnds
<1>2. CASE enrollment' # "cleaned" \/ handler' = Returned
  BY <1>2, ReturnedTyped DEF RevokedStreamEnds
<1>3. CASE OpenStream \/ ReplaySnapshot \/ WriteStale \/ WriteReplay \/ WriteBarrier \/ Live
  <2>1. /\ enrollment' = enrollment /\ handler'.cancelled = handler.cancelled
        /\ handler.pc \in {"authorized", "snapshot", "replay", "live"}
    BY <1>0, <1>3 DEF OpenStream, ReplaySnapshot, WriteStale, WriteReplay, WriteBarrier, Live, HandlerType
  <2>2. QED
    BY <1>0, <2>1 DEF RevokedStreamEnds
<1>4. CASE Track
  BY <1>0, <1>4 DEF Track, RevokedStreamEnds, HandlerType
<1>5. CASE Authorize
  BY <1>2, <1>5 DEF Authorize, ReturnHandler
<1>6. CASE FinishRevocation
  BY <1>0, <1>6 DEF FinishRevocation, CancelStreams, RevokedStreamEnds, HandlerType
<1>7. CASE Dial
  BY <1>1, <1>2, <1>7 DEF Dial
<1>8. CASE LiveReturns \/ WriteFails \/ Restart \/ Revoke
  BY <1>2, <1>8 DEF LiveReturns, WriteFails, Restart, Revoke, ReturnHandler
<1>9. QED
  BY <1>1, <1>3, <1>4, <1>5, <1>6, <1>7, <1>8
     DEF Next, HandlerStep, ClientStep, vars, Publish, ContextDone, Start, ReadFrame, ReadEnds, Refresh,
         FetchStatus, Announce, RequestFails, Stop, SetEnabled, Drop

-----------------------------------------------------------------------------
(* What a step does to the stream. *)

Admitting == {"arrived", "tracked", "authorized"}

Early == Admitting \union {"snapshot"}

\* The handler goes on where it was, perhaps cancelled.
SameStream ==
    /\ handler'.hasCursor = handler.hasCursor
    /\ handler'.deliveredThrough = handler.deliveredThrough
    /\ handler'.replay = handler.replay
    /\ handler'.staleID = handler.staleID

\* The handler returns, or its process ends.
Gone ==
    /\ handler' = Returned /\ eof' = TRUE
    /\ UNCHANGED << wire, client, observed >>
    /\ Bystander \/ Restart

\* The connection ends at the spoke, or breaks.
Broken ==
    /\ UNCHANGED << hubVars, life, handler >>
    /\ wire' = << >> /\ eof' = TRUE

\* The client reads a frame and goes on.
Taken ==
    /\ ReadFrame /\ ~Fail
    /\ wire' = Tail(wire) /\ UNCHANGED << hubVars, life, handler, eof >>

SameClient ==
    /\ UNCHANGED observed
    /\ client'.pc = client.pc /\ client'.ready = client.ready
    /\ client'.connected = client.connected /\ client'.fetched = client.fetched
    /\ client'.cursor = client.cursor

\* Nothing moves on the stream.
Idle ==
    /\ Bystander /\ UNCHANGED << life, wire, eof >> /\ SameStream
    /\ handler'.pc = handler.pc \/ {handler.pc, handler'.pc} \subseteq Admitting
    /\ \/ SameClient
       \/ Start \/ (Refresh /\ enabled) \/ (FetchStatus /\ enrollment = "active") \/ Announce

LEMMA Unmoved ==
    ASSUME FedTypes, UNCHANGED << hubVars, life, handler, wire, eof >>
    PROVE  Bystander /\ SameStream
  BY DEF Bystander, SameStream, hubVars

LEMMA Steps ==
    ASSUME FedTypes, HubOpen, [Next]_vars
    PROVE  \/ Gone \/ Broken \/ Taken \/ Idle
           \/ Dial /\ enrollment = "active"
           \/ OpenStream \/ ReplaySnapshot \/ WriteStale \/ WriteReplay \/ WriteBarrier \/ Live
           \/ \E t \in EventTypes : Publish(t)
<1>0. handler \in HandlerType /\ client \in ClientType
  BY DEF FedTypes
<1>1. CASE LiveReturns \/ WriteFails \/ (Authorize /\ enrollment # "active")
  <2>1. UNCHANGED hubVars
    BY <1>1 DEF LiveReturns, WriteFails, Authorize
  <2>2. handler' = Returned /\ eof' = TRUE /\ UNCHANGED << wire, client, observed >>
    BY <1>1 DEF LiveReturns, WriteFails, Authorize, ReturnHandler, FedTypes
  <2>3. QED
    BY <2>1, <2>2 DEF Gone, Bystander, hubVars
<1>2. CASE Restart
  BY <1>2 DEF Restart, Gone
<1>3. CASE Fail /\ UNCHANGED << hubVars, life, handler >>
  BY <1>3 DEF Fail, Broken
<1>4. CASE Stop \/ Drop \/ ReadEnds \/ RequestFails
  BY <1>3, <1>4 DEF Stop, Drop, ReadEnds, RequestFails, Broken
<1>5. CASE ReadFrame
  <2>1. UNCHANGED << hubVars, life, handler >> /\ (Fail \/ (wire' = Tail(wire) /\ eof' = eof))
    BY <1>5 DEF ReadFrame
  <2>2. QED
    BY <1>3, <1>5, <2>1 DEF Taken
<1>6. CASE Track \/ (Authorize /\ enrollment = "active")
  <2>1. UNCHANGED << hubVars, life, wire, eof, client, observed >>
    BY <1>6 DEF Track, Authorize
  <2>2. SameStream /\ handler.pc \in Admitting /\ handler'.pc \in Admitting
    BY <1>0, <1>6 DEF Track, Authorize, SameStream, HandlerType, Admitting
  <2>3. Bystander /\ SameClient
    BY <2>1 DEF Bystander, SameClient, hubVars
  <2>4. QED
    BY <2>1, <2>2, <2>3 DEF Idle
<1>7. CASE FinishRevocation
  <2>1. UNCHANGED << hubVars, life, wire, eof, client, observed >>
    BY <1>7 DEF FinishRevocation
  <2>2. SameStream /\ handler'.pc = handler.pc
    BY <1>0, <1>7 DEF FinishRevocation, CancelStreams, SameStream, HandlerType
  <2>3. Bystander /\ SameClient
    BY <2>1 DEF Bystander, SameClient, hubVars
  <2>4. QED
    BY <2>1, <2>2, <2>3 DEF Idle
<1>8. CASE ContextDone
  <2>1. /\ UNCHANGED << life, handler, wire, eof, client, observed >>
        /\ UNCHANGED << nextEventID, ring, ringHead, ringCount, cached >>
    BY <1>8 DEF ContextDone
  <2>2. subscribers' \subseteq subscribers /\ chan'[S].buf = chan[S].buf
    <3>1. Unsubscribe({S}) /\ chan \in [Streams -> [buf : Seq(Events), closed : BOOLEAN]]
      BY <1>8 DEF ContextDone, HubOpen, HubInv, HubTypeOK
    <3>2. chan' = [s \in Streams |-> IF s \in {S} \intersect subscribers
                                     THEN [chan[s] EXCEPT !.closed = TRUE] ELSE chan[s]]
      BY <3>1 DEF Unsubscribe
    <3>3. chan'[S] = [chan[S] EXCEPT !.closed = TRUE] \/ chan'[S] = chan[S]
      BY <3>2, TheStream
    <3>4. QED
      BY <3>1, <3>3, TheStream DEF Unsubscribe
  <2>3. Bystander /\ SameClient /\ SameStream
    BY <2>1, <2>2 DEF Bystander, SameClient, SameStream
  <2>4. QED
    BY <2>1, <2>3 DEF Idle
<1>9. CASE SetEnabled \/ Revoke \/ UNCHANGED vars
  <2>1. UNCHANGED << hubVars, life, handler, wire, eof, observed >>
    BY <1>9 DEF SetEnabled, Revoke, vars
  <2>2. SameClient
    <3>1. CASE SetEnabled
      BY <1>0, <2>1, <3>1 DEF SetEnabled, SameClient, ClientType
    <3>2. CASE client' = client
      BY <2>1, <3>2 DEF SameClient
    <3>3. QED
      BY <1>9, <3>1, <3>2 DEF Revoke, vars
  <2>3. QED
    BY <2>1, <2>2, Unmoved DEF Idle
<1>10. CASE Start \/ (Refresh /\ enabled) \/ (FetchStatus /\ enrollment = "active") \/ Announce
  <2>1. UNCHANGED << hubVars, life, handler, wire, eof >>
    BY <1>10 DEF Start, Refresh, FetchStatus, Announce
  <2>2. QED
    BY <1>10, <2>1, Unmoved DEF Idle
<1>11. CASE (Refresh /\ ~enabled) \/ (FetchStatus /\ enrollment # "active")
              \/ (Dial /\ enrollment # "active")
  <2>1. Fail /\ UNCHANGED << nextEventID, ring, ringHead, ringCount, cached, subscribers, chan,
                             done, closed, life, handler >>
    BY <1>11 DEF Refresh, FetchStatus, Dial, hubVars
  <2>2. QED
    BY <1>3, <2>1 DEF hubVars
<1>12. QED
  BY <1>1, <1>2, <1>4, <1>5, <1>6, <1>7, <1>8, <1>9, <1>10, <1>11 DEF Next, HandlerStep, ClientStep

-----------------------------------------------------------------------------
(* Where the hub's handler is in its stream. *)

HandlerPhases ==
    /\ handler.pc # "replay" => handler.replay = << >> /\ handler.staleID = 0
    /\ handler.replay # << >> => handler.staleID = 0
    /\ handler.pc \in Early \/ handler.staleID # 0 => wire = << >>
    /\ ~handler.hasCursor =>
          handler.pc # "snapshot" /\ handler.replay = << >> /\ handler.staleID = 0
    /\ ~handler.hasCursor /\ handler.pc \in Early => handler.deliveredThrough = 0

Streaming == handler.pc \in {"replay", "live"}

\* What has not been delivered lies ahead of what has.
HandlerPosition ==
    /\ Ascends(handler.replay)
    /\ \A rec \in Range(handler.replay) :
          rec.id <= nextEventID /\ rec.id > handler.deliveredThrough
    /\ handler.staleID <= nextEventID
    /\ Streaming /\ handler.staleID = 0 => handler.deliveredThrough <= nextEventID
    /\ Streaming /\ ~handler.hasCursor =>
          \A e \in IdsOf(chan[S].buf) : e > handler.deliveredThrough

LEMMA PhasesStep ==
    ASSUME FedTypes, HubOpen, HandlerPhases, [Next]_vars
    PROVE  HandlerPhases'
<1>0. handler \in HandlerType /\ client \in ClientType /\ wire \in Seq(Frames)
  BY DEF FedTypes
<1>1. CASE Gone
  BY <1>1, ReturnedTyped DEF Gone, HandlerPhases, Early, Admitting
<1>2. CASE Broken
  BY <1>2 DEF Broken, HandlerPhases
<1>3. CASE Taken
  BY <1>3 DEF Taken, ReadFrame, HandlerPhases
<1>4. CASE Idle
  <2>1. wire' = wire /\ SameStream
        /\ (handler'.pc = handler.pc \/ {handler.pc, handler'.pc} \subseteq Admitting)
    BY <1>4 DEF Idle
  <2>2. QED
    BY <2>1 DEF SameStream, HandlerPhases, Early, Admitting
<1>5. CASE Dial /\ enrollment = "active"
  <2>1. /\ handler' = [Returned EXCEPT !.pc = "arrived", !.hasCursor = client.cursor > 0,
                                       !.deliveredThrough = client.cursor]
        /\ wire' = << >>
    BY <1>5 DEF Dial
  <2>2. /\ handler'.pc = "arrived" /\ handler'.replay = << >> /\ handler'.staleID = 0
        /\ ~handler'.hasCursor => handler'.deliveredThrough = 0
    <3>1. client.cursor \in Nat
      BY <1>0 DEF ClientType
    <3>2. ~(client.cursor > 0) => client.cursor = 0
      BY <3>1
    <3>3. QED
      BY <2>1, <3>2, ReturnedTyped DEF HandlerType
  <2>3. QED
    BY <2>1, <2>2 DEF HandlerPhases
<1>6. CASE OpenStream
  BY <1>0, <1>6 DEF OpenStream, HandlerPhases, HandlerType, Early, Admitting
<1>7. CASE ReplaySnapshot
  <2>1. /\ handler.pc = "snapshot" /\ handler'.pc = "replay" /\ wire' = wire
        /\ handler'.hasCursor = handler.hasCursor
        /\ handler'.replay = handler.replay \/ handler'.staleID = handler.staleID
    BY <1>0, <1>7 DEF ReplaySnapshot, HandlerType
  <2>2. QED
    BY <2>1 DEF HandlerPhases, Early, Admitting
<1>8. CASE WriteStale
  BY <1>0, <1>8 DEF WriteStale, HandlerPhases, HandlerType, Early, Admitting
<1>9. CASE WriteReplay
  <2>1. /\ handler.pc = "replay" /\ handler'.pc = "replay" /\ handler.replay # << >>
        /\ handler'.hasCursor = handler.hasCursor /\ handler'.staleID = handler.staleID
    BY <1>0, <1>9 DEF WriteReplay, HandlerType
  <2>2. QED
    BY <2>1 DEF HandlerPhases, Early, Admitting
<1>10. CASE WriteBarrier
  BY <1>0, <1>10 DEF WriteBarrier, HandlerPhases, HandlerType, Early, Admitting
<1>11. CASE Live
  <2>1. /\ handler.pc = "live" /\ handler'.pc = "live" /\ handler'.replay = handler.replay
        /\ handler'.hasCursor = handler.hasCursor /\ handler'.staleID = handler.staleID
    BY <1>0, <1>11 DEF Live, HandlerType
  <2>2. QED
    BY <2>1 DEF HandlerPhases, Early, Admitting
<1>12. CASE \E t \in EventTypes : Publish(t)
  BY <1>12 DEF Publish, HandlerPhases
<1>13. QED
  BY <1>1, <1>2, <1>3, <1>4, <1>5, <1>6, <1>7, <1>8, <1>9, <1>10, <1>11, <1>12, Steps

LEMMA PositionStep ==
    ASSUME FedTypes, HubOpen, HubOpen', HandlerPhases, HandlerPosition, [Next]_vars
    PROVE  HandlerPosition'
<1>0. handler \in HandlerType /\ client \in ClientType /\ nextEventID \in Nat
      /\ chan[S].buf \in Seq(Events) /\ Ascends(chan[S].buf)
      /\ \A rec \in Range(chan[S].buf) : rec.id <= nextEventID
      /\ HubInv /\ RingInOrder
  BY TheStream DEF FedTypes, HubOpen, HubInv, HubTypeOK, ChannelsInOrder, Genuine
<1>ring. RingInOrder
  BY DEF HubOpen, HubInv
<1> DEFINE buf == chan[S].buf
<1>1. CASE handler' = Returned
  <2>1. nextEventID' \in Nat /\ ~Streaming'
    BY <1>1, ReturnedTyped DEF HubOpen, HubInv, HubTypeOK, Streaming
  <2>2. QED
    BY <1>1, <2>1, ReturnedTyped, AscendsNone DEF HandlerPosition
<1>2. CASE Bystander /\ SameStream /\ Streaming' = Streaming
  BY <1>2 DEF Bystander, SameStream, HandlerPosition
<1>3. CASE Broken \/ Taken
  BY <1>2, <1>3 DEF Broken, Taken, Bystander, SameStream, Streaming, hubVars
<1>4. CASE Idle
  BY <1>2, <1>4 DEF Idle, Streaming, Admitting
<1>5. CASE Dial /\ enrollment = "active"
  <2>1. /\ handler' = [Returned EXCEPT !.pc = "arrived", !.hasCursor = client.cursor > 0,
                                       !.deliveredThrough = client.cursor]
        /\ nextEventID' = nextEventID
    BY <1>5 DEF Dial
  <2>2. handler'.pc = "arrived" /\ handler'.replay = << >> /\ handler'.staleID = 0
    BY <2>1, ReturnedTyped DEF HandlerType
  <2>3. QED
    BY <1>0, <2>1, <2>2, AscendsNone DEF HandlerPosition, Streaming
<1>6. CASE OpenStream
  <2>1. Opens
    BY <1>6, Opened
  <2>2. /\ handler'.replay = handler.replay /\ handler'.staleID = handler.staleID
        /\ handler'.deliveredThrough = handler.deliveredThrough
        /\ handler'.hasCursor = handler.hasCursor /\ handler.pc = "authorized"
        /\ handler'.pc = "snapshot" \/ (handler'.pc = "replay" /\ ~handler.hasCursor)
    BY <1>0, <1>6 DEF OpenStream, HandlerType
  <2>3. QED
    BY <1>0, <2>1, <2>2, AscendsNone
       DEF Opens, HandlerPosition, HandlerPhases, Streaming, Early, Admitting
<1>7. CASE ReplaySnapshot
  <2>1. handler.pc = "snapshot" /\ handler.hasCursor /\ handler'.hasCursor
        /\ handler.replay = << >> /\ handler.staleID = 0 /\ handler'.pc = "replay"
    BY <1>0, <1>7 DEF ReplaySnapshot, HandlerPhases, HandlerType
  <2>2. CASE TakeSyntheticID
    <3>1. /\ nextEventID' = nextEventID + 1
          /\ handler' = [handler EXCEPT !.pc = "replay", !.staleID = nextEventID + 1]
      BY <1>0, <1>7, <2>2 DEF ReplaySnapshot, TakeSyntheticID, hubVars
    <3>2. handler'.replay = << >> /\ handler'.staleID = nextEventID'
      BY <1>0, <2>1, <3>1 DEF HandlerType
    <3>3. QED
      BY <1>0, <2>1, <3>1, <3>2, AscendsNone DEF HandlerPosition
  <2>3. CASE ~StaleCursor(handler.deliveredThrough) /\ UNCHANGED hubVars
                /\ handler' = [handler EXCEPT !.pc = "replay", !.replay = After(handler.deliveredThrough)]
    <3>1. /\ handler'.replay = After(handler.deliveredThrough) /\ handler'.staleID = 0
          /\ handler'.deliveredThrough = handler.deliveredThrough
          /\ handler.deliveredThrough \in Nat /\ nextEventID' = nextEventID
      BY <1>0, <2>1, <2>3 DEF HandlerType, hubVars
    <3>2. handler.deliveredThrough <= nextEventID
      BY <1>0, <2>3, <3>1 DEF StaleCursor
    <3>3. Ascends(handler'.replay) /\ \A rec \in Range(handler'.replay) :
             rec.id <= nextEventID /\ rec.id > handler.deliveredThrough
      <4>0. handler.deliveredThrough \in Nat /\ RingInOrder
        BY <1>ring, <3>1
      <4>1. /\ After(handler.deliveredThrough) \in Seq(Events)
            /\ Ascends(After(handler.deliveredThrough))
            /\ \A i \in 1 .. ringCount : Recorded[i].id <= nextEventID
            /\ Range(After(handler.deliveredThrough)) \subseteq {Recorded[i] : i \in 1 .. ringCount}
            /\ \A e \in IdsOf(After(handler.deliveredThrough)) : e > handler.deliveredThrough
        <5>1. /\ After(handler.deliveredThrough) \in Seq(Events)
              /\ Ascends(After(handler.deliveredThrough))
              /\ Range(After(handler.deliveredThrough)) \subseteq {Recorded[i] : i \in 1 .. ringCount}
              /\ IdsOf(After(handler.deliveredThrough))
                    = {e \in IdsOf(Recorded) : e > handler.deliveredThrough}
          BY <4>0, Replays
        <5>2. \A i \in 1 .. ringCount : Recorded[i].id <= nextEventID
          BY <4>0 DEF RingInOrder
        <5>3. QED
          BY <5>1, <5>2
      <4>2. QED
        BY <3>1, <4>1, IdsTyped
    <3>4. QED
      BY <1>0, <2>1, <3>1, <3>2, <3>3 DEF HandlerPosition
  <2>4. QED
    BY <1>7, <2>2, <2>3 DEF ReplaySnapshot
<1>8. CASE WriteStale
  <2>1. /\ handler.staleID # 0 /\ nextEventID' = nextEventID /\ handler.pc = "replay"
        /\ handler'.replay = handler.replay /\ handler'.staleID = 0
        /\ handler'.deliveredThrough = handler.staleID /\ handler'.hasCursor = handler.hasCursor
    BY <1>0, <1>8 DEF WriteStale, HandlerType, hubVars
  <2>2. handler'.replay = << >> /\ handler.hasCursor
    BY <2>1 DEF HandlerPhases
  <2>3. QED
    BY <1>0, <2>1, <2>2, AscendsNone DEF HandlerPosition
<1>9. CASE WriteReplay
  <2>1. /\ handler.replay # << >> /\ handler.replay \in Seq(Events)
        /\ nextEventID' = nextEventID /\ handler.pc = "replay"
        /\ handler'.replay = Tail(handler.replay) /\ handler'.staleID = handler.staleID
        /\ handler'.deliveredThrough = Head(handler.replay).id
        /\ handler'.hasCursor = handler.hasCursor
    BY <1>0, <1>9 DEF WriteReplay, HandlerType, hubVars
  <2>2. handler.hasCursor /\ handler.staleID = 0
    BY <2>1 DEF HandlerPhases
  <2>3. /\ Ascends(Tail(handler.replay)) /\ Tail(handler.replay) \in Seq(Events)
        /\ Range(handler.replay) = Range(Tail(handler.replay)) \union {Head(handler.replay)}
        /\ \A e \in IdsOf(Tail(handler.replay)) : e > Head(handler.replay).id
    BY <2>1, AscendsTail DEF HandlerPosition
  <2>4. Head(handler.replay).id <= nextEventID /\ \A rec \in Range(Tail(handler.replay)) :
            rec.id <= nextEventID /\ rec.id > Head(handler.replay).id
    BY <2>3, IdsTyped DEF HandlerPosition
  <2>5. QED
    BY <1>0, <2>1, <2>2, <2>3, <2>4 DEF HandlerPosition
<1>10. CASE WriteBarrier
  <2>1. SameStream /\ Streaming' = Streaming /\ UNCHANGED hubVars
    BY <1>0, <1>10 DEF WriteBarrier, SameStream, Streaming, HandlerType
  <2>2. QED
    BY <1>2, <2>1 DEF Bystander, hubVars
<1>11. CASE Live
  <2>1. chan[S].buf # << >> /\ chan'[S].buf = Tail(chan[S].buf) /\ nextEventID' = nextEventID
    BY <1>11, Received DEF Receives
  <2>2. /\ Tail(buf) \in Seq(Events) /\ Head(buf) \in Events
        /\ IdsOf(buf) = IdsOf(Tail(buf)) \union {Head(buf).id}
        /\ \A e \in IdsOf(Tail(buf)) : e > Head(buf).id
        /\ Head(buf).id <= nextEventID
    BY <1>0, <2>1, AscendsTail
  <2>3. /\ handler.pc = "live" /\ handler'.pc = "live" /\ handler'.hasCursor = handler.hasCursor
        /\ handler'.replay = handler.replay /\ handler'.staleID = handler.staleID
        /\ handler'.deliveredThrough \in {handler.deliveredThrough, Head(buf).id}
        /\ ~handler.hasCursor => handler'.deliveredThrough = Head(buf).id
    BY <1>0, <1>11 DEF Live, Skip, HandlerType
  <2>4. handler.replay = << >> /\ handler.staleID = 0
    BY <2>3 DEF HandlerPhases
  <2>5. QED
    BY <1>0, <2>1, <2>2, <2>3, <2>4, AscendsNone DEF HandlerPosition, Streaming
<1>12. ASSUME NEW t \in EventTypes, Publish(t) PROVE HandlerPosition'
  <2>2. /\ nextEventID' = nextEventID + 1 /\ handler' = handler
        /\ \/ IdsOf(chan'[S].buf) = IdsOf(buf) \union {nextEventID + 1}
           \/ chan'[S].buf = buf
    <3>1. Broadcast(t) /\ handler' = handler
      BY <1>12 DEF Publish
    <3>2. QED
      BY <1>12, <3>1, Published
  <2>3. handler.deliveredThrough \in Nat /\ handler.staleID \in Nat
        /\ \A r \in Range(handler.replay) : r.id \in Nat
    BY <1>0, IdsTyped DEF HandlerType
  <2>4. Streaming /\ ~handler.hasCursor => handler.staleID = 0
    BY DEF HandlerPhases
  <2>5. QED
    BY <1>0, <2>2, <2>3, <2>4 DEF HandlerPosition, Streaming
<1>13. QED
  BY <1>1, <1>3, <1>4, <1>5, <1>6, <1>7, <1>8, <1>9, <1>10, <1>11, <1>12, Steps DEF Gone

-----------------------------------------------------------------------------
(* The newest status, and the frames on the connection. *)

NewestStatus == cached[StatusType].id

NotAfterNewest(rec) == rec.type = StatusType => rec.id <= NewestStatus

\* No status the hub holds anywhere is newer than the one it caches.
StatusLatest ==
    /\ \A i \in 1 .. ringCount : NotAfterNewest(Recorded[i])
    /\ \A rec \in Range(chan[S].buf) : NotAfterNewest(rec)
    /\ \A rec \in Range(handler.replay) : NotAfterNewest(rec)

IsEvent(f) == f.type \notin {"stale", "barrier"}

StaleFirst == wire # << >> /\ wire[1].type = "stale"

\* Ids ascend, only the first frame can be the stale marker, and no event that
\* arrives is one the cursor rejects.
WireInOrder ==
    /\ \A i, j \in DOMAIN wire : i < j =>
          /\ wire[j].type # "stale"
          /\ IsEvent(wire[j]) /\ wire[i].type # "barrier" => wire[i].id < wire[j].id
    /\ Passed => \A i \in DOMAIN wire : wire[i].type # "stale"
    /\ StaleFirst \/ \A i \in DOMAIN wire : IsEvent(wire[i]) => wire[i].id > client.cursor

\* What an open connection carries is the hub's, and no newer than what it wrote.
WireCurrent ==
    ~eof =>
        /\ \A i \in DOMAIN wire :
              /\ wire[i].life = life
              /\ wire[i].type # "barrier" => wire[i].id <= handler.deliveredThrough
              /\ NotAfterNewest(wire[i])
        /\ StaleFirst \/ client.cursor <= handler.deliveredThrough

LEMMA Enqueued ==
    ASSUME FedTypes, FedTypes', WireInOrder, WireCurrent, UNCHANGED << eof, client, life >>,
           NewestStatus \in Nat, NewestStatus' \in Nat, NewestStatus' >= NewestStatus,
           NEW id \in Nat, NEW type \in ProviderTypes \union ForeignTypes \union {"stale", "barrier"},
           NEW dt \in Nat, dt = handler.deliveredThrough,
           NEW dtn \in Nat, dtn = handler'.deliveredThrough,
           \/ wire' = wire /\ (eof \/ dtn >= dt)
           \/ /\ wire' = Append(wire, [life |-> life, id |-> id, type |-> type])
              /\ ~eof
              /\ dtn >= dt \/ type = "stale"
              /\ dtn >= id \/ type = "barrier"
              /\ type = "stale" => wire = << >> /\ ~Passed
              /\ type \notin {"stale", "barrier"} => id > dt
              /\ type = StatusType => id <= NewestStatus
    PROVE  WireInOrder' /\ WireCurrent'
<1>0. /\ wire \in Seq(Frames) /\ wire' \in Seq(Frames) /\ client.cursor \in Nat
      /\ [life |-> life, id |-> id, type |-> type] \in Frames
  BY Bounds DEF FedTypes, ClientType, Frames
<1>ids. \A i \in DOMAIN wire : wire[i].id \in Nat
  BY <1>0, FramesTyped
<1>1. CASE wire' = wire /\ (eof \/ dtn >= dt)
  <2>1. WireInOrder'
    BY <1>1 DEF WireInOrder, StaleFirst, Passed
  <2>2. CASE eof
    BY <2>1, <2>2 DEF WireCurrent
  <2>3. CASE dtn >= dt
    BY <1>0, <1>ids, <1>1, <2>1, <2>3 DEF WireCurrent, StaleFirst, NotAfterNewest
  <2>4. QED
    BY <1>1, <2>2, <2>3
<1>2. CASE /\ wire' = Append(wire, [life |-> life, id |-> id, type |-> type])
           /\ ~eof
           /\ dtn >= dt \/ type = "stale"
           /\ dtn >= id \/ type = "barrier"
           /\ type = "stale" => wire = << >> /\ ~Passed
           /\ type \notin {"stale", "barrier"} => id > dt
           /\ type = StatusType => id <= NewestStatus
  <2> DEFINE f == [life |-> life, id |-> id, type |-> type]
             l == Len(wire) + 1
  <2>0. f.id = id /\ f.type = type /\ f.life = life
    OBVIOUS
  <2>1. /\ \A i \in DOMAIN wire : i \in DOMAIN wire' /\ wire'[i] = wire[i] /\ i \in Nat /\ i < l
        /\ l \in DOMAIN wire' /\ wire'[l] = f /\ l \in Nat
        /\ \A i \in DOMAIN wire' : i \in DOMAIN wire \/ i = l
    BY <1>0, <1>2, FrameAppended
  <2> HIDE DEF f, l
  <2>2. CASE type = "stale"
    <3>1. wire = << >> /\ ~Passed /\ ~Passed'
      BY <1>2, <2>2 DEF Passed
    <3>2. DOMAIN wire = {} /\ l = 1
      BY <3>1 DEF l
    <3>3. DOMAIN wire' = {1} /\ wire'[1] = f
      BY <2>1, <3>2
    <3>4. StaleFirst'
      <4>1. wire' # << >>
        BY <3>3, NoFrames
      <4>2. QED
        BY <4>1, <3>3, <2>0, <2>2 DEF StaleFirst
    <3>5. WireInOrder'
      BY <3>1, <3>3, <3>4 DEF WireInOrder
    <3>6. WireCurrent'
      BY <1>2, <2>0, <2>2, <3>3, <3>4, FrameTypes DEF WireCurrent, NotAfterNewest
    <3>7. QED
      BY <3>5, <3>6
  <2>3. CASE type # "stale"
    <3>1. dtn >= dt
      BY <1>2, <2>3
    <3>2. StaleFirst => StaleFirst'
      <4>1. SUFFICES ASSUME StaleFirst PROVE StaleFirst'
        OBVIOUS
      <4>2. 1 \in DOMAIN wire
        BY <4>1, <1>0, FrameTaken DEF StaleFirst
      <4>3. 1 \in DOMAIN wire' /\ wire'[1] = wire[1]
        BY <4>2, <2>1
      <4>4. QED
        BY <4>1, <4>3, NoFrames DEF StaleFirst
    <3>3. ASSUME NEW i \in DOMAIN wire
          PROVE  IsEvent(f) /\ wire[i].type # "barrier" => wire[i].id < id
      <4>1. wire[i].type # "barrier" => wire[i].id <= dt
        BY <1>2 DEF WireCurrent
      <4>2. IsEvent(f) => id > dt
        BY <1>2, <2>0 DEF IsEvent
      <4>3. QED
        BY <4>1, <4>2, <1>ids
    <3>4. ~StaleFirst /\ IsEvent(f) => id > client.cursor
      <4>1. ~StaleFirst => client.cursor <= dt
        BY <1>2 DEF WireCurrent
      <4>2. IsEvent(f) => id > dt
        BY <1>2, <2>0 DEF IsEvent
      <4>3. QED
        BY <4>1, <4>2, <1>0
    <3>5. ASSUME NEW i \in DOMAIN wire', NEW j \in DOMAIN wire', i < j
          PROVE  wire'[j].type # "stale"
                   /\ (IsEvent(wire'[j]) /\ wire'[i].type # "barrier" => wire'[i].id < wire'[j].id)
      <4>1. i \in DOMAIN wire
        BY <2>1, <3>5
      <4>2. CASE j \in DOMAIN wire
        BY <4>1, <4>2, <3>5, <2>1 DEF WireInOrder
      <4>3. CASE j = l
        BY <4>1, <4>3, <2>0, <2>1, <2>3, <3>3
      <4>4. QED
        BY <2>1, <4>2, <4>3
    <3>6. Passed' => \A i \in DOMAIN wire' : wire'[i].type # "stale"
      BY <2>0, <2>1, <2>3 DEF WireInOrder, Passed
    <3>7. StaleFirst' \/ \A i \in DOMAIN wire' : IsEvent(wire'[i]) => wire'[i].id > client'.cursor
      BY <2>0, <2>1, <3>2, <3>4 DEF WireInOrder
    <3>8. WireInOrder'
      BY <3>5, <3>6, <3>7 DEF WireInOrder
    <3>9. ASSUME NEW i \in DOMAIN wire'
          PROVE  /\ wire'[i].life = life
                 /\ wire'[i].type # "barrier" => wire'[i].id <= dtn
                 /\ wire'[i].type = StatusType => wire'[i].id <= NewestStatus'
      <4>1. CASE i \in DOMAIN wire
        <5>1. /\ wire[i].life = life /\ (wire[i].type # "barrier" => wire[i].id <= dt)
              /\ wire[i].type = StatusType => wire[i].id <= NewestStatus
          BY <1>2, <4>1 DEF WireCurrent, NotAfterNewest
        <5>2. QED
          BY <5>1, <4>1, <2>1, <3>1, <1>ids
      <4>2. CASE i = l
        BY <4>2, <2>0, <2>1, <1>2
      <4>3. QED
        BY <2>1, <4>1, <4>2
    <3>10. StaleFirst' \/ client'.cursor <= dtn
      BY <1>0, <1>2, <3>1, <3>2 DEF WireCurrent
    <3>11. WireCurrent'
      BY <3>9, <3>10 DEF WireCurrent, NotAfterNewest
    <3>12. QED
      BY <3>8, <3>11
  <2>4. QED
    BY <2>2, <2>3
<1>3. QED
  BY <1>1, <1>2

LEMMA StatusLatestStep ==
    ASSUME FedTypes, HubOpen, HubOpen', HandlerPhases, StatusLatest, [Next]_vars
    PROVE  StatusLatest' /\ (Gone \/ NewestStatus' >= NewestStatus)
             /\ NewestStatus \in Nat /\ NewestStatus' \in Nat
<1>0. handler \in HandlerType /\ HubInv /\ chan[S].buf \in Seq(Events)
  BY TheStream DEF FedTypes, HubOpen, HubInv, HubTypeOK
<1>n. NewestStatus \in Nat /\ NewestStatus' \in Nat
  BY FrameTypes DEF HubOpen, HubInv, HubTypeOK, NewestStatus, Events, NoEvent
<1>1. CASE Bystander \/ Opens \/ Synthesizes \/ Receives
  <2>1. Recorded' = Recorded /\ ringCount' = ringCount /\ NewestStatus' = NewestStatus
    BY <1>1 DEF Bystander, Opens, Synthesizes, Receives, Recorded, NewestStatus
  <2>2. \A rec \in Range(chan'[S].buf) : NotAfterNewest(rec)
    <3>1. chan'[S].buf = << >> \/ chan'[S].buf = chan[S].buf
            \/ (chan[S].buf # << >> /\ chan'[S].buf = Tail(chan[S].buf))
      BY <1>1 DEF Bystander, Opens, Synthesizes, Receives
    <3>2. Ascends(chan[S].buf)
      BY <1>0, TheStream DEF HubInv, ChannelsInOrder
    <3>3. chan[S].buf # << >> => Range(Tail(chan[S].buf)) \subseteq Range(chan[S].buf)
      BY <1>0, <3>2, AscendsTail
    <3>4. QED
      BY <3>1, <3>3, AscendsNone DEF StatusLatest
  <2>3. \A rec \in Range(handler'.replay) : NotAfterNewest(rec)
    <3>1. \/ handler'.replay = handler.replay \/ handler'.replay = << >>
          \/ handler'.replay = Tail(handler.replay) /\ handler.replay # << >>
          \/ handler'.replay = After(handler.deliveredThrough)
      <4>1. CASE Gone \/ (Dial /\ enrollment = "active")
        BY <4>1, ReturnedTyped DEF Gone, Dial, HandlerType
      <4>2. CASE Broken \/ Taken \/ Idle
        BY <4>2 DEF Broken, Taken, Idle, SameStream
      <4>3. CASE OpenStream \/ ReplaySnapshot \/ WriteStale
        BY <1>0, <4>3 DEF OpenStream, ReplaySnapshot, WriteStale, HandlerType
      <4>4. CASE WriteReplay \/ WriteBarrier \/ Live
        BY <1>0, <4>4 DEF WriteReplay, WriteBarrier, Live, HandlerType
      <4>5. CASE \E t \in EventTypes : Publish(t)
        BY <4>5 DEF Publish
      <4>6. QED
        BY <4>1, <4>2, <4>3, <4>4, <4>5, Steps
    <3>2. CASE handler'.replay = Tail(handler.replay) /\ handler.replay # << >>
      <4>1. Range(Tail(handler.replay)) \subseteq Range(handler.replay)
        <5>1. handler.replay \in Seq(Events)
          BY <1>0 DEF HandlerType
        <5>2. \A i \in DOMAIN Tail(handler.replay) :
                i + 1 \in DOMAIN handler.replay /\ Tail(handler.replay)[i] = handler.replay[i + 1]
          BY <3>2, <5>1
        <5>3. QED
          BY <5>2 DEF Range
      <4>2. QED
        BY <3>2, <4>1 DEF StatusLatest
    <3>3. CASE handler'.replay = After(handler.deliveredThrough)
      <4>1. Range(After(handler.deliveredThrough)) \subseteq {Recorded[i] : i \in 1 .. ringCount}
        <5>1. RingInOrder /\ handler.deliveredThrough \in Nat
          BY <1>0 DEF HubInv, HandlerType
        <5>2. QED
          BY <5>1, Replays
      <4>2. QED
        BY <3>3, <4>1 DEF StatusLatest
    <3>4. QED
      BY <3>1, <3>2, <3>3, AscendsNone DEF StatusLatest
  <2>4. QED
    BY <1>n, <2>1, <2>2, <2>3 DEF StatusLatest, NotAfterNewest
<1>2. ASSUME NEW t \in EventTypes, Publish(t)
      PROVE  StatusLatest' /\ NewestStatus' >= NewestStatus
  <2> DEFINE rec == [id |-> nextEventID + 1, type |-> t]
  <2>1. /\ handler' = handler
        /\ \A x \in CachedTypes : cached'[x] = IF x = t THEN rec ELSE cached[x]
        /\ chan'[S].buf = chan[S].buf \/ chan'[S].buf = Append(chan[S].buf, rec)
        /\ RingStore(rec) /\ nextEventID' = nextEventID + 1 /\ rec \in Events
        /\ RingInOrder /\ nextEventID \in Nat
    <3>1. /\ chan'[S].buf = chan[S].buf \/ chan'[S].buf = Append(chan[S].buf, rec)
          /\ \A x \in CachedTypes : cached'[x] = IF x = t THEN rec ELSE cached[x]
          /\ nextEventID' = nextEventID + 1
      BY <1>2, Published
    <3>2. handler' = handler /\ RingStore(rec)
      BY <1>2 DEF Publish, Broadcast
    <3>3. RingInOrder /\ nextEventID \in Nat
      BY <1>0 DEF HubInv, RingInOrder
    <3>4. rec \in Events
      BY <3>3 DEF Events
    <3>5. QED
      BY <3>1, <3>2, <3>3, <3>4
  <2>2. /\ NewestStatus <= nextEventID
        /\ NewestStatus' = IF t = StatusType THEN nextEventID + 1 ELSE NewestStatus
    <3>1. cached[StatusType] = NoEvent \/ Genuine(cached[StatusType])
      BY <1>0, FrameTypes, CachedTyped
    <3>2. NewestStatus <= nextEventID
      BY <2>1, <3>1 DEF NewestStatus, NoEvent, Genuine
    <3>3. cached'[StatusType] = IF StatusType = t THEN rec ELSE cached[StatusType]
      BY <2>1, FrameTypes
    <3>4. QED
      BY <3>2, <3>3 DEF NewestStatus
  <2>3. NewestStatus' >= NewestStatus
    BY <1>n, <2>1, <2>2
  <2> DEFINE Kept(r) == r.type = StatusType => r.id <= NewestStatus'
  <2>4. ASSUME NEW r, r.id \in Nat, NotAfterNewest(r) PROVE Kept(r)
    BY <1>n, <2>3, <2>4 DEF NotAfterNewest
  <2>5. Kept(rec)
    BY <2>1, <2>2
  <2> HIDE DEF Kept
  <2>6. \A i \in 1 .. ringCount' : Kept(Recorded'[i])
    <3>1. rec.id = nextEventID + 1 /\ nextEventID' = rec.id
      BY <2>1
    <3>2. \A i \in 1 .. ringCount' :
             Recorded'[i] = rec \/ \E j \in 1 .. ringCount : Recorded'[i] = Recorded[j]
      BY <2>1, <3>1, Newest
    <3>3. \A j \in 1 .. ringCount : Recorded[j].id \in Nat
      BY <2>1 DEF RingInOrder, Events
    <3>4. QED
      BY <2>4, <2>5, <3>2, <3>3 DEF StatusLatest
  <2>7. \A r \in Range(chan'[S].buf) : Kept(r)
    <3>1. Range(chan'[S].buf) \subseteq Range(chan[S].buf) \union {rec}
      <4>1. \A i \in DOMAIN Append(chan[S].buf, rec) :
               Append(chan[S].buf, rec)[i] = rec
                 \/ (i \in DOMAIN chan[S].buf /\ Append(chan[S].buf, rec)[i] = chan[S].buf[i])
        BY <1>0
      <4>2. QED
        BY <2>1, <4>1 DEF Range
    <3>2. \A r \in Range(chan[S].buf) : r.id \in Nat
      BY <1>0, IdsTyped
    <3>3. QED
      BY <2>4, <2>5, <3>1, <3>2 DEF StatusLatest
  <2>8. \A r \in Range(handler'.replay) : Kept(r)
    <3>1. handler.replay \in Seq(Events)
      BY <1>0 DEF HandlerType
    <3>2. \A r \in Range(handler.replay) : r.id \in Nat
      BY <3>1, IdsTyped
    <3>3. QED
      BY <2>1, <2>4, <3>2 DEF StatusLatest
  <2>9. QED
    BY <2>3, <2>6, <2>7, <2>8 DEF StatusLatest, NotAfterNewest, Kept
<1>3. CASE Restart
  <2>1. ringCount' = 0 /\ handler' = Returned
    BY <1>3 DEF Restart, NewLifetime
  <2>2. chan'[S].buf = << >>
    BY <1>3, TheStream DEF Restart, NewLifetime
  <2>3. Gone
    BY <1>3 DEF Restart, Gone
  <2>4. QED
    BY <1>n, <2>1, <2>2, <2>3, ReturnedTyped, AscendsNone DEF StatusLatest
<1>4. QED
  BY <1>n, <1>1, <1>2, <1>3, HubSteps DEF NewestStatus, Bystander, Opens, Synthesizes, Receives

\* Reading a frame moves the cursor to its id, unless it is the barrier.
LEMMA ReadMoves ==
    ASSUME FedTypes, Connection, WireInOrder, Taken
    PROVE  /\ wire # << >> /\ wire \in Seq(Frames) /\ client.pc = "read"
           /\ \/ wire[1].type = "barrier" /\ client'.cursor = client.cursor
              \/ wire[1].type # "barrier" /\ client'.cursor = wire[1].id
           /\ Passed' => Passed \/ wire[1].type = "barrier"
           /\ \/ client'.pc = "refresh" /\ client'.connected # "yes"
              \/ client'.pc = "read" /\ client'.connected = client.connected
<1>0. /\ wire # << >> /\ wire \in Seq(Frames) /\ client.pc = "read" /\ client \in ClientType
      /\ Head(wire) = wire[1] /\ 1 \in DOMAIN wire /\ wire[1].id \in Nat
      /\ client.cursor \in Nat
  BY FrameTaken, FramesTyped DEF Taken, ReadFrame, FedTypes, ClientType
<1> DEFINE f == wire[1]
           past == [client EXCEPT !.cursor = f.id]
<1>1. /\ past \in ClientType /\ past.cursor = f.id /\ past.ready = client.ready /\ past.pc = "read"
      /\ past.connected = client.connected /\ CursorFromStale(client, f.id) = past
  BY <1>0 DEF ClientType, CursorFromStale
<1>2. ASSUME NEW c \in ClientType
      PROVE  /\ BeginResync(c).pc = "refresh" /\ BeginResync(c).connected # "yes"
             /\ BeginResync(c).cursor = c.cursor /\ BeginResync(c).ready = c.ready
  BY DEF BeginResync, ClientType
<1>3. f.type \notin {"barrier", "stale"} => StaleFirst \/ f.id > client.cursor
  BY <1>0 DEF WireInOrder, IsEvent
<1>4. ~StaleFirst \/ f.type = "stale"
  BY DEF StaleFirst
<1>6. \/ f.type = "barrier" /\ (client' = client \/ client' = BeginResync(client))
      \/ f.type = "stale" /\ (client' = past \/ (client.ready /\ client' = BeginResync(past)))
      \/ /\ f.type \in ForeignTypes \union ProviderTypes
         /\ client' = past \/ (client.ready /\ client' = BeginResync(past))
  <2>1. ~(f.type \notin {"barrier", "stale"} /\ f.id <= client.cursor)
    BY <1>0, <1>3, <1>4
  <2>2. \/ f.type = "barrier" /\ (client' = client \/ client' = BeginResync(client))
        \/ f.type = "stale" /\ client' = IF client.ready THEN BeginResync(CursorFromStale(client, f.id))
                                         ELSE CursorFromStale(client, f.id)
        \/ f.type \notin {"barrier", "stale"} /\ f.id <= client.cursor
        \/ f.type \in ForeignTypes /\ client' = IF client.ready THEN BeginResync(past) ELSE past
        \/ f.type \in ProviderTypes /\ client' = past
        \/ Fail
    BY <1>0 DEF Taken, ReadFrame
  <2>3. ~Fail
    BY DEF Taken
  <2>4. QED
    BY <2>1, <2>2, <2>3, <1>1
<1>7. QED
  BY <1>0, <1>1, <1>2, <1>6, FrameTypes DEF Passed

LEMMA WireStep ==
    ASSUME FedTypes, FedTypes', HubOpen, HubOpen', Connection, HandlerPhases, HandlerPosition,
           StatusLatest, WireInOrder, WireCurrent, [Next]_vars
    PROVE  WireInOrder' /\ WireCurrent'
<1>0. /\ handler \in HandlerType /\ handler' \in HandlerType /\ client \in ClientType
      /\ client' \in ClientType /\ wire \in Seq(Frames)
      /\ handler.deliveredThrough \in Nat /\ handler'.deliveredThrough \in Nat
      /\ client.cursor \in Nat
  BY DEF FedTypes, HandlerType, ClientType
<1>n. /\ NewestStatus \in Nat /\ NewestStatus' \in Nat
      /\ Gone \/ NewestStatus' >= NewestStatus
  BY StatusLatestStep
<1>e. WireInOrder /\ WireCurrent /\ StatusLatest /\ HandlerPhases /\ HandlerPosition
  OBVIOUS
<1> DEFINE dt == handler.deliveredThrough
           dtn == handler'.deliveredThrough
<1>0s. 0 \in Nat /\ "barrier" \in ProviderTypes \union ForeignTypes \union {"stale", "barrier"}
  OBVIOUS
\* The connection is as it was, and the handler no further back.
<1>1. ASSUME UNCHANGED << wire, eof, client, life >>, eof \/ dtn >= dt, NewestStatus' >= NewestStatus
      PROVE  WireInOrder' /\ WireCurrent'
  BY <1>0, <1>n, <1>0s, <1>1, Enqueued
\* An event is written, or is none of the spoke's business.
<1>2. ASSUME NEW rec \in Events, UNCHANGED << eof, client, life >>, NewestStatus' >= NewestStatus,
             NotAfterNewest(rec), rec.id > dt, dtn = rec.id,
             wire' = wire \/ (Write(rec.id, rec.type) /\ Crosses(rec.type))
      PROVE  WireInOrder' /\ WireCurrent'
  <2>1. rec.id \in Nat /\ dtn >= dt
    BY <1>0, <1>2 DEF Events
  <2>2. CASE wire' = wire
    BY <1>1, <1>2, <2>1, <2>2
  <2>3. CASE Write(rec.id, rec.type) /\ Crosses(rec.type)
    <3>1. rec.type \in ProviderTypes \union ForeignTypes \union {"stale", "barrier"}
            /\ rec.type \notin {"stale", "barrier"}
      BY <2>3, FrameTypes DEF Crosses
    <3>2. CASE eof
      BY <1>1, <1>2, <2>1, <2>3, <3>2 DEF Write
    <3>3. CASE ~eof
      <4>1. wire' = Append(wire, [life |-> life, id |-> rec.id, type |-> rec.type])
        BY <2>3, <3>3 DEF Write
      <4>2. rec.type = StatusType => rec.id <= NewestStatus
        BY <1>2 DEF NotAfterNewest
      <4>3. QED
        BY <1>0, <1>n, <1>2, <2>1, <3>1, <3>3, <4>1, <4>2, Enqueued
    <3>4. QED
      BY <3>2, <3>3
  <2>4. QED
    BY <1>2, <2>2, <2>3
\* An empty connection.
<1>3. ASSUME wire' = << >>, eof' \/ client'.cursor <= dtn
      PROVE  WireInOrder' /\ WireCurrent'
  <2>1. DOMAIN wire' = {} /\ ~StaleFirst'
    BY <1>3, NoFrames DEF StaleFirst
  <2>2. QED
    BY <1>3, <2>1 DEF WireInOrder, WireCurrent
<1>4. CASE Gone
  BY <1>4 DEF Gone, WireInOrder, WireCurrent, StaleFirst, Passed
<1>5. CASE Broken
  BY <1>3, <1>5 DEF Broken
<1>6. CASE Taken
  <2>1. /\ wire # << >> /\ wire' = Tail(wire) /\ UNCHANGED << hubVars, life, handler, eof >>
        /\ \/ wire[1].type = "barrier" /\ client'.cursor = client.cursor
           \/ wire[1].type # "barrier" /\ client'.cursor = wire[1].id
        /\ Passed' => Passed \/ wire[1].type = "barrier"
    BY <1>6, ReadMoves DEF Taken
  <2>2. /\ 1 \in DOMAIN wire
        /\ \A i \in DOMAIN wire' : i \in Nat /\ i + 1 \in DOMAIN wire /\ wire'[i] = wire[i + 1] /\ 1 < i + 1
    BY <1>0, <2>1, FrameTaken
  <2>3. \A i \in DOMAIN wire' : wire'[i].type # "stale"
    BY <2>2 DEF WireInOrder
  <2>4. \A i \in DOMAIN wire' : IsEvent(wire'[i]) => wire'[i].id > client'.cursor
    <3> SUFFICES ASSUME NEW i \in DOMAIN wire', IsEvent(wire'[i])
                 PROVE  wire'[i].id > client'.cursor
      OBVIOUS
    <3>1. i + 1 \in DOMAIN wire /\ wire'[i] = wire[i + 1] /\ 1 < i + 1 /\ wire[i + 1].id \in Nat
            /\ wire[1].id \in Nat /\ IsEvent(wire[i + 1])
      BY <1>0, <2>2, FramesTyped
    <3>2. CASE wire[1].type = "barrier"
      <4>1. ~StaleFirst
        BY <3>2 DEF StaleFirst
      <4>2. QED
        BY <2>1, <3>1, <3>2, <4>1 DEF WireInOrder
    <3>3. CASE wire[1].type # "barrier"
      <4>1. wire[1].id < wire[i + 1].id
        BY <2>2, <3>1, <3>3 DEF WireInOrder
      <4>2. QED
        BY <2>1, <3>1, <3>3, <4>1
    <3>4. QED
      BY <3>2, <3>3
  <2>5. WireInOrder'
    <3>1. \A i, j \in DOMAIN wire' : i < j => i + 1 < j + 1
      BY <2>2
    <3>2. \A i, j \in DOMAIN wire' : i < j =>
             (IsEvent(wire'[j]) /\ wire'[i].type # "barrier" => wire'[i].id < wire'[j].id)
      BY <2>2, <3>1 DEF WireInOrder
    <3>3. QED
      BY <2>3, <2>4, <3>2 DEF WireInOrder
  <2>6. NewestStatus' = NewestStatus
    BY <2>1 DEF NewestStatus, hubVars
  <2>7. ASSUME ~eof PROVE client'.cursor <= dt
    <3>1. CASE wire[1].type = "barrier"
      BY <2>1, <2>7, <3>1 DEF WireCurrent, StaleFirst
    <3>2. CASE wire[1].type # "barrier"
      BY <2>1, <2>2, <2>7, <3>2 DEF WireCurrent
    <3>3. QED
      BY <3>1, <3>2
  <2>8. WireCurrent'
    BY <2>1, <2>2, <2>6, <2>7 DEF WireCurrent, NotAfterNewest
  <2>9. QED
    BY <2>5, <2>8
<1>7. CASE Idle
  <2>1. /\ UNCHANGED << wire, eof, life >> /\ dtn = dt /\ NewestStatus' = NewestStatus
    BY <1>7 DEF Idle, SameStream, Bystander, NewestStatus
  <2>2. CASE Start
    <3>1. wire' = << >> /\ eof'
      BY <2>1, <2>2 DEF Start, Connection
    <3>2. QED
      BY <1>3, <3>1
  <2>3. CASE client'.cursor = client.cursor /\ (Passed' => Passed)
    BY <2>1, <2>3 DEF WireInOrder, WireCurrent, StaleFirst, NotAfterNewest
  <2>4. CASE SameClient
    BY <2>3, <2>4 DEF SameClient, Passed
  <2>5. CASE (Refresh /\ enabled) \/ (FetchStatus /\ enrollment = "active") \/ Announce
    <3>1. client'.cursor = client.cursor /\ client.pc \in {"refresh", "fetch", "announce"}
      BY <1>0, <2>5 DEF Refresh, FetchStatus, Announce, SetConnection, ClientType
    <3>2. QED
      BY <2>3, <3>1 DEF Passed
  <2>6. QED
    BY <1>7, <2>2, <2>4, <2>5 DEF Idle
<1>8. CASE Dial /\ enrollment = "active"
  <2>1. /\ handler' = [Returned EXCEPT !.pc = "arrived", !.hasCursor = client.cursor > 0,
                                       !.deliveredThrough = client.cursor]
        /\ wire' = << >> /\ client' = [client EXCEPT !.pc = "read", !.ready = FALSE]
    BY <1>8 DEF Dial
  <2>2. dtn = client.cursor /\ client'.cursor = client.cursor
    BY <1>0, <2>1, ReturnedTyped DEF HandlerType, ClientType
  <2>3. QED
    BY <1>0, <1>3, <2>1, <2>2
<1>9. CASE OpenStream \/ ReplaySnapshot \/ WriteBarrier
  <2>1. UNCHANGED << eof, client, life >> /\ dtn = dt
    BY <1>0, <1>9 DEF OpenStream, ReplaySnapshot, WriteBarrier, HandlerType
  <2>2. ~Gone => NewestStatus' >= NewestStatus
    BY <1>n
  <2>3. ~Gone
    <3>1. handler'.pc # "returned"
      BY <1>0, <1>9 DEF OpenStream, ReplaySnapshot, WriteBarrier, HandlerType
    <3>2. QED
      BY <3>1, ReturnedTyped DEF Gone
  <2>4. CASE wire' = wire
    BY <1>0, <1>1, <2>1, <2>2, <2>3, <2>4
  <2>5. CASE WriteBarrier
    <3>1. Write(0, "barrier")
      BY <2>5 DEF WriteBarrier
    <3>2. wire' = wire \/ (~eof /\ wire' = Append(wire, [life |-> life, id |-> 0, type |-> "barrier"]))
      BY <3>1 DEF Write
    <3>3. dtn >= dt /\ dtn >= 0
      BY <1>0, <2>1
    <3>4. CASE ~eof /\ wire' = Append(wire, [life |-> life, id |-> 0, type |-> "barrier"])
      BY <1>0, <1>n, <1>0s, <2>1, <2>2, <2>3, <3>3, <3>4, FrameTypes, Enqueued
    <3>5. QED
      BY <2>4, <3>2, <3>4
  <2>6. QED
    BY <1>9, <2>4, <2>5 DEF OpenStream, ReplaySnapshot
<1>10. CASE WriteStale
  <2>1. /\ Write(handler.staleID, "stale") /\ handler.staleID # 0 /\ handler.staleID \in Nat
        /\ handler.pc = "replay" /\ dtn = handler.staleID
        /\ UNCHANGED << eof, client, life, cached >>
    BY <1>0, <1>10 DEF WriteStale, HandlerType, hubVars
  <2>2. wire = << >> /\ NewestStatus' = NewestStatus
    BY <2>1 DEF HandlerPhases, NewestStatus
  <2>3. ~Passed
    BY <2>1 DEF Connection
  <2>4. CASE eof
    BY <1>0, <1>n, <1>1, <2>1, <2>2, <2>4 DEF Write
  <2>5. CASE ~eof
    <3>1. wire' = Append(wire, [life |-> life, id |-> handler.staleID, type |-> "stale"])
      BY <2>1, <2>5 DEF Write
    <3>2. "stale" \in ProviderTypes \union ForeignTypes \union {"stale", "barrier"}
            /\ "stale" # "barrier" /\ "stale" # StatusType
      BY FrameTypes
    <3>3. QED
      BY <1>0, <1>n, <2>1, <2>2, <2>3, <2>5, <3>1, <3>2, Enqueued
  <2>6. QED
    BY <2>4, <2>5
<1>11. CASE WriteReplay
  <2> DEFINE rec == Head(handler.replay)
  <2>1. /\ handler.replay # << >> /\ handler.replay \in Seq(Events)
        /\ wire' = wire \/ (Write(rec.id, rec.type) /\ Crosses(rec.type))
        /\ dtn = rec.id /\ UNCHANGED << eof, client, life, cached >>
    BY <1>0, <1>11 DEF WriteReplay, HandlerType, hubVars
  <2>2. rec \in Events /\ rec \in Range(handler.replay)
    BY <2>1, AscendsTail DEF HandlerPosition
  <2>3. rec.id > dt /\ NotAfterNewest(rec)
    BY <2>2 DEF HandlerPosition, StatusLatest
  <2>4. NewestStatus' >= NewestStatus
    BY <1>n, <2>1 DEF NewestStatus
  <2>5. QED
    BY <1>2, <2>1, <2>2, <2>3, <2>4
<1>12. CASE Live
  <2> DEFINE rec == Head(chan[S].buf)
  <2>1. /\ chan[S].buf # << >> /\ chan[S].buf \in Seq(Events) /\ Ascends(chan[S].buf)
        /\ UNCHANGED << eof, client, life, cached >> /\ handler.pc = "live"
    BY <1>12, TheStream DEF Live, HubOpen, HubInv, HubTypeOK, ChannelsInOrder
  <2>2. rec \in Events /\ rec \in Range(chan[S].buf) /\ rec.id \in IdsOf(chan[S].buf)
    BY <2>1, AscendsTail
  <2>3. NewestStatus' >= NewestStatus /\ NotAfterNewest(rec)
    BY <1>n, <2>1, <2>2 DEF NewestStatus, StatusLatest
  <2>4. CASE Skip(rec)
    BY <1>0, <1>1, <1>12, <2>1, <2>3, <2>4 DEF Live
  <2>5. CASE ~Skip(rec)
    <3>1. dtn = rec.id /\ (wire' = wire \/ (Write(rec.id, rec.type) /\ Crosses(rec.type)))
      BY <1>0, <1>12, <2>5 DEF Live, HandlerType
    <3>2. rec.id > dt
      <4>1. CASE handler.hasCursor
        BY <1>0, <2>2, <2>5, <4>1 DEF Skip, Events
      <4>2. CASE ~handler.hasCursor
        BY <2>1, <2>2, <4>2 DEF HandlerPosition, Streaming
      <4>3. QED
        BY <1>0, <4>1, <4>2
    <3>3. QED
      BY <1>2, <2>1, <2>2, <2>3, <3>1, <3>2
  <2>6. QED
    BY <2>4, <2>5
<1>13. ASSUME NEW t \in EventTypes, Publish(t) PROVE WireInOrder' /\ WireCurrent'
  <2>1. UNCHANGED << wire, eof, client, life, handler >>
    BY <1>13 DEF Publish
  <2>2. NewestStatus' >= NewestStatus
    <3>1. cached'[StatusType].id = nextEventID + 1 \/ cached' [StatusType] = cached[StatusType]
      <4>1. StatusType \in CachedTypes
        BY FrameTypes
      <4>2. cached'[StatusType] = IF StatusType = t THEN [id |-> nextEventID + 1, type |-> t]
                                  ELSE cached[StatusType]
        BY <1>13, <4>1, Published
      <4>3. QED
        BY <4>2
    <3>2. NewestStatus <= nextEventID /\ nextEventID \in Nat
      <4>1. HubInv
        BY DEF HubOpen
      <4>2. cached[StatusType] = NoEvent \/ Genuine(cached[StatusType])
        BY <4>1, FrameTypes, CachedTyped
      <4>3. nextEventID \in Nat
        BY <4>1 DEF HubInv, HubTypeOK
      <4>4. QED
        BY <4>2, <4>3 DEF NewestStatus, NoEvent, Genuine
    <3>3. QED
      BY <1>n, <3>1, <3>2 DEF NewestStatus
  <2>3. QED
    BY <1>0, <1>1, <2>1, <2>2
<1>14. QED
  BY <1>4, <1>5, <1>6, <1>7, <1>8, <1>9, <1>10, <1>11, <1>12, <1>13, Steps

-----------------------------------------------------------------------------
(* The events the spoke has yet to hear of. *)

\* The client relies on the stream, from the refresh at the barrier on.
Following == client.pc \in {"fetch", "announce"} \/ client.connected = "yes"

\* The stream of an open connection, with a subscription behind it.
Fed == ~eof /\ S \in subscribers

\* Past what is delivered, or will be, once a pending stale marker is written.
Floor == IF handler.staleID # 0 THEN handler.staleID ELSE handler.deliveredThrough

\* In the channel, and sent when its turn comes.
InChannel(rec) ==
    /\ rec \in Range(chan[S].buf) /\ rec.id > Floor
    /\ \A d \in IdsOf(handler.replay) : d < rec.id

OwedComes ==
    Fed /\ Following => \A e \in owed :
        /\ e.life = life
        /\ \/ \E i \in DOMAIN wire : IsEvent(wire[i]) /\ wire[i].id = e.id
           \/ \E rec \in Range(chan[S].buf) : InChannel(rec) /\ rec.id = e.id /\ Crosses(rec.type)

\* The newest status is on its way.
StatusHeld ==
    \/ \E i \in DOMAIN wire : wire[i].type = StatusType /\ wire[i].id = NewestStatus
    \/ \E rec \in Range(handler.replay) : rec.type = StatusType /\ rec.id = NewestStatus
    \/ \E rec \in Range(chan[S].buf) :
          InChannel(rec) /\ rec.type = StatusType /\ rec.id = NewestStatus

StatusComing ==
    \/ \E i \in DOMAIN wire : wire[i].type = StatusType
    \/ \E rec \in Range(handler.replay) : rec.type = StatusType
    \/ \E rec \in Range(chan[S].buf) : rec.type = StatusType /\ rec.id > Floor

\* Where any status is on its way, the newest is.
StatusFollows == Fed /\ Streaming /\ StatusComing => StatusHeld

StatusComes ==
    Fed =>
        /\ client.pc = "announce" => client.fetched = HubStatus \/ StatusHeld
        /\ client.connected = "yes" => spokeStatus = HubStatus \/ StatusHeld

FedInv ==
    /\ FedTypes /\ HubOpen
    /\ Connection /\ RevokedStreamEnds
    /\ HandlerPhases /\ HandlerPosition /\ StatusLatest
    /\ WireInOrder /\ WireCurrent
    /\ OwedComes /\ StatusFollows /\ StatusComes

LEMMA RangeAppended ==
    ASSUME NEW q \in Seq(Events), NEW rec
    PROVE  Range(q) \union {rec} = Range(Append(q, rec))
<1>1. \A i \in DOMAIN q : i \in DOMAIN Append(q, rec) /\ Append(q, rec)[i] = q[i]
  OBVIOUS
<1>2. Len(q) + 1 \in DOMAIN Append(q, rec) /\ Append(q, rec)[Len(q) + 1] = rec
  OBVIOUS
<1>3. \A i \in DOMAIN Append(q, rec) : i \in DOMAIN q \/ i = Len(q) + 1
  OBVIOUS
<1>4. QED
  BY <1>1, <1>2, <1>3 DEF Range

LEMMA Followed ==
    ASSUME FedTypes, Connection, HandlerPhases, Following
    PROVE  /\ Passed /\ handler.pc \in {"live", "returned"}
           /\ ~eof => handler.pc = "live"
           /\ handler.replay = << >> /\ handler.staleID = 0
           /\ Floor = handler.deliveredThrough /\ IdsOf(handler.replay) = {}
<1>1. Passed /\ handler.pc \in {"live", "returned"} /\ (~eof => handler.pc # "returned")
  BY DEF Following, Connection, Passed
<1>2. handler.replay = << >> /\ handler.staleID = 0
  BY <1>1 DEF HandlerPhases
<1>3. QED
  BY <1>1, <1>2, AscendsNone DEF Floor

LEMMA OwedStep ==
    ASSUME FedTypes, FedTypes', HubOpen, HubOpen', Connection, HandlerPhases, HandlerPosition,
           WireInOrder, WireCurrent, OwedComes, [Next]_vars
    PROVE  OwedComes'
<1>0. /\ handler \in HandlerType /\ client \in ClientType /\ wire \in Seq(Frames)
      /\ wire' \in Seq(Frames) /\ owed \subseteq Stamps
      /\ chan[S].buf \in Seq(Events) /\ Ascends(chan[S].buf) /\ nextEventID \in Nat
  BY TheStream DEF FedTypes, HubOpen, HubInv, HubTypeOK, ChannelsInOrder
<1>e. Connection /\ WireInOrder /\ WireCurrent /\ OwedComes /\ HandlerPhases /\ HandlerPosition
  OBVIOUS
<1> SUFFICES ASSUME Fed', Following' PROVE OwedComes'
  BY DEF OwedComes
<1>1. CASE Gone \/ Broken
  BY <1>1 DEF Gone, Broken, Fed
<1>2. CASE Taken
  <2>1. /\ wire # << >> /\ wire' = Tail(wire) /\ UNCHANGED << hubVars, life, handler, eof >>
        /\ client.pc = "read"
        /\ client'.pc = "read" /\ client.connected = "yes"
    BY <1>2, ReadMoves DEF Taken, Following
  <2>2. Following /\ Fed /\ client.ready
    BY <2>1 DEF Following, Fed, Connection, hubVars
  <2>3. Passed
    BY <2>2 DEF Passed
  <2>4. /\ 1 \in DOMAIN wire /\ Head(wire) = wire[1]
        /\ \A i \in DOMAIN wire : i = 1 \/ (i - 1 \in DOMAIN wire' /\ wire'[i - 1] = wire[i])
    BY <1>0, <2>1, FrameTaken
  <2>5. owed' \subseteq owed /\
          (IsEvent(wire[1]) => owed' = owed \ {[life |-> wire[1].life, id |-> wire[1].id]})
    <3>1. ~StaleFirst
      BY <2>3, <2>4 DEF WireInOrder, StaleFirst
    <3>2. IsEvent(wire[1]) => wire[1].id > client.cursor
      BY <2>4, <3>1 DEF WireInOrder
    <3>3. wire[1].id \in Nat /\ client.cursor \in Nat
      BY <1>0, <2>4, FramesTyped DEF ClientType
    <3>4. IsEvent(wire[1]) => ~(wire[1].id <= client.cursor)
      BY <3>2, <3>3
    <3>5. client' # BeginResync([client EXCEPT !.cursor = wire[1].id])
      <4>1. [client EXCEPT !.cursor = wire[1].id] \in ClientType
        BY <1>0, <3>3 DEF ClientType
      <4>2. BeginResync([client EXCEPT !.cursor = wire[1].id]).pc = "refresh"
        BY <4>1 DEF BeginResync, ClientType
      <4>3. QED
        BY <2>1, <4>2
    <3>6. \/ UNCHANGED observed /\ ~IsEvent(wire[1])
          \/ wire[1].type \in ForeignTypes /\ client' = BeginResync([client EXCEPT !.cursor = wire[1].id])
          \/ Republish(wire[1])
      BY <1>2, <2>2, <2>4, <3>4 DEF Taken, ReadFrame, IsEvent
    <3>7. QED
      BY <3>5, <3>6 DEF Republish, observed
  <2>6. SUFFICES ASSUME NEW e \in owed'
                 PROVE  /\ e.life = life'
                        /\ \/ \E i \in DOMAIN wire' : IsEvent(wire'[i]) /\ wire'[i].id = e.id
                           \/ \E rec \in Range(chan'[S].buf) :
                                 InChannel(rec)' /\ rec.id = e.id /\ Crosses(rec.type)
    BY DEF OwedComes
  <2>7. /\ e \in owed /\ e.life = life
        /\ \/ \E i \in DOMAIN wire : IsEvent(wire[i]) /\ wire[i].id = e.id
           \/ \E rec \in Range(chan[S].buf) : InChannel(rec) /\ rec.id = e.id /\ Crosses(rec.type)
    BY <2>2, <2>5 DEF OwedComes
  <2>8. CASE \E i \in DOMAIN wire : IsEvent(wire[i]) /\ wire[i].id = e.id
    <3>1. PICK i \in DOMAIN wire : IsEvent(wire[i]) /\ wire[i].id = e.id
      BY <2>8
    <3>2. i # 1
      <4>1. SUFFICES ASSUME i = 1 PROVE FALSE
        OBVIOUS
      <4>2. wire[1].life = life
        BY <2>2, <2>4 DEF WireCurrent, Fed
      <4>3. e = [life |-> e.life, id |-> e.id]
        BY <1>0, <2>7 DEF Stamps
      <4>4. e = [life |-> wire[1].life, id |-> wire[1].id]
        BY <2>7, <3>1, <4>1, <4>2, <4>3
      <4>5. QED
        BY <2>5, <3>1, <4>1, <4>4
    <3>3. QED
      BY <2>1, <2>4, <2>7, <3>1, <3>2
  <2>9. CASE \E rec \in Range(chan[S].buf) : InChannel(rec) /\ rec.id = e.id /\ Crosses(rec.type)
    BY <2>1, <2>7, <2>9 DEF InChannel, Floor, hubVars
  <2>10. QED
    BY <2>7, <2>8, <2>9
<1>3. CASE Idle
  <2>1. /\ UNCHANGED << life, wire, eof >> /\ SameStream /\ chan'[S].buf = chan[S].buf /\ Fed
    BY <1>3 DEF Idle, Bystander, Fed
  <2>2. CASE Following /\ owed' = owed
    <3>1. \A rec : InChannel(rec) => InChannel(rec)'
      BY <2>1 DEF InChannel, Floor, SameStream
    <3>2. QED
      BY <2>1, <2>2, <3>1 DEF OwedComes
  <2>3. CASE SameClient
    BY <2>2, <2>3 DEF SameClient, observed, Following
  <2>4. CASE Start
    BY <2>1, <2>4 DEF Start, Connection, Fed
  <2>5. CASE Refresh /\ enabled
    BY <2>5 DEF Refresh, OwedComes
  <2>6. CASE FetchStatus /\ enrollment = "active"
    BY <2>2, <2>6 DEF FetchStatus, observed, Following
  <2>7. CASE Announce
    BY <2>2, <2>7 DEF Announce, Following
  <2>8. QED
    BY <1>3, <2>3, <2>4, <2>5, <2>6, <2>7 DEF Idle
<1>4. CASE Dial /\ enrollment = "active"
  <2>1. client'.pc = "read" /\ client'.connected = client.connected /\ client.pc = "dial"
    BY <1>0, <1>4 DEF Dial, ClientType
  <2>2. QED
    BY <2>1 DEF Connection, Following
<1>5. CASE OpenStream \/ ReplaySnapshot \/ WriteStale \/ WriteReplay \/ WriteBarrier
  <2>1. client' = client /\ handler.pc \notin {"live", "returned"}
    BY <1>5 DEF OpenStream, ReplaySnapshot, WriteStale, WriteReplay, WriteBarrier
  <2>2. QED
    BY <2>1, Followed DEF Following
<1>6. CASE Live
  <2> DEFINE buf == chan[S].buf
             h == Head(buf)
  <2>1. /\ buf # << >> /\ chan'[S].buf = Tail(buf) /\ subscribers' = subscribers
        /\ UNCHANGED << eof, life, client, owed >>
    BY <1>6, Received DEF Live, Receives, observed
  <2>2. Fed /\ Following
    BY <2>1 DEF Fed, Following
  <2>3. /\ handler.replay = << >> /\ handler.staleID = 0 /\ Floor = handler.deliveredThrough
    BY <2>2, Followed
  <2>4. /\ h \in Events /\ Range(buf) = Range(Tail(buf)) \union {h}
        /\ \A e \in IdsOf(Tail(buf)) : e > h.id
        /\ Tail(buf) \in Seq(Events)
    BY <1>0, <2>1, AscendsTail
  <2>5. \A rec \in Range(Tail(buf)) : rec.id > h.id
    BY <2>4, IdsTyped
  <2>6. /\ handler'.replay = << >> /\ handler'.staleID = 0
        /\ handler'.deliveredThrough \in {handler.deliveredThrough, h.id}
    BY <1>0, <1>6, <2>3 DEF Live, HandlerType
  <2>7. \A rec \in Range(Tail(buf)) : InChannel(rec) => InChannel(rec)'
    BY <2>1, <2>3, <2>5, <2>6, AscendsNone DEF InChannel, Floor
  <2>8. InChannel(h) /\ Crosses(h.type) =>
           wire' = Append(wire, [life |-> life, id |-> h.id, type |-> h.type])
    <3>1. SUFFICES ASSUME InChannel(h), Crosses(h.type)
                   PROVE  wire' = Append(wire, [life |-> life, id |-> h.id, type |-> h.type])
      OBVIOUS
    <3>2. ~(h.id <= handler.deliveredThrough)
      BY <1>0, <2>3, <2>4, <3>1 DEF InChannel, Events, HandlerType
    <3>3. Write(h.id, h.type)
      BY <1>6, <3>1, <3>2 DEF Live, Skip
    <3>4. QED
      BY <2>2, <3>3 DEF Write, Fed
  <2>9. wire' = wire \/ wire' = Append(wire, [life |-> life, id |-> h.id, type |-> h.type])
    BY <1>6 DEF Live, Write
  <2>10. \A i \in DOMAIN wire : i \in DOMAIN wire' /\ wire'[i] = wire[i]
    BY <1>0, <2>9
  <2>11. InChannel(h) /\ Crosses(h.type) =>
            \E i \in DOMAIN wire' : IsEvent(wire'[i]) /\ wire'[i].id = h.id
    <3>1. SUFFICES ASSUME InChannel(h), Crosses(h.type)
                   PROVE  \E i \in DOMAIN wire' : IsEvent(wire'[i]) /\ wire'[i].id = h.id
      OBVIOUS
    <3>2. Len(wire) + 1 \in DOMAIN wire'
            /\ wire'[Len(wire) + 1] = [life |-> life, id |-> h.id, type |-> h.type]
      BY <1>0, <2>8, <3>1
    <3>3. h.type \notin {"stale", "barrier"}
      BY <3>1, FrameTypes DEF Crosses
    <3>4. QED
      BY <3>2, <3>3 DEF IsEvent
  <2>12. SUFFICES ASSUME NEW e \in owed
                  PROVE  /\ e.life = life'
                         /\ \/ \E i \in DOMAIN wire' : IsEvent(wire'[i]) /\ wire'[i].id = e.id
                            \/ \E rec \in Range(chan'[S].buf) :
                                  InChannel(rec)' /\ rec.id = e.id /\ Crosses(rec.type)
    BY <2>1 DEF OwedComes
  <2>13. /\ e.life = life
         /\ \/ \E i \in DOMAIN wire : IsEvent(wire[i]) /\ wire[i].id = e.id
            \/ \E rec \in Range(buf) : InChannel(rec) /\ rec.id = e.id /\ Crosses(rec.type)
    BY <2>2 DEF OwedComes
  <2>14. CASE \E i \in DOMAIN wire : IsEvent(wire[i]) /\ wire[i].id = e.id
    BY <2>1, <2>10, <2>13, <2>14
  <2>15. CASE \E rec \in Range(buf) : InChannel(rec) /\ rec.id = e.id /\ Crosses(rec.type)
    BY <2>1, <2>4, <2>7, <2>11, <2>13, <2>15
  <2>16. QED
    BY <2>13, <2>14, <2>15
<1>7. ASSUME NEW t \in EventTypes, Publish(t) PROVE OwedComes'
  <2> DEFINE buf == chan[S].buf
  <2>0. PICK new : new = [id |-> nextEventID + 1, type |-> t]
    OBVIOUS
  <2>1. /\ UNCHANGED << life, handler, wire, eof, client >>
        /\ owed' = IF Crosses(t) /\ t # StatusType
                   THEN owed \union {[life |-> life, id |-> nextEventID + 1]} ELSE owed
        /\ subscribers' \subseteq subscribers
        /\ S \in subscribers' => chan'[S].buf = Append(buf, new)
    BY <1>7, <2>0, Published DEF Publish
  <2>2. Fed /\ Following /\ chan'[S].buf = Append(buf, new)
    BY <2>1 DEF Fed, Following
  <2>3. /\ handler.replay = << >> /\ handler.staleID = 0 /\ Floor = handler.deliveredThrough
        /\ handler.pc = "live"
    BY <2>2, Followed DEF Fed
  <2>4. Range(chan'[S].buf) = Range(buf) \union {new}
    BY <1>0, <2>2, RangeAppended
  <2>5. \A rec : InChannel(rec) => InChannel(rec)'
    BY <2>1, <2>4 DEF InChannel, Floor
  <2>6. InChannel(new)'
    <3>1. handler.deliveredThrough <= nextEventID /\ handler.deliveredThrough \in Nat
      BY <1>0, <2>3 DEF HandlerPosition, Streaming, HandlerType
    <3>2. nextEventID + 1 > handler.deliveredThrough
      BY <1>0, <3>1
    <3>3. new \in Range(chan'[S].buf) /\ new.id > Floor'
      BY <2>0, <2>1, <2>3, <2>4, <3>2 DEF Floor
    <3>4. QED
      BY <2>1, <2>3, <3>3, AscendsNone DEF InChannel
  <2>7. QED
    BY <2>0, <2>1, <2>2, <2>4, <2>5, <2>6 DEF OwedComes
<1>8. QED
  BY <1>1, <1>2, <1>3, <1>4, <1>5, <1>6, <1>7, Steps

-----------------------------------------------------------------------------
(* The status on its way. *)

LEMMA StreamTypes ==
    ASSUME FedTypes, HubOpen
    PROVE  /\ handler \in HandlerType /\ client \in ClientType /\ wire \in Seq(Frames)
           /\ chan[S].buf \in Seq(Events) /\ Ascends(chan[S].buf) /\ nextEventID \in Nat
           /\ \A rec \in Range(chan[S].buf) : rec \in Events /\ rec.id <= nextEventID
           /\ handler.replay \in Seq(Events) /\ \A rec \in Range(handler.replay) : rec \in Events
           /\ handler.deliveredThrough \in Nat /\ handler.staleID \in Nat /\ Floor \in Nat
           /\ NewestStatus \in Nat
<1>1. /\ handler \in HandlerType /\ client \in ClientType /\ wire \in Seq(Frames)
      /\ handler.replay \in Seq(Events)
      /\ handler.deliveredThrough \in Nat /\ handler.staleID \in Nat
  BY DEF FedTypes, HandlerType
<1>2. /\ chan[S].buf \in Seq(Events) /\ Ascends(chan[S].buf) /\ nextEventID \in Nat
      /\ \A rec \in Range(chan[S].buf) : rec \in Events /\ rec.id <= nextEventID
  BY TheStream DEF HubOpen, HubInv, HubTypeOK, ChannelsInOrder, Genuine
<1>3. NewestStatus \in Nat
  BY NewestTyped DEF HubOpen, NewestStatus
<1>4. \A rec \in Range(handler.replay) : rec \in Events
  BY <1>1, IdsTyped
<1>5. QED
  BY <1>1, <1>2, <1>3, <1>4 DEF Floor

\* Nothing moved, nothing changes.
LEMMA StatusIdle ==
    ASSUME Idle
    PROVE  /\ StatusHeld => StatusHeld'
           /\ StatusComing' => StatusComing
           /\ Streaming' => Streaming
           /\ Fed' => Fed
           /\ NewestStatus' = NewestStatus /\ HubStatus' = HubStatus
<1>1. /\ UNCHANGED << life, wire, eof, cached >> /\ SameStream /\ chan'[S].buf = chan[S].buf
      /\ subscribers' \subseteq subscribers
      /\ handler'.pc = handler.pc \/ handler'.pc \in Admitting
  BY DEF Idle, Bystander
<1>2. NewestStatus' = NewestStatus /\ HubStatus' = HubStatus /\ Floor' = Floor
  BY <1>1 DEF NewestStatus, HubStatus, Floor, SameStream
<1>3. \A rec : InChannel(rec) => InChannel(rec)'
  BY <1>1, <1>2 DEF InChannel, SameStream
<1>4. StatusHeld => StatusHeld'
  BY <1>1, <1>2, <1>3 DEF StatusHeld, SameStream
<1>5. StatusComing' => StatusComing
  BY <1>1, <1>2 DEF StatusComing, SameStream
<1>6. QED
  BY <1>1, <1>2, <1>4, <1>5 DEF Streaming, Fed, Admitting

\* The newest status leaves only by being read, and then no other is coming.
LEMMA StatusTaken ==
    ASSUME FedTypes, HubOpen, Connection, HandlerPhases, HandlerPosition, StatusLatest,
           WireInOrder, WireCurrent, Taken, ~eof
    PROVE  /\ 1 \in DOMAIN wire /\ Head(wire) = wire[1] /\ wire[1].life = life
           /\ StatusHeld => \/ StatusHeld'
                            \/ /\ wire[1].type = StatusType /\ wire[1].id = NewestStatus
                               /\ ~StatusComing'
           /\ StatusComing' => StatusComing
           /\ wire[1].type = StatusType => StatusComing
           /\ NewestStatus' = NewestStatus /\ HubStatus' = HubStatus
<1>0. /\ handler \in HandlerType /\ wire \in Seq(Frames)
      /\ \A rec \in Range(chan[S].buf) : rec \in Events
      /\ \A rec \in Range(handler.replay) : rec \in Events
      /\ handler.deliveredThrough \in Nat /\ NewestStatus \in Nat
  BY StreamTypes
<1>1. /\ wire # << >> /\ wire' = Tail(wire) /\ UNCHANGED << hubVars, life, handler, eof >>
  BY ReadMoves DEF Taken
<1>2. /\ 1 \in DOMAIN wire /\ Head(wire) = wire[1]
      /\ \A i \in DOMAIN wire : i = 1 \/ (i - 1 \in DOMAIN wire' /\ wire'[i - 1] = wire[i])
      /\ \A i \in DOMAIN wire' : i + 1 \in DOMAIN wire /\ wire'[i] = wire[i + 1] /\ 1 < i + 1
      /\ \A i \in DOMAIN wire : wire[i].id \in Nat
  BY <1>0, <1>1, FrameTaken, FramesTyped
<1>3. NewestStatus' = NewestStatus /\ HubStatus' = HubStatus /\ Floor' = Floor
        /\ chan' = chan /\ handler' = handler
  BY <1>1 DEF NewestStatus, HubStatus, Floor, hubVars
<1>4. \A rec : InChannel(rec) => InChannel(rec)'
  BY <1>3 DEF InChannel
<1>5. StatusComing' => StatusComing
  BY <1>2, <1>3 DEF StatusComing
<1>6. ASSUME wire[1].type = StatusType, wire[1].id = NewestStatus PROVE ~StatusComing'
  <2>1. ASSUME NEW i \in DOMAIN wire', wire'[i].type = StatusType PROVE FALSE
    <3>1. i + 1 \in DOMAIN wire /\ 1 < i + 1 /\ wire[i + 1].type = StatusType
      BY <1>2, <2>1
    <3>2. wire[1].id < wire[i + 1].id
      BY <1>2, <1>6, <3>1, FrameTypes DEF WireInOrder, IsEvent
    <3>3. wire[i + 1].id <= NewestStatus
      BY <3>1 DEF WireCurrent, NotAfterNewest
    <3>4. QED
      BY <1>0, <1>2, <1>6, <3>1, <3>2, <3>3
  <2>2. handler.staleID = 0 /\ Floor = handler.deliveredThrough
    BY <1>1 DEF HandlerPhases, Floor
  <2>3. wire[1].id <= handler.deliveredThrough
    BY <1>2, <1>6, FrameTypes DEF WireCurrent
  <2>4. ASSUME NEW rec \in Range(handler.replay), rec.type = StatusType PROVE FALSE
    <3>1. rec.id > handler.deliveredThrough /\ rec.id <= NewestStatus /\ rec.id \in Nat
      BY <1>0, <2>4 DEF HandlerPosition, StatusLatest, NotAfterNewest, Events
    <3>2. QED
      BY <1>0, <1>6, <2>3, <3>1
  <2>5. ASSUME NEW rec \in Range(chan[S].buf), rec.type = StatusType, rec.id > Floor PROVE FALSE
    <3>1. rec.id <= NewestStatus /\ rec.id \in Nat
      BY <1>0, <2>5 DEF StatusLatest, NotAfterNewest, Events
    <3>2. QED
      BY <1>0, <1>6, <2>2, <2>3, <2>5, <3>1
  <2>6. QED
    BY <1>3, <2>1, <2>4, <2>5 DEF StatusComing
<1>7. StatusHeld => StatusHeld' \/ (wire[1].type = StatusType /\ wire[1].id = NewestStatus)
  BY <1>2, <1>3, <1>4 DEF StatusHeld
<1>8. wire[1].life = life /\ (wire[1].type = StatusType => StatusComing)
  BY <1>2 DEF WireCurrent, StatusComing
<1>9. QED
  BY <1>2, <1>3, <1>5, <1>6, <1>7, <1>8

\* A status that is broadcast is the newest and lies ahead of everything.
LEMMA StatusPublished ==
    ASSUME FedTypes, HubOpen, HandlerPosition, Streaming,
           NEW t \in EventTypes, Publish(t), S \in subscribers'
    PROVE  /\ t = StatusType => StatusHeld'
           /\ t # StatusType => /\ StatusHeld => StatusHeld'
                                /\ StatusComing' => StatusComing
                                /\ HubStatus' = HubStatus
           /\ S \in subscribers /\ UNCHANGED << handler, wire, eof, client, spokeStatus >>
<1>0. /\ chan[S].buf \in Seq(Events) /\ nextEventID \in Nat
      /\ \A rec \in Range(handler.replay) : rec \in Events
      /\ handler.deliveredThrough \in Nat /\ handler.staleID \in Nat
      /\ handler.replay \in Seq(Events)
  BY StreamTypes
<1>1. PICK new : new = [id |-> nextEventID + 1, type |-> t]
  OBVIOUS
<1>2. /\ UNCHANGED << life, handler, wire, eof, client, spokeStatus >>
      /\ S \in subscribers
      /\ chan'[S].buf = Append(chan[S].buf, new)
      /\ cached'[StatusType] = IF StatusType = t THEN new ELSE cached[StatusType]
  BY <1>1, Published, FrameTypes DEF Publish
<1>3. Range(chan'[S].buf) = Range(chan[S].buf) \union {new}
  BY <1>0, <1>2, RangeAppended
<1>4. \A rec : InChannel(rec) => InChannel(rec)'
  BY <1>2, <1>3 DEF InChannel, Floor
<1>5. InChannel(new)'
  <2>1. Floor <= nextEventID /\ Floor' = Floor /\ Floor \in Nat
    BY <1>0, <1>2 DEF HandlerPosition, Streaming, Floor
  <2>2. \A d \in IdsOf(handler.replay) : d < nextEventID + 1
    <3>1. ASSUME NEW i \in DOMAIN handler.replay PROVE handler.replay[i].id < nextEventID + 1
      <4>1. handler.replay[i] \in Range(handler.replay)
        BY DEF Range
      <4>2. handler.replay[i].id <= nextEventID /\ handler.replay[i].id \in Nat
        BY <1>0, <4>1 DEF HandlerPosition, Events
      <4>3. QED
        BY <1>0, <4>2
    <3>2. QED
      BY <3>1 DEF IdsOf
  <2>3. QED
    BY <1>0, <1>1, <1>2, <1>3, <2>1, <2>2 DEF InChannel
<1>6. ASSUME t = StatusType PROVE StatusHeld'
  <2>1. NewestStatus' = new.id /\ new.type = StatusType
    BY <1>1, <1>2, <1>6 DEF NewestStatus
  <2>2. QED
    BY <1>3, <1>5, <2>1 DEF StatusHeld
<1>7. ASSUME t # StatusType
      PROVE  /\ StatusHeld => StatusHeld'
             /\ StatusComing' => StatusComing
             /\ HubStatus' = HubStatus
  <2>1. NewestStatus' = NewestStatus /\ HubStatus' = HubStatus /\ new.type # StatusType
          /\ Floor' = Floor
    BY <1>1, <1>2, <1>7 DEF NewestStatus, HubStatus, Floor
  <2>2. QED
    BY <1>2, <1>3, <1>4, <2>1 DEF StatusHeld, StatusComing
<1>8. QED
  BY <1>2, <1>6, <1>7

\* An event moves from the channel, or from what is replayed, to the connection.
LEMMA StatusMoves ==
    ASSUME FedTypes, HubOpen, HandlerPhases, HandlerPosition, ~eof, Live \/ WriteReplay
    PROVE  /\ StatusHeld => StatusHeld'
           /\ StatusComing' => StatusComing
           /\ Streaming /\ UNCHANGED << subscribers, eof, client, spokeStatus >>
           /\ HubStatus' = HubStatus
<1>0. /\ handler \in HandlerType /\ wire \in Seq(Frames)
      /\ chan[S].buf \in Seq(Events) /\ Ascends(chan[S].buf)
      /\ \A rec \in Range(chan[S].buf) : rec \in Events
      /\ handler.replay \in Seq(Events) /\ \A rec \in Range(handler.replay) : rec \in Events
      /\ handler.deliveredThrough \in Nat /\ handler.staleID \in Nat
  BY StreamTypes
<1>1. CASE Live
  <2> DEFINE buf == chan[S].buf
  <2>0. PICK h : h = Head(buf)
    OBVIOUS
  <2>1. /\ buf # << >> /\ chan'[S].buf = Tail(buf)
        /\ UNCHANGED << subscribers, eof, life, client, cached, spokeStatus >>
        /\ handler.pc = "live"
    BY <1>1, Received DEF Live, Receives, observed
  <2>2. handler.replay = << >> /\ handler.staleID = 0 /\ Floor = handler.deliveredThrough
    BY <2>1 DEF HandlerPhases, Floor
  <2>3. /\ h \in Events /\ Range(buf) = Range(Tail(buf)) \union {h}
        /\ \A e \in IdsOf(Tail(buf)) : e > h.id
        /\ Tail(buf) \in Seq(Events) /\ h.id \in IdsOf(buf) /\ h.id \in Nat
    <3>1. /\ h \in Events /\ Range(buf) = Range(Tail(buf)) \union {h}
          /\ \A e \in IdsOf(Tail(buf)) : e > h.id
          /\ Tail(buf) \in Seq(Events) /\ IdsOf(buf) = IdsOf(Tail(buf)) \union {h.id}
      BY <1>0, <2>0, <2>1, AscendsTail
    <3>2. h.id \in Nat
      BY <3>1 DEF Events
    <3>3. QED
      BY <3>1, <3>2
  <2>4. \A rec \in Range(Tail(buf)) : rec.id > h.id
    BY <2>3, IdsTyped
  <2>5. NewestStatus' = NewestStatus /\ HubStatus' = HubStatus
    BY <2>1 DEF NewestStatus, HubStatus
  <2>6. CASE Skip(h)
    <3>1. UNCHANGED << wire, handler >> /\ h.id <= handler.deliveredThrough
      BY <1>1, <2>0, <2>6 DEF Live, Skip
    <3>2. Floor' = Floor /\ ~(h.id > Floor)
      BY <1>0, <2>2, <2>3, <3>1 DEF Floor
    <3>3. \A rec : InChannel(rec) => InChannel(rec)'
      BY <2>1, <2>3, <3>1, <3>2 DEF InChannel
    <3>4. StatusHeld => StatusHeld'
      BY <2>5, <3>1, <3>3 DEF StatusHeld, InChannel
    <3>5. StatusComing' => StatusComing
      BY <2>1, <2>3, <3>1, <3>2 DEF StatusComing
    <3>6. QED
      BY <2>1, <2>5, <3>4, <3>5 DEF Streaming
  <2>7. CASE ~Skip(h)
    <3>1. /\ handler' = [handler EXCEPT !.deliveredThrough = h.id]
          /\ wire' = IF Crosses(h.type)
                     THEN Append(wire, [life |-> life, id |-> h.id, type |-> h.type]) ELSE wire
      BY <1>1, <2>0, <2>7 DEF Live, Write
    <3>2. /\ handler'.replay = << >> /\ handler'.staleID = 0 /\ handler'.deliveredThrough = h.id
          /\ Floor' = h.id
      BY <1>0, <2>2, <3>1 DEF HandlerType, Floor
    <3>3. h.id > Floor
      <4>1. CASE handler.hasCursor
        BY <1>0, <2>2, <2>3, <2>7, <4>1 DEF Skip
      <4>2. CASE ~handler.hasCursor
        BY <2>1, <2>2, <2>3, <4>2 DEF HandlerPosition, Streaming
      <4>3. QED
        BY <4>1, <4>2
    <3>4. /\ \A i \in DOMAIN wire : i \in DOMAIN wire' /\ wire'[i] = wire[i]
          /\ \A i \in DOMAIN wire' : i \in DOMAIN wire
                \/ wire'[i] = [life |-> life, id |-> h.id, type |-> h.type]
      BY <1>0, <3>1
    <3>5. h.type = StatusType => \E i \in DOMAIN wire' : wire'[i].type = h.type /\ wire'[i].id = h.id
      <4>1. SUFFICES ASSUME h.type = StatusType
                     PROVE  \E i \in DOMAIN wire' : wire'[i].type = h.type /\ wire'[i].id = h.id
        OBVIOUS
      <4>2. wire' = Append(wire, [life |-> life, id |-> h.id, type |-> h.type])
        BY <3>1, <4>1, FrameTypes DEF Crosses
      <4>3. Len(wire) + 1 \in DOMAIN wire'
              /\ wire'[Len(wire) + 1] = [life |-> life, id |-> h.id, type |-> h.type]
        BY <1>0, <4>2
      <4>4. QED
        BY <4>3
    <3>6. \A rec \in Range(Tail(buf)) : InChannel(rec) => InChannel(rec)'
      BY <2>1, <2>4, <3>2, AscendsNone DEF InChannel
    <3>7. StatusHeld => StatusHeld'
      <4>1. CASE \E i \in DOMAIN wire : wire[i].type = StatusType /\ wire[i].id = NewestStatus
        BY <2>5, <3>4, <4>1 DEF StatusHeld
      <4>2. CASE \E rec \in Range(buf) : InChannel(rec) /\ rec.type = StatusType /\ rec.id = NewestStatus
        BY <2>1, <2>3, <2>5, <3>5, <3>6, <4>2 DEF StatusHeld
      <4>3. QED
        BY <2>2, <4>1, <4>2, AscendsNone DEF StatusHeld
    <3>8. StatusComing' => StatusComing
      <4>1. CASE \E i \in DOMAIN wire' : wire'[i].type = StatusType
        BY <2>3, <3>3, <3>4, <4>1 DEF StatusComing
      <4>2. CASE \E rec \in Range(Tail(buf)) : rec.type = StatusType /\ rec.id > Floor'
        <5>1. \A rec \in Range(Tail(buf)) : rec.id > h.id => rec.id > Floor
          BY <1>0, <2>2, <2>3, <3>3 DEF Events
        <5>2. QED
          BY <2>3, <2>4, <4>2, <5>1 DEF StatusComing
      <4>3. QED
        BY <2>1, <3>2, <4>1, <4>2, AscendsNone DEF StatusComing
    <3>9. QED
      BY <2>1, <2>5, <3>7, <3>8 DEF Streaming
  <2>8. QED
    BY <2>6, <2>7
<1>2. CASE WriteReplay
  <2> DEFINE replay == handler.replay
  <2>0. PICK h : h = Head(replay)
    OBVIOUS
  <2>1. /\ replay # << >> /\ handler.pc = "replay"
        /\ handler' = [handler EXCEPT !.deliveredThrough = h.id, !.replay = Tail(@)]
        /\ wire' = IF Crosses(h.type)
                   THEN Append(wire, [life |-> life, id |-> h.id, type |-> h.type]) ELSE wire
        /\ UNCHANGED << hubVars, eof, life, client, spokeStatus >>
    BY <1>2, <2>0 DEF WriteReplay, Write, observed
  <2>2. handler.staleID = 0 /\ Floor = handler.deliveredThrough
    BY <2>1 DEF HandlerPhases, Floor
  <2>3. /\ h \in Events /\ Range(replay) = Range(Tail(replay)) \union {h}
        /\ h.id \in IdsOf(replay) /\ h.id \in Nat
        /\ IdsOf(replay) = IdsOf(Tail(replay)) \union {h.id}
    <3>1. Ascends(replay) /\ replay \in Seq(Events)
      BY <1>0 DEF HandlerPosition
    <3>2. /\ h \in Events /\ Range(replay) = Range(Tail(replay)) \union {h}
          /\ IdsOf(replay) = IdsOf(Tail(replay)) \union {h.id}
      BY <2>0, <2>1, <3>1, AscendsTail
    <3>3. h.id \in Nat
      BY <3>2 DEF Events
    <3>4. QED
      BY <3>2, <3>3
  <2>4. h.id > handler.deliveredThrough
    BY <2>3 DEF HandlerPosition
  <2>5. /\ handler'.replay = Tail(replay) /\ handler'.staleID = 0
        /\ handler'.deliveredThrough = h.id /\ Floor' = h.id
    BY <1>0, <2>1, <2>2 DEF HandlerType, Floor
  <2>6. NewestStatus' = NewestStatus /\ HubStatus' = HubStatus /\ subscribers' = subscribers
          /\ chan' = chan
    BY <2>1 DEF NewestStatus, HubStatus, hubVars
  <2>7. /\ \A i \in DOMAIN wire : i \in DOMAIN wire' /\ wire'[i] = wire[i]
        /\ \A i \in DOMAIN wire' : i \in DOMAIN wire
              \/ wire'[i] = [life |-> life, id |-> h.id, type |-> h.type]
    BY <1>0, <2>1
  <2>8. h.type = StatusType => \E i \in DOMAIN wire' : wire'[i].type = h.type /\ wire'[i].id = h.id
    <3>1. SUFFICES ASSUME h.type = StatusType
                   PROVE  \E i \in DOMAIN wire' : wire'[i].type = h.type /\ wire'[i].id = h.id
      OBVIOUS
    <3>2. wire' = Append(wire, [life |-> life, id |-> h.id, type |-> h.type])
      BY <2>1, <3>1, FrameTypes DEF Crosses
    <3>3. Len(wire) + 1 \in DOMAIN wire'
            /\ wire'[Len(wire) + 1] = [life |-> life, id |-> h.id, type |-> h.type]
      BY <1>0, <3>2
    <3>4. QED
      BY <3>3
  <2>9. \A rec : InChannel(rec) => InChannel(rec)'
    BY <1>0, <2>3, <2>5, <2>6 DEF InChannel, Events
  <2>10. StatusHeld => StatusHeld'
    <3>1. CASE \E i \in DOMAIN wire : wire[i].type = StatusType /\ wire[i].id = NewestStatus
      BY <2>6, <2>7, <3>1 DEF StatusHeld
    <3>2. CASE \E rec \in Range(replay) : rec.type = StatusType /\ rec.id = NewestStatus
      BY <2>3, <2>5, <2>6, <2>8, <3>2 DEF StatusHeld
    <3>3. CASE \E rec \in Range(chan[S].buf) :
                  InChannel(rec) /\ rec.type = StatusType /\ rec.id = NewestStatus
      BY <2>6, <2>9, <3>3 DEF StatusHeld
    <3>4. QED
      BY <3>1, <3>2, <3>3 DEF StatusHeld
  <2>11. StatusComing' => StatusComing
    <3>1. CASE \E i \in DOMAIN wire' : wire'[i].type = StatusType
      BY <2>3, <2>7, <3>1 DEF StatusComing
    <3>2. CASE \E rec \in Range(Tail(replay)) : rec.type = StatusType
      BY <2>3, <3>2 DEF StatusComing
    <3>3. CASE \E rec \in Range(chan[S].buf) : rec.type = StatusType /\ rec.id > Floor'
      <4>1. \A rec \in Range(chan[S].buf) : rec.id > h.id => rec.id > Floor
        BY <1>0, <2>2, <2>3, <2>4 DEF Events
      <4>2. QED
        BY <2>5, <3>3, <4>1 DEF StatusComing
    <3>4. QED
      BY <2>5, <2>6, <3>1, <3>2, <3>3 DEF StatusComing
  <2>12. QED
    BY <2>1, <2>6, <2>10, <2>11 DEF Streaming
<1>3. QED
  BY <1>1, <1>2

\* A replay that is not stale holds the newest status if it, or the channel,
\* holds any: the newest is no older than the cursor the hub still vouches for.
LEMMA StatusReplayed ==
    ASSUME FedTypes, HubOpen, HandlerPhases, StatusLatest, ReplaySnapshot, StatusComing'
    PROVE  StatusHeld'
<1>0. /\ handler \in HandlerType /\ wire \in Seq(Frames) /\ nextEventID \in Nat
      /\ \A rec \in Range(chan[S].buf) : rec \in Events /\ rec.id <= nextEventID
      /\ handler.deliveredThrough \in Nat /\ NewestStatus \in Nat
  BY StreamTypes
<1>r. RingInOrder /\ RingGenuine /\ HubInv
  BY DEF HubOpen, HubInv
<1> DEFINE cursor == handler.deliveredThrough
<1>1. wire' = << >> /\ DOMAIN wire' = {} /\ wire' = wire
  BY NoFrames DEF ReplaySnapshot, HandlerPhases, Early
<1>2. handler.replay = << >> /\ handler.staleID = 0 /\ handler.pc = "snapshot"
  BY DEF ReplaySnapshot, HandlerPhases
<1>3. CASE TakeSyntheticID /\ handler' = [handler EXCEPT !.pc = "replay", !.staleID = nextEventID + 1]
  <2>1. handler'.replay = << >> /\ handler'.staleID = nextEventID + 1 /\ chan' = chan
    BY <1>0, <1>2, <1>3 DEF HandlerType, TakeSyntheticID
  <2>2. Floor' = nextEventID + 1
    BY <1>0, <2>1 DEF Floor
  <2>3. \A rec \in Range(chan[S].buf) : ~(rec.id > nextEventID + 1)
    BY <1>0 DEF Events
  <2>4. QED
    BY <1>1, <2>1, <2>2, <2>3, AscendsNone DEF StatusComing
<1>4. CASE /\ ~StaleCursor(cursor) /\ UNCHANGED hubVars
           /\ handler' = [handler EXCEPT !.pc = "replay", !.replay = After(cursor)]
  <2>1. /\ handler'.replay = After(cursor) /\ handler'.staleID = 0
        /\ handler'.deliveredThrough = cursor /\ Floor' = cursor
        /\ chan' = chan /\ NewestStatus' = NewestStatus
    BY <1>0, <1>2, <1>4 DEF HandlerType, Floor, hubVars, NewestStatus
  <2>2. /\ After(cursor) \in Seq(Events)
        /\ Range(After(cursor)) \subseteq {Recorded[i] : i \in 1 .. ringCount}
        /\ IdsOf(After(cursor)) = {e \in IdsOf(Recorded) : e > cursor}
    BY <1>0, <1>r, Replays
  <2>3. PICK rec : /\ rec \in Range(After(cursor)) \union Range(chan[S].buf)
                   /\ rec.type = StatusType /\ rec.id > cursor /\ rec.id \in Nat
                   /\ rec.id <= NewestStatus
    <3>1. CASE \E rec \in Range(After(cursor)) : rec.type = StatusType
      <4>1. PICK rec \in Range(After(cursor)) : rec.type = StatusType
        BY <3>1
      <4>2. rec \in Events /\ rec.id \in IdsOf(After(cursor))
        BY <2>2, IdsTyped
      <4>3. rec.id <= NewestStatus
        BY <2>2, <4>1 DEF StatusLatest, NotAfterNewest
      <4>4. rec.id \in Nat
        BY <4>2 DEF Events
      <4>5. rec.id > cursor
        BY <2>2, <4>2
      <4>6. QED
        BY <4>1, <4>3, <4>4, <4>5
    <3>2. CASE \E rec \in Range(chan[S].buf) : rec.type = StatusType /\ rec.id > cursor
      <4>1. PICK rec \in Range(chan[S].buf) : rec.type = StatusType /\ rec.id > cursor
        BY <3>2
      <4>2. rec.id <= NewestStatus
        BY <4>1 DEF StatusLatest, NotAfterNewest
      <4>3. rec.id \in Nat
        BY <1>0 DEF Events
      <4>4. QED
        BY <4>1, <4>2, <4>3
    <3>3. QED
      BY <1>1, <2>1, <3>1, <3>2 DEF StatusComing
  <2>4. NewestStatus > cursor
    BY <1>0, <2>3
  <2>5. /\ Genuine(cached[StatusType]) /\ Vouched(NewestStatus)
        /\ cached[StatusType].id = NewestStatus
    <3>1. cached[StatusType] # NoEvent
      BY <1>0, <2>4 DEF NewestStatus, NoEvent
    <3>2. QED
      BY <1>r, <3>1, FrameTypes, CachedTyped DEF NewestStatus
  <2>6. ringCount > 0 /\ Oldest \in Nat /\ (cursor + 1 >= Oldest)
    <3>1. ringCount > 0
      BY <2>5 DEF Vouched
    <3>2. Oldest \in Nat
      BY <1>r DEF Oldest, HubInv, HubTypeOK, Events, NoEvent
    <3>3. ~(cursor + 1 < Oldest)
      BY <1>4, <3>1 DEF StaleCursor
    <3>4. QED
      BY <1>0, <3>1, <3>2, <3>3
  <2>7. NewestStatus \in IdsOf(Recorded)
    BY <1>0, <2>4, <2>5, <2>6 DEF Vouched
  <2>8. PICK r \in Range(After(cursor)) : r.id = NewestStatus
    <3>1. NewestStatus \in IdsOf(After(cursor))
      BY <2>2, <2>4, <2>7
    <3>2. QED
      BY <3>1 DEF IdsOf, Range
  <2>9. r.type = StatusType
    <3>1. Genuine(r)
      BY <1>r, <2>2 DEF RingGenuine
    <3>2. QED
      BY <2>5, <2>8, <3>1, FrameTypes DEF Genuine
  <2>10. QED
    BY <2>1, <2>8, <2>9 DEF StatusHeld
<1>5. QED
  BY <1>3, <1>4 DEF ReplaySnapshot

LEMMA FollowsStep ==
    ASSUME FedTypes, HubOpen, Connection, HandlerPhases, HandlerPosition, StatusLatest,
           WireInOrder, WireCurrent, StatusFollows, [Next]_vars
    PROVE  StatusFollows'
<1>0. handler \in HandlerType /\ wire \in Seq(Frames) /\ handler.staleID \in Nat
  BY StreamTypes
<1>e. StatusFollows /\ HandlerPhases
  OBVIOUS
<1> SUFFICES ASSUME Fed', Streaming', StatusComing' PROVE StatusHeld'
  BY DEF StatusFollows
<1>1. CASE Gone \/ Broken
  BY <1>1 DEF Gone, Broken, Fed
<1>2. CASE Taken
  <2>1. Fed /\ Streaming /\ ~eof
    BY <1>2 DEF Taken, Fed, Streaming, hubVars
  <2>2. QED
    BY <1>2, <2>1, StatusTaken DEF StatusFollows
<1>3. CASE Idle
  BY <1>3, StatusIdle DEF StatusFollows
<1>4. CASE Dial /\ enrollment = "active"
  <2>1. handler' = [Returned EXCEPT !.pc = "arrived", !.hasCursor = client.cursor > 0,
                                    !.deliveredThrough = client.cursor]
    BY <1>4 DEF Dial
  <2>2. handler'.pc = "arrived"
    BY <2>1, ReturnedTyped DEF HandlerType
  <2>3. QED
    BY <2>2 DEF Streaming
<1>5. CASE OpenStream
  <2>1. chan'[S].buf = << >>
    BY <1>5, Opened DEF Opens
  <2>2. wire' = << >> /\ handler'.replay = << >>
    BY <1>0, <1>5 DEF OpenStream, HandlerPhases, HandlerType, Early, Admitting
  <2>3. QED
    BY <2>1, <2>2, AscendsNone, NoFrames DEF Streaming, StatusComing
<1>6. CASE ReplaySnapshot
  BY <1>6, StatusReplayed
<1>7. CASE WriteStale
  <2>1. /\ handler.staleID # 0 /\ handler.pc = "replay"
        /\ handler' = [handler EXCEPT !.deliveredThrough = handler.staleID, !.staleID = 0]
        /\ wire' = wire \/ wire' = Append(wire, [life |-> life, id |-> handler.staleID, type |-> "stale"])
        /\ UNCHANGED << hubVars, eof >>
    BY <1>7 DEF WriteStale, Write
  <2>2. handler'.replay = handler.replay /\ handler'.staleID = 0
          /\ handler'.deliveredThrough = handler.staleID /\ handler.replay = << >> /\ wire = << >>
    BY <1>0, <2>1 DEF HandlerType, HandlerPhases
  <2>3. Floor' = Floor /\ chan' = chan /\ NewestStatus' = NewestStatus
    BY <2>1, <2>2 DEF Floor, hubVars, NewestStatus
  <2>4. ~\E i \in DOMAIN wire' : wire'[i].type = StatusType
    <3>1. \A i \in DOMAIN wire' : wire'[i] = [life |-> life, id |-> handler.staleID, type |-> "stale"]
      BY <1>0, <2>1, <2>2, NoFrames
    <3>2. QED
      BY <3>1, FrameTypes
  <2>5. StatusComing
    BY <2>2, <2>3, <2>4 DEF StatusComing
  <2>6. StatusHeld
    BY <2>1, <2>5 DEF StatusFollows, Fed, Streaming, hubVars
  <2>7. \A rec : InChannel(rec) => InChannel(rec)'
    BY <2>2, <2>3 DEF InChannel
  <2>8. PICK rec \in Range(chan[S].buf) : InChannel(rec) /\ rec.type = StatusType /\ rec.id = NewestStatus
    BY <2>2, <2>6, AscendsNone, NoFrames DEF StatusHeld
  <2>9. QED
    BY <2>3, <2>7, <2>8 DEF StatusHeld
<1>8. CASE WriteReplay \/ Live
  <2>1. ~eof
    BY <1>8 DEF WriteReplay, Live, Fed
  <2>2. Fed
    BY <1>8, <2>1, StatusMoves DEF Fed
  <2>3. QED
    BY <1>8, <2>1, <2>2, StatusMoves DEF StatusFollows
<1>9. CASE WriteBarrier
  <2>1. /\ handler' = [handler EXCEPT !.pc = "live"] /\ handler.pc = "replay"
        /\ wire' = wire \/ wire' = Append(wire, [life |-> life, id |-> 0, type |-> "barrier"])
        /\ UNCHANGED << hubVars, eof >>
    BY <1>9 DEF WriteBarrier, Write
  <2>2. handler'.replay = handler.replay /\ Floor' = Floor /\ chan' = chan
          /\ NewestStatus' = NewestStatus /\ Fed /\ Streaming
    BY <1>0, <2>1 DEF HandlerType, Floor, hubVars, NewestStatus, Fed, Streaming
  <2>3. \A rec : InChannel(rec) => InChannel(rec)'
    BY <2>2 DEF InChannel
  <2>4. /\ \A i \in DOMAIN wire : i \in DOMAIN wire' /\ wire'[i] = wire[i]
        /\ \A i \in DOMAIN wire' : i \in DOMAIN wire
              \/ wire'[i] = [life |-> life, id |-> 0, type |-> "barrier"]
    BY <1>0, <2>1
  <2>5. StatusComing
    BY <2>2, <2>4, FrameTypes DEF StatusComing
  <2>6. StatusHeld
    BY <2>2, <2>5 DEF StatusFollows
  <2>7. QED
    BY <2>2, <2>3, <2>4, <2>6 DEF StatusHeld
<1>10. ASSUME NEW t \in EventTypes, Publish(t) PROVE StatusHeld'
  <2>1. Streaming /\ S \in subscribers'
    BY <1>10 DEF Publish, Streaming, Fed
  <2>2. Fed
    BY <1>10, <2>1, StatusPublished DEF Fed
  <2>3. QED
    BY <1>10, <2>1, <2>2, StatusPublished DEF StatusFollows
<1>11. QED
  BY <1>1, <1>2, <1>3, <1>4, <1>5, <1>6, <1>7, <1>8, <1>9, <1>10, Steps

LEMMA ComesStep ==
    ASSUME FedTypes, HubOpen, Connection, HandlerPhases, HandlerPosition, StatusLatest,
           WireInOrder, WireCurrent, StatusFollows, StatusComes, [Next]_vars
    PROVE  StatusComes'
<1>0. client \in ClientType
  BY DEF FedTypes
<1>e. StatusComes /\ StatusFollows /\ Connection
  OBVIOUS
<1> SUFFICES ASSUME Fed' PROVE StatusComes'
  BY DEF StatusComes
<1>1. CASE Gone \/ Broken
  BY <1>1 DEF Gone, Broken, Fed
<1>2. CASE Taken
  <2>1. /\ Fed /\ ~eof /\ client.pc = "read" /\ wire[1].life = life /\ Head(wire) = wire[1]
        /\ HubStatus' = HubStatus /\ NewestStatus' = NewestStatus /\ life' = life
        /\ client'.pc # "announce"
        /\ client'.connected = "yes" => client.connected = "yes"
    BY <1>2, StatusTaken, ReadMoves DEF Taken, Fed, hubVars
  <2>2. SUFFICES ASSUME client'.connected = "yes" PROVE spokeStatus' = HubStatus' \/ StatusHeld'
    BY <2>1 DEF StatusComes
  <2>3. Following /\ handler.pc = "live"
    BY <2>1, <2>2, Followed DEF Following
  <2>4. spokeStatus = HubStatus \/ StatusHeld
    BY <2>1, <2>2 DEF StatusComes
  <2>5. \/ spokeStatus' = spokeStatus /\ ~(wire[1].type = StatusType)
        \/ wire[1].type = StatusType /\ spokeStatus' = [life |-> wire[1].life, id |-> wire[1].id]
    <3>1. Passed /\ 1 \in DOMAIN wire
      BY <1>2, <2>1, <2>3, StatusTaken, Followed
    <3>2. ~StaleFirst
      BY <3>1 DEF WireInOrder, StaleFirst
    <3>3. IsEvent(wire[1]) => ~(wire[1].id <= client.cursor)
      <4>1. wire[1].id \in Nat /\ client.cursor \in Nat
        BY <1>0, <3>1, FramesTyped DEF FedTypes, ClientType
      <4>2. IsEvent(wire[1]) => wire[1].id > client.cursor
        BY <3>1, <3>2 DEF WireInOrder
      <4>3. QED
        BY <4>1, <4>2
    <3>4. QED
      BY <1>2, <2>1, <3>3, FrameTypes DEF Taken, ReadFrame, Republish, observed, IsEvent
  <2>6. CASE wire[1].type # StatusType
    <3>1. spokeStatus' = spokeStatus
      BY <2>5, <2>6
    <3>2. StatusHeld => StatusHeld'
      BY <1>2, <2>1, <2>6, StatusTaken
    <3>3. QED
      BY <2>1, <2>4, <3>1, <3>2
  <2>7. CASE wire[1].type = StatusType
    <3>1. StatusHeld
      <4>1. StatusComing
        BY <1>2, <2>1, <2>7, StatusTaken
      <4>2. QED
        BY <2>1, <2>3, <4>1 DEF StatusFollows, Streaming
    <3>2. StatusHeld' \/ wire[1].id = NewestStatus
      BY <1>2, <2>1, <3>1, StatusTaken
    <3>3. wire[1].id = NewestStatus => spokeStatus' = HubStatus
      BY <2>1, <2>5, <2>7 DEF HubStatus, NewestStatus
    <3>4. QED
      BY <2>1, <3>2, <3>3
  <2>8. QED
    BY <2>6, <2>7
<1>3. CASE Idle
  <2>1. /\ StatusHeld => StatusHeld'
        /\ HubStatus' = HubStatus /\ Fed
    BY <1>3, StatusIdle
  <2>2. CASE SameClient
    BY <2>1, <2>2 DEF SameClient, observed, StatusComes
  <2>3. CASE Start
    BY <2>1, <2>3 DEF Start, Connection, Fed
  <2>4. CASE Refresh /\ enabled
    <3>1. client'.pc = "fetch" /\ client'.connected = client.connected /\ client.pc = "refresh"
      BY <1>0, <2>4 DEF Refresh, ClientType
    <3>2. QED
      BY <3>1 DEF StatusComes, Connection
  <2>5. CASE FetchStatus /\ enrollment = "active"
    <3>1. /\ client'.pc = "announce" /\ client'.connected = client.connected /\ client.pc = "fetch"
          /\ client'.fetched = HubStatus
      BY <1>0, <2>5 DEF FetchStatus, ClientType
    <3>2. QED
      BY <2>1, <3>1 DEF StatusComes, Connection
  <2>6. CASE Announce
    <3>1. client'.pc = "read" /\ client.pc = "announce" /\ spokeStatus' = client.fetched
      BY <1>0, <2>6 DEF Announce, SetConnection, ClientType
    <3>2. QED
      BY <2>1, <3>1 DEF StatusComes
  <2>7. QED
    BY <1>3, <2>2, <2>3, <2>4, <2>5, <2>6 DEF Idle
<1>4. CASE Dial /\ enrollment = "active"
  <2>1. client'.pc = "read" /\ client'.connected = client.connected /\ client.pc = "dial"
    BY <1>0, <1>4 DEF Dial, ClientType
  <2>2. QED
    BY <2>1 DEF Connection, StatusComes
<1>5. CASE OpenStream \/ ReplaySnapshot \/ WriteStale \/ WriteReplay \/ WriteBarrier
  <2>1. client' = client /\ handler.pc \notin {"live", "returned"}
    BY <1>5 DEF OpenStream, ReplaySnapshot, WriteStale, WriteReplay, WriteBarrier
  <2>2. client.pc # "announce" /\ client.connected # "yes"
    BY <2>1 DEF Connection, Passed
  <2>3. QED
    BY <2>1, <2>2 DEF StatusComes
<1>6. CASE Live
  <2>1. ~eof
    BY <1>6 DEF Live, Fed
  <2>2. /\ StatusHeld => StatusHeld'
        /\ UNCHANGED << client, spokeStatus >> /\ HubStatus' = HubStatus
        /\ Fed
    BY <1>6, <2>1, StatusMoves DEF Fed
  <2>3. QED
    BY <2>2 DEF StatusComes
<1>7. ASSUME NEW t \in EventTypes, Publish(t) PROVE StatusComes'
  <2>1. /\ UNCHANGED << handler, eof, client, spokeStatus >>
        /\ S \in subscribers'
    BY <1>7 DEF Publish, Fed
  <2>2. SUFFICES ASSUME client.pc = "announce" \/ client.connected = "yes" PROVE StatusComes'
    BY <2>1 DEF StatusComes
  <2>3. Following /\ ~eof
    BY <2>1, <2>2 DEF Following, Fed
  <2>4. Streaming
    BY <2>3, Followed DEF Streaming
  <2>5. Fed
    BY <1>7, <2>1, <2>3, <2>4, StatusPublished DEF Fed
  <2>6. CASE t = StatusType
    BY <1>7, <2>1, <2>4, <2>6, StatusPublished DEF StatusComes
  <2>7. CASE t # StatusType
    <3>1. (StatusHeld => StatusHeld') /\ HubStatus' = HubStatus
      BY <1>7, <2>1, <2>4, <2>7, StatusPublished
    <3>2. QED
      BY <2>1, <2>5, <3>1 DEF StatusComes
  <2>8. QED
    BY <2>6, <2>7
<1>8. QED
  BY <1>1, <1>2, <1>3, <1>4, <1>5, <1>6, <1>7, Steps

-----------------------------------------------------------------------------
(* Theorems. *)

LEMMA FedStarts == Init => FedInv
<1> SUFFICES ASSUME Init PROVE FedInv
  OBVIOUS
<1>1. /\ HubInit /\ life = 0 /\ handler = Returned /\ enrollment = "active" /\ wire = << >>
      /\ eof = TRUE /\ enabled \in BOOLEAN /\ incidents = 0 /\ owed = {} /\ spokeStatus = NoStamp
      /\ client = [pc |-> "stopped", cursor |-> 0, ready |-> FALSE,
                   connected |-> "unknown", cancelled |-> FALSE, fetched |-> NoStamp]
  BY DEF Init
<1>2. NoStamp \in Stamps
  BY Bounds DEF NoStamp, Stamps
<1>3. client \in ClientType
  BY <1>1, <1>2 DEF ClientType, ClientStates
<1>4. DOMAIN wire = {} /\ wire \in Seq(Frames) /\ Len(wire) <= MaxWire
  BY <1>1, NoFrames
<1>5. FedTypes
  BY <1>1, <1>2, <1>3, <1>4, Bounds, ReturnedTyped DEF FedTypes
<1>6. HubOpen
  BY <1>1, HubStarts DEF HubOpen, HubInit
<1>7. ringCount = 0 /\ chan[S].buf = << >> /\ nextEventID = 0
  BY <1>1, TheStream DEF HubInit
<1>8. /\ handler.pc = "returned" /\ handler.replay = << >> /\ handler.staleID = 0
      /\ ~handler.hasCursor /\ handler.deliveredThrough = 0
  BY <1>1, ReturnedTyped
<1>9. client.pc = "stopped" /\ ~client.ready /\ client.connected = "unknown"
  BY <1>1
<1>10. Connection /\ RevokedStreamEnds
  BY <1>1, <1>4, <1>8, <1>9 DEF Connection, Passed, HasBarrier, RevokedStreamEnds
<1>11. HandlerPhases
  BY <1>1, <1>8 DEF HandlerPhases
<1>12. HandlerPosition
  BY <1>7, <1>8, AscendsNone DEF HandlerPosition, Streaming
<1>13. StatusLatest
  BY <1>7, <1>8, AscendsNone DEF StatusLatest
<1>14. WireInOrder /\ WireCurrent
  BY <1>1, <1>4 DEF WireInOrder, WireCurrent
<1>15. OwedComes /\ StatusFollows /\ StatusComes
  BY <1>1 DEF OwedComes, StatusFollows, StatusComes, Fed
<1>16. QED
  BY <1>5, <1>6, <1>10, <1>11, <1>12, <1>13, <1>14, <1>15 DEF FedInv

LEMMA FedStep == FedInv /\ [Next]_vars => FedInv'
<1> SUFFICES ASSUME FedInv, [Next]_vars PROVE FedInv'
  OBVIOUS
<1>0. /\ FedTypes /\ HubOpen /\ Connection /\ RevokedStreamEnds /\ HandlerPhases
      /\ HandlerPosition /\ StatusLatest /\ WireInOrder /\ WireCurrent
      /\ OwedComes /\ StatusFollows /\ StatusComes
  BY DEF FedInv
<1>1. FedTypes' /\ HubOpen'
  BY <1>0, TypesStep, HubSteps
<1>2. Connection' /\ RevokedStreamEnds'
  BY <1>0, <1>1, ConnectionStep, RevokedStep
<1>3. HandlerPhases' /\ HandlerPosition' /\ StatusLatest'
  BY <1>0, <1>1, PhasesStep, PositionStep, StatusLatestStep
<1>4. WireInOrder' /\ WireCurrent'
  BY <1>0, <1>1, WireStep
<1>5. OwedComes'
  BY <1>0, <1>1, OwedStep
<1>6. StatusFollows' /\ StatusComes'
  BY <1>0, FollowsStep, ComesStep
<1>7. QED
  BY <1>1, <1>2, <1>3, <1>4, <1>5, <1>6 DEF FedInv

\* In every reachable state of every instance the inductive invariant holds.
THEOREM FederationInvariant == Spec => []FedInv
<1>1. QED
  BY FedStarts, FedStep, PTL DEF Spec

\* A frame that the client has yet to read is past its private cursor.
LEMMA AttachedFollows ==
    ASSUME FedInv, Attached
    PROVE  /\ Fed /\ Following
           /\ \A i \in DOMAIN wire : IsEvent(wire[i]) => wire[i].life = life /\ wire[i].id > client.cursor
           /\ \A rec \in Range(chan[S].buf) : InChannel(rec) => rec.id > client.cursor
           /\ handler.replay = << >>
<1>1. Fed /\ Following /\ FedTypes /\ HubOpen /\ Connection /\ HandlerPhases /\ WireInOrder /\ WireCurrent
  BY DEF FedInv, Attached, Fed, Following
<1>2. Passed /\ handler.replay = << >> /\ Floor = handler.deliveredThrough
  BY <1>1, Followed
<1>3. ~StaleFirst
  <2>1. SUFFICES ASSUME StaleFirst PROVE FALSE
    OBVIOUS
  <2>2. 1 \in DOMAIN wire
    BY <1>1, <2>1, FrameTaken DEF FedTypes, StaleFirst
  <2>3. QED
    BY <1>1, <1>2, <2>1, <2>2 DEF WireInOrder, StaleFirst
<1>4. client.cursor <= handler.deliveredThrough
  BY <1>1, <1>3 DEF WireCurrent, Fed
<1>5. ASSUME NEW rec \in Range(chan[S].buf), InChannel(rec) PROVE rec.id > client.cursor
  <2>1. rec \in Events /\ handler.deliveredThrough \in Nat
    BY <1>1, StreamTypes
  <2>2. client.cursor \in Nat /\ rec.id \in Nat
    BY <1>1, <2>1 DEF FedTypes, ClientType, Events
  <2>3. QED
    BY <1>2, <1>4, <1>5, <2>1, <2>2 DEF InChannel
<1>6. QED
  BY <1>1, <1>2, <1>3, <1>5 DEF WireInOrder, WireCurrent, Fed

\* The frames of OnTheWay, one by one.
LEMMA Underway ==
    /\ \A i \in DOMAIN wire : wire[i] \in OnTheWay
    /\ \A rec \in Range(chan[S].buf) :
          [life |-> life, id |-> rec.id, type |-> rec.type] \in OnTheWay
  BY DEF OnTheWay, Range

LEMMA NothingMissed == FedInv => ConnectedMissesNothing
<1> SUFFICES ASSUME FedInv, Attached, NEW e \in owed
             PROVE  \E f \in OnTheWay : f.life = e.life /\ f.id = e.id /\ f.id > client.cursor
  BY DEF ConnectedMissesNothing
<1>1. /\ e.life = life
      /\ \/ \E i \in DOMAIN wire : IsEvent(wire[i]) /\ wire[i].id = e.id
         \/ \E rec \in Range(chan[S].buf) : InChannel(rec) /\ rec.id = e.id /\ Crosses(rec.type)
  BY AttachedFollows DEF FedInv, OwedComes
<1>2. CASE \E i \in DOMAIN wire : IsEvent(wire[i]) /\ wire[i].id = e.id
  BY <1>1, <1>2, AttachedFollows, Underway
<1>3. CASE \E rec \in Range(chan[S].buf) : InChannel(rec) /\ rec.id = e.id /\ Crosses(rec.type)
  <2>1. PICK rec \in Range(chan[S].buf) : InChannel(rec) /\ rec.id = e.id
    BY <1>3
  <2>2. rec.id > client.cursor /\ [life |-> life, id |-> rec.id, type |-> rec.type] \in OnTheWay
    BY <2>1, AttachedFollows, Underway
  <2>3. QED
    BY <1>1, <2>1, <2>2
<1>4. QED
  BY <1>1, <1>2, <1>3

LEMMA StatusUnderway == FedInv => StatusOnItsWay
<1> SUFFICES ASSUME FedInv, Attached, spokeStatus # HubStatus
             PROVE  \E f \in OnTheWay :
                       f.type = StatusType /\ f.id > client.cursor
                           /\ [life |-> f.life, id |-> f.id] = HubStatus
  BY DEF StatusOnItsWay
<1>1. StatusHeld
  BY AttachedFollows DEF FedInv, StatusComes, Attached
<1>2. HubStatus = [life |-> life, id |-> NewestStatus]
  BY DEF HubStatus, NewestStatus
<1>3. CASE \E i \in DOMAIN wire : wire[i].type = StatusType /\ wire[i].id = NewestStatus
  <2>1. PICK i \in DOMAIN wire : wire[i].type = StatusType /\ wire[i].id = NewestStatus
    BY <1>3
  <2>2. wire[i].life = life /\ wire[i].id > client.cursor /\ wire[i] \in OnTheWay
    BY <2>1, AttachedFollows, Underway, FrameTypes DEF IsEvent
  <2>3. QED
    BY <1>2, <2>1, <2>2
<1>4. CASE \E rec \in Range(chan[S].buf) :
              InChannel(rec) /\ rec.type = StatusType /\ rec.id = NewestStatus
  <2>1. PICK rec \in Range(chan[S].buf) :
           InChannel(rec) /\ rec.type = StatusType /\ rec.id = NewestStatus
    BY <1>4
  <2>2. rec.id > client.cursor /\ [life |-> life, id |-> rec.id, type |-> rec.type] \in OnTheWay
    BY <2>1, AttachedFollows, Underway
  <2>3. QED
    BY <1>2, <2>1, <2>2
<1>5. QED
  BY <1>1, <1>3, <1>4, AttachedFollows, AscendsNone DEF StatusHeld

\* Every variable keeps the shape the code gives it.
THEOREM FederationTypes == Spec => []TypeOK
<1>1. FedInv => TypeOK
  BY Bounds DEF FedInv, FedTypes, HubOpen, HubInv, TypeOK, HandlerType, ClientType
<1>2. QED
  BY <1>1, FederationInvariant, PTL

\* Once a revocation has finished, no stream of the revoked spoke goes on,
\* however requests, cancellations and retries interleave.
THEOREM FederationRevokedEnds == Spec => []RevokedStreamEnds
<1>1. FedInv => RevokedStreamEnds
  BY DEF FedInv
<1>2. QED
  BY <1>1, FederationInvariant, PTL

\* A spoke whose browsers are told that the hub is connected misses no event,
\* for rings and channels of any size and any number of restarts and outages.
THEOREM FederationMissesNothing == Spec => []ConnectedMissesNothing
  BY NothingMissed, FederationInvariant, PTL

\* Nor does an older status have the last word over the hub's.
THEOREM FederationStatusOnItsWay == Spec => []StatusOnItsWay
  BY StatusUnderway, FederationInvariant, PTL

\* The event that consumeFrame reads next is never one its cursor rejects: on a
\* connection the comparison of the two only ever confirms the order.
CursorRejectsNothing ==
    wire # << >> /\ IsEvent(wire[1]) => wire[1].id > client.cursor

THEOREM FederationRejectsNothing == Spec => []CursorRejectsNothing
<1>1. FedInv => CursorRejectsNothing
  <2>1. SUFFICES ASSUME FedInv, wire # << >>, IsEvent(wire[1]) PROVE wire[1].id > client.cursor
    BY DEF CursorRejectsNothing
  <2>2. 1 \in DOMAIN wire
    BY <2>1, FrameTaken DEF FedInv, FedTypes
  <2>3. ~StaleFirst
    BY <2>1 DEF StaleFirst, IsEvent
  <2>4. QED
    BY <2>1, <2>2, <2>3 DEF FedInv, WireInOrder
<1>2. QED
  BY <1>1, FederationInvariant, PTL
===============================================================================
