------------------------------ MODULE EventHub ------------------------------
(***************************************************************************)
(* The daemon's server-sent event hub (internal/server/syncevents): one    *)
(* mutex guards an event counter, a ring of recent events, the latest      *)
(* event of each cached type and a bounded channel per subscriber.  Every  *)
(* exported method runs under that mutex, so each is one atomic step.      *)
(*                                                                         *)
(* A payload is abstracted to the event's type; an event is [id, type].    *)
(***************************************************************************)
EXTENDS Integers, Sequences, FiniteSets, FiniteSetsExt, Functions

CONSTANTS
    Streams,       \* SSE request handlers, each with one hub subscription
    EventTypes,    \* types of broadcast events
    CachedTypes,   \* types whose latest event is kept for fresh subscribers
    RingCapacity,  \* sse_buffer_size
    ChanCapacity   \* buffer of a subscriber channel (16 in the code)

ASSUME HubAssumption ==
    /\ CachedTypes \subseteq EventTypes
    /\ IsFiniteSet(CachedTypes)
    /\ RingCapacity \in Nat \ {0}
    /\ ChanCapacity \in Nat
    \* enqueueCachedLocked sends on the fresh channel while holding the lock
    /\ Cardinality(CachedTypes) <= ChanCapacity

VARIABLES
    nextEventID,   \* last id assigned in this hub lifetime
    ring,          \* slots 0 .. RingCapacity - 1
    ringHead,      \* slot of the oldest recorded event
    ringCount,     \* recorded events in the ring
    cached,        \* latest event of each cached type
    subscribers,   \* streams registered with the hub
    chan,          \* channel of each stream: what is buffered, and closed?
    done,          \* the done channel is closed
    closed         \* the hub refuses new subscribers

hubVars == << nextEventID, ring, ringHead, ringCount, cached, subscribers,
              chan, done, closed >>

NoEvent == [id |-> 0, type |-> "none"]
Events  == [id : Nat \ {0}, type : EventTypes]

HubTypeOK ==
    /\ nextEventID \in Nat
    /\ ring \in [0 .. RingCapacity - 1 -> Events \union {NoEvent}]
    /\ ringHead \in 0 .. RingCapacity - 1
    /\ ringCount \in 0 .. RingCapacity
    /\ cached \in [CachedTypes -> Events \union {NoEvent}]
    /\ subscribers \subseteq Streams
    /\ chan \in [Streams -> [buf : Seq(Events), closed : BOOLEAN]]
    /\ \A s \in Streams : Len(chan[s].buf) <= ChanCapacity
    /\ done \in BOOLEAN
    /\ closed \in BOOLEAN

HubInit ==
    /\ nextEventID = 0
    /\ ring = [i \in 0 .. RingCapacity - 1 |-> NoEvent]
    /\ ringHead = 0
    /\ ringCount = 0
    /\ cached = [t \in CachedTypes |-> NoEvent]
    /\ subscribers = {}
    /\ chan = [s \in Streams |-> [buf |-> << >>, closed |-> TRUE]]
    /\ done = FALSE
    /\ closed = FALSE

-----------------------------------------------------------------------------
(* Ring buffer. *)

Recorded == [i \in 1 .. ringCount |-> ring[(ringHead + i - 1) % RingCapacity]]

Oldest == ring[ringHead].id

\* Mutant: a cursor older than the ring is taken for a good one.
StaleCursorOnlyAhead(cursor) == cursor > nextEventID

\* A cursor that the retained history cannot vouch for.
StaleCursor(cursor) ==
    \/ cursor > nextEventID
    \/ ringCount > 0 /\ cursor + 1 < Oldest

\* Ids ascend in the ring, so what is newer than the cursor is its end.
After(cursor) ==
    LET newer == {i \in 1 .. ringCount : Recorded[i].id > cursor}
    IN  IF newer = {} THEN << >> ELSE SubSeq(Recorded, Min(newer), ringCount)

RingStore(rec) ==
    IF ringCount < RingCapacity
    THEN /\ ring' = [ring EXCEPT ![(ringHead + ringCount) % RingCapacity] = rec]
         /\ ringCount' = ringCount + 1
         /\ UNCHANGED ringHead
    ELSE /\ ring' = [ring EXCEPT ![ringHead] = rec]
         /\ ringHead' = (ringHead + 1) % RingCapacity
         /\ UNCHANGED ringCount

-----------------------------------------------------------------------------
(* Hub operations. *)

Latest == {cached[t] : t \in CachedTypes} \ {NoEvent}

\* Whether q holds the cached events in id order, as a fresh subscriber finds
\* them in its channel.
CachedInOrder(q) ==
    /\ Range(q) = Latest
    /\ \A i, j \in DOMAIN q : i < j => q[i].id < q[j].id

\* Mutant: a fresh subscriber does not get the cached events.
SubscribeBare(s, injectCached) ==
    /\ chan' = [chan EXCEPT ![s] = [buf |-> << >>, closed |-> closed]]
    /\ subscribers' = IF closed THEN subscribers ELSE subscribers \union {s}
    /\ UNCHANGED << nextEventID, ring, ringHead, ringCount, cached, done, closed >>

\* Subscribe of a closed hub hands out a closed channel.
Subscribe(s, injectCached) ==
    /\ IF closed
       THEN /\ chan' = [chan EXCEPT ![s] = [buf |-> << >>, closed |-> TRUE]]
            /\ UNCHANGED subscribers
       ELSE /\ \E q \in [1 .. Cardinality(Latest) -> Latest] :
                  /\ CachedInOrder(q)
                  /\ chan' = [chan EXCEPT ![s] =
                        [buf    |-> IF injectCached THEN q ELSE << >>,
                         closed |-> FALSE]]
            /\ subscribers' = subscribers \union {s}
    /\ UNCHANGED << nextEventID, ring, ringHead, ringCount, cached, done, closed >>

\* What is buffered in a closed channel can still be received.
Unsubscribe(S) ==
    /\ subscribers' = subscribers \ S
    /\ chan' = [s \in Streams |->
                  IF s \in S \intersect subscribers
                  THEN [chan[s] EXCEPT !.closed = TRUE] ELSE chan[s]]

\* A subscriber whose channel is full is evicted.
Slow(s) == Len(chan[s].buf) >= ChanCapacity

Broadcast(type) ==
    LET rec == [id |-> nextEventID + 1, type |-> type] IN
    /\ nextEventID' = rec.id
    /\ cached' = [t \in CachedTypes |-> IF t = type THEN rec ELSE cached[t]]
    /\ RingStore(rec)
    /\ subscribers' = {s \in subscribers : ~Slow(s)}
    /\ chan' = [s \in Streams |->
                  IF s \notin subscribers THEN chan[s]
                  ELSE IF Slow(s) THEN [chan[s] EXCEPT !.closed = TRUE]
                  ELSE [chan[s] EXCEPT !.buf = Append(@, rec)]]
    /\ UNCHANGED << done, closed >>

\* The stale decision and the synthetic id are taken under one lock.
TakeSyntheticID ==
    /\ nextEventID' = nextEventID + 1
    /\ UNCHANGED << ring, ringHead, ringCount, cached, subscribers, chan, done,
                    closed >>

\* Close: the done channel first, then, under the lock, the subscribers.
CloseDone ==
    /\ ~done
    /\ done' = TRUE
    /\ UNCHANGED << nextEventID, ring, ringHead, ringCount, cached, subscribers,
                    chan, closed >>

CloseSubscribers ==
    /\ done /\ ~closed
    /\ closed' = TRUE
    /\ Unsubscribe(Streams)
    /\ UNCHANGED << nextEventID, ring, ringHead, ringCount, cached, done >>

\* Receive from a channel.
Receive(s) == chan' = [chan EXCEPT ![s].buf = Tail(@)]

\* A new process starts with an empty hub.
NewLifetime ==
    /\ nextEventID' = 0
    /\ ring' = [i \in 0 .. RingCapacity - 1 |-> NoEvent]
    /\ ringHead' = 0
    /\ ringCount' = 0
    /\ cached' = [t \in CachedTypes |-> NoEvent]
    /\ subscribers' = {}
    /\ chan' = [s \in Streams |-> [buf |-> << >>, closed |-> TRUE]]
    /\ done' = FALSE
    /\ closed' = FALSE
=============================================================================
