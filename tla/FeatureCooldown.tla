-------------------------- MODULE FeatureCooldown ---------------------------
(***************************************************************************)
(* The cooldown of one repository feature, say issues, on a provider       *)
(* (internal/github/feature_cooldown.go).  A provider that answers         *)
(* "disabled" silences background reads for a day; then one background     *)
(* probe may try again.  The lanes that read the feature (index, watched   *)
(* items, details, comments, archive) share the cooldown: each begins a    *)
(* probe, works at the provider and finishes the probe, and a sync a user  *)
(* asked for ignores the cooldowns that existed when it began.             *)
(*                                                                         *)
(* A repository is known by its route and, once its identity is resolved,  *)
(* by an id; a cooldown is recorded under both.  A displaced repository    *)
(* and its replacement share the route.                                    *)
(***************************************************************************)
EXTENDS Integers

CONSTANTS
    Lanes,         \* passes that run probes
    Repos,         \* refs with a resolved identity, on one route
    Bare,          \* a ref of that route without identity
    MaxDeferrals   \* bound: cooldowns recorded, and reservations made

Route == "route"

Refs == Repos \union {Bare}

Keys == Repos \union {Route}    \* a resolved repository stands for its id

\* What the constants must satisfy; an instance assumes it.
CooldownConstants == Bare \notin Repos /\ Route \notin Repos

VARIABLES
    states,           \* the cooldown under each key
    nextGeneration, nextReservation,
    pc,               \* idle, probing, or deferred: disabled is recorded
    probe,            \* each lane's probe
    through,          \* the generation its run ignores cooldowns up to, or Never
    began,            \* nextGeneration when its probe began
    leaked            \* reservations an admission lost with its error

vars == << states, nextGeneration, nextReservation, pc, probe, through, began, leaked >>

Never == -1    \* the run is not one a user asked for

NoState == [generation |-> 0, reservation |-> 0, due |-> FALSE, by |-> Bare]

NoProbe == [ref |-> Bare, key |-> Route, generation |-> 0, reservation |-> 0, bypass |-> FALSE]

Init ==
    /\ states = [k \in Keys |-> NoState]
    /\ nextGeneration = 0
    /\ nextReservation = 0
    /\ pc = [l \in Lanes |-> "idle"]
    /\ probe = [l \in Lanes |-> NoProbe]
    /\ through = [l \in Lanes |-> Never]
    /\ began = [l \in Lanes |-> 0]
    /\ leaked = {}

counters == << nextGeneration, nextReservation >>

KeysOf(r) == IF r = Bare THEN {Route} ELSE {r, Route}

Recorded(k) == states[k] # NoState

\* lookupState: the id's own state, or the route's unless another
\* repository recorded it.
KeyFor(r) ==
    IF \/ r = Bare
       \/ ~Recorded(r) /\ Recorded(Route) /\ states[Route].by \in {Bare, r}
      THEN Route ELSE r

-----------------------------------------------------------------------------
(* A run begins; a probe begins. *)

\* The index run, or an admission of the archive, takes the bypass of a
\* request by a user; a background run takes none.
BeginRun(l) ==
    /\ pc[l] = "idle"
    /\ \E g \in {Never, nextGeneration} : through' = [through EXCEPT ![l] = g]
    /\ UNCHANGED << states, counters, pc, probe, began, leaked >>

Probing(l, r, generation, reservation, bypass) ==
    /\ pc' = [pc EXCEPT ![l] = "probing"]
    /\ probe' = [probe EXCEPT ![l] =
         [ref |-> r, key |-> KeyFor(r), generation |-> generation,
          reservation |-> reservation, bypass |-> bypass]]
    /\ began' = [began EXCEPT ![l] = nextGeneration]
    /\ UNCHANGED << nextGeneration, through, leaked >>

\* beginProbe for a bypassing run: the state is left as it is.
BeginBypass(l, r) ==
    LET s == states[KeyFor(r)] IN
    /\ pc[l] = "idle"
    /\ s.generation <= through[l]
    /\ Probing(l, r, s.generation, 0, TRUE)
    /\ UNCHANGED << states, nextReservation >>

\* beginProbe of anyone else: free without a state, one reserved probe when
\* the state is due, and otherwise the lane does not read (no step).
BeginProbe(l, r) ==
    LET k == KeyFor(r) IN
    /\ pc[l] = "idle"
    /\ states[k].generation > through[l]
    /\ \/ /\ ~Recorded(k)
          /\ Probing(l, r, 0, 0, FALSE)
          /\ UNCHANGED << states, nextReservation >>
       \/ /\ Recorded(k)
          /\ states[k].reservation = 0
          /\ states[k].due
          /\ nextReservation < MaxDeferrals
          /\ nextReservation' = nextReservation + 1
          /\ states' = [states EXCEPT ![k].reservation = nextReservation']
          /\ Probing(l, r, states[k].generation, nextReservation', FALSE)

-----------------------------------------------------------------------------
(* A probe finishes. *)

Finished(l) ==
    /\ pc' = [pc EXCEPT ![l] = "idle"]
    /\ probe' = [probe EXCEPT ![l] = NoProbe]
    /\ began' = [began EXCEPT ![l] = 0]
    /\ UNCHANGED through

\* The state the probe's own reservation is in.
Holds(p) ==
    /\ p.reservation # 0
    /\ states[p.key].generation = p.generation
    /\ states[p.key].reservation = p.reservation

ForgetsReservation(l) ==                                           \* mutant
    /\ pc[l] = "probing"
    /\ states' = states
    /\ Finished(l)
    /\ UNCHANGED << counters, leaked >>

\* The lane gave up before it asked the provider: probe.abandon.
Abandon(l) ==
    LET p == probe[l] IN
    /\ pc[l] = "probing"
    /\ states' = IF Holds(p) THEN [states EXCEPT ![p.key].reservation = 0] ELSE states
    /\ Finished(l)
    /\ UNCHANGED << counters, leaked >>

\* Admit returns the error of archiveIdentityForRepo: the probe is neither
\* abandoned nor released.
AdmitFails(l) ==
    /\ pc[l] = "probing"
    /\ leaked' = IF Holds(probe[l]) THEN leaked \union {probe[l].reservation} ELSE leaked
    /\ Finished(l)
    /\ UNCHANGED << counters, states >>

ClearedOfAll(p) ==                                                 \* mutant
    [k \in Keys |-> IF k \in KeysOf(p.ref) THEN NoState ELSE states[k]]

\* probe.clear: the observed generation, under every key of the ref.
Cleared(p) ==
    LET s == states[p.key] IN
    IF /\ Recorded(p.key)
       /\ s.generation = p.generation
       /\ p.bypass \/ p.reservation \in {0, s.reservation}
      THEN [k \in Keys |->
              IF k \in KeysOf(p.ref) /\ states[k].generation = p.generation
                THEN NoState ELSE states[k]]
      ELSE states

\* probe.release: a bypass clears; a reservation takes the state with it.
Released(p) ==
    IF p.bypass THEN Cleared(p)
    ELSE IF Holds(p) THEN [states EXCEPT ![p.key] = NoState]
    ELSE states

\* The provider answered, with anything but "disabled".
Release(l) ==
    /\ pc[l] \in {"probing", "deferred"}
    /\ states' = Released(probe[l])
    /\ Finished(l)
    /\ UNCHANGED << counters, leaked >>

\* The index lane after a complete list: clear, and the deferred release
\* finds nothing left of the state clear took.
Clear(l) ==
    /\ pc[l] = "probing"
    /\ states' = Cleared(probe[l])
    /\ Finished(l)
    /\ UNCHANGED << counters, leaked >>

\* The provider answered "disabled": deferUntil records a new generation
\* under every key of the ref.  The archive's probe ends there; the other
\* lanes release theirs afterwards.
Defer(l) ==
    LET r == probe[l].ref IN
    /\ pc[l] = "probing"
    /\ nextGeneration < MaxDeferrals
    /\ nextGeneration' = nextGeneration + 1
    /\ states' = [k \in Keys |->
         IF k \in KeysOf(r)
           THEN [generation |-> nextGeneration', reservation |-> 0, due |-> FALSE, by |-> r]
           ELSE states[k]]
    /\ \/ Finished(l)
       \/ pc' = [pc EXCEPT ![l] = "deferred"] /\ UNCHANGED << probe, through, began >>
    /\ UNCHANGED << nextReservation, leaked >>

-----------------------------------------------------------------------------

\* A day passes for the cooldowns of one generation.
Elapse(g) ==
    /\ \E k \in Keys : states[k].generation = g
    /\ g > 0
    /\ states' = [k \in Keys |->
         IF states[k].generation = g THEN [states[k] EXCEPT !.due = TRUE] ELSE states[k]]
    /\ UNCHANGED << counters, pc, probe, through, began, leaked >>

Next ==
    \/ \E l \in Lanes :
        \/ BeginRun(l)
        \/ \E r \in Refs : BeginBypass(l, r) \/ BeginProbe(l, r)
        \/ Abandon(l) \/ AdmitFails(l) \/ Release(l) \/ Clear(l) \/ Defer(l)
    \/ \E g \in 1 .. nextGeneration : Elapse(g)

Spec == Init /\ [][Next]_vars

-----------------------------------------------------------------------------
(* Properties. *)

\* Completion clears only what the probe observed: a cooldown goes away only
\* when a probe finishes that began after it was recorded, and an identified
\* repository never ends the cooldown of another one on its route.
RenewalStands ==
    [][\A k \in Keys :
        Recorded(k) /\ ~Recorded(k)' =>
            \E l \in Lanes :
                /\ pc'[l] # pc[l]
                /\ began[l] >= states[k].generation
                /\ probe[l].ref \in {Bare, states[k].by} \/ states[k].by = Bare]_vars

\* A state that admits no other probe is reserved by a probe that still
\* runs: no finished lane leaves the feature silent, with the exception of
\* the reservations an admission lost with its error.
ReservationIsHeld ==
    \A k \in Keys :
        \/ states[k].reservation \in {0} \union leaked
        \/ \E l \in Lanes :
            /\ pc[l] = "probing"
            /\ probe[l].reservation = states[k].reservation
            /\ probe[l].key = k
=============================================================================
