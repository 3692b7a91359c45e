-------------------------- MODULE MCProviderAnswers --------------------------
(* Four places where the answer of a provider comes after the state it was  *)
(* asked for may have changed: the metering of requests (two attempts), the *)
(* installation token of a candidate (two callers), the cooldown of a       *)
(* feature (two lanes, two repositories of one route) and the               *)
(* acknowledgement of a notification.  They share no state, so a behaviour  *)
(* explores one of them, chosen initially, and the state spaces add up.     *)
EXTENDS ProviderTransport, TLC

CONSTANTS
    Callers,
    Lanes, Repos, Bare, MaxDeferrals,
    MaxVersion, MaxQueued, MaxFaults

VARIABLES
    part,
    cached, entry, over, invalidated, phase, on, ended, refused,
    states, nextGeneration, nextReservation, lanePc, probe, through, began, leaked,
    thread, row, queued, poll, ackPc, job, fetched, seen, faults

Token == INSTANCE TokenMint

Cooldown == INSTANCE FeatureCooldown WITH pc <- lanePc

Ack == INSTANCE NotificationAck WITH pc <- ackPc

ASSUME TokenAssumption == Token!TokenConstants

ASSUME CooldownAssumption == Cooldown!CooldownConstants

ASSUME AckAssumption == Ack!AckConstants

MCInit ==
    /\ part \in {"metering", "token", "cooldown", "ack"}
    /\ Init /\ Token!Init /\ Cooldown!Init /\ Ack!Init
    /\ part # "metering" =>
         /\ budget = NewSyncBudgetWithEssentialReserve(Min(BudgetLimits))
         /\ \A s \in Resources : provider[s].remaining = 0

tokenVars    == << cached, entry, over, invalidated, phase, on, ended, refused >>
cooldownVars == << states, nextGeneration, nextReservation, lanePc, probe, through,
                   began, leaked >>
ackVars      == << thread, row, queued, poll, ackPc, job, fetched, seen, faults >>

PartIs(p) == part = p /\ UNCHANGED part

MCNext ==
    \/ /\ PartIs("metering") /\ Next
       /\ UNCHANGED << tokenVars, cooldownVars, ackVars >>
    \/ /\ PartIs("token") /\ Token!Next
       /\ UNCHANGED << vars, cooldownVars, ackVars >>
    \/ /\ PartIs("cooldown") /\ Cooldown!Next
       /\ UNCHANGED << vars, tokenVars, ackVars >>
    \/ /\ PartIs("ack") /\ Ack!Next
       /\ UNCHANGED << vars, tokenVars, cooldownVars >>

MCVars == << vars, part, tokenVars, cooldownVars, ackVars >>

MCSpec == MCInit /\ [][MCNext]_MCVars

Symmetry == Permutations(Requests)

-----------------------------------------------------------------------------
(* Properties, besides those of ProviderTransport. *)

\* A caller of resolve is told its context ended only when it did, although the
\* mint ran under another caller's, and is never handed a refused token.
AnswersAreOwn == Token!AnswersAreOwn

\* A probe that completes clears the cooldown it observed, never one that was
\* recorded since or that another repository of the route recorded.
RenewalStands == Cooldown!RenewalStands

\* A feature whose one probe is reserved has a probe that still runs, except for
\* the reservation Admit loses with an error: no finished lane silences it.
ReservationIsHeld == Cooldown!ReservationIsHeld

\* A local read that left the queue reached the provider: its thread is read or
\* has newer activity, through stale lists, lost answers and restarts.
ReadIsPropagated == Ack!ReadIsPropagated
=============================================================================
