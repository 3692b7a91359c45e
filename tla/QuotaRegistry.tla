--------------------------- MODULE QuotaRegistry ---------------------------
(***************************************************************************)
(* The registry of provider quota pools and of the archive attempts        *)
(* reserved against them (internal/github/quota.go), as operators on one   *)
(* credential's pool for one resource and on the reservations made against *)
(* that pool, keyed by the reset of the window they were made in.          *)
(*                                                                         *)
(* Resets are numbered: reset w ends window w.  The registry takes whatever *)
(* limit the provider states; the provider here always states the same.    *)
(***************************************************************************)
EXTENDS Integers

CONSTANTS
    ProviderLimit,              \* what X-RateLimit-Limit says
    RateReserveBuffer,
    ArchiveReserveDenominator,
    MaxReset                    \* bound: the resets that occur

ASSUME QuotaAssumption ==
    /\ ProviderLimit \in Nat \ {0}
    /\ RateReserveBuffer \in Nat
    /\ ArchiveReserveDenominator \in Nat \ {0}
    /\ MaxReset \in Nat \ {0}

Resets == 1 .. MaxReset

Pools == [known : BOOLEAN, remaining : Nat, reset : 0 .. MaxReset, attemptCost : Nat]

Reservations == [Resets -> Nat]

\* A Rate as a response header or /rate_limit states it.
Rates == [remaining : 0 .. ProviderLimit, reset : Resets]

UnobservedPool == [known |-> FALSE, remaining |-> 0, reset |-> 0, attemptCost |-> 0]

Larger(a, b) == IF a > b THEN a ELSE b

ArchiveProviderReserve ==
    Larger(ProviderLimit \div ArchiveReserveDenominator, RateReserveBuffer)

FreshPool(rate) ==
    [known |-> TRUE, remaining |-> rate.remaining, reset |-> rate.reset, attemptCost |-> 1]

ObserveLatest(p, rate) ==                                                   \* mutant
    IF p.known /\ rate.reset < p.reset THEN p
    ELSE IF p.known /\ rate.reset = p.reset THEN [p EXCEPT !.remaining = rate.remaining]
    ELSE FreshPool(rate)

\* ObserveHeaders: an older window is dropped, the same window may only lower
\* the count, a later window replaces the pool.
ObserveHeaders(p, rate) ==
    CASE p.known /\ rate.reset < p.reset -> p
      [] p.known /\ rate.reset = p.reset /\ rate.remaining < p.remaining ->
            [p EXCEPT !.attemptCost = Larger(@, p.remaining - rate.remaining),
                      !.remaining = rate.remaining]
      [] p.known /\ rate.reset = p.reset /\ rate.remaining >= p.remaining -> p
      [] OTHER -> FreshPool(rate)

\* UpdateSnapshot: within its window a snapshot is taken in both directions.
UpdateSnapshot(p, rate) ==
    IF p.known /\ rate.reset < p.reset THEN p
    ELSE [FreshPool(rate) EXCEPT
            !.attemptCost = IF p.known /\ rate.reset = p.reset THEN p.attemptCost ELSE @]

\* clearReservationsBeforeLocked, in both of the above, when the pool is
\* replaced by one of a later window.
ReplacesPool(p, rate) == ~p.known \/ rate.reset > p.reset

ClearBefore(rs, reset) == [w \in Resets |-> IF w < reset THEN 0 ELSE rs[w]]

ReservationsAfter(rs, p, rate) ==
    IF ReplacesPool(p, rate) THEN ClearBefore(rs, rate.reset) ELSE rs

EffectiveRemaining(p, rs) == Larger(p.remaining - rs[p.reset], 0)

\* A pool whose window is over reads as unobserved.  The local clock agrees with
\* the provider's, which has window w open exactly until its reset.
Usable(p, openReset) == p.known /\ p.reset >= openReset

Headroom(p, rs) == EffectiveRemaining(p, rs) - ArchiveProviderReserve

ReservationCost(p) == Larger(p.attemptCost, 1)

ReserveAttempt(rs, p) == [rs EXCEPT ![p.reset] = @ + ReservationCost(p)]

\* releaseArchiveReservationLocked: an entry that runs out is deleted, and one
\* that was cleared meanwhile stays deleted.
ReleaseReservation(rs, reset, cost) == [rs EXCEPT ![reset] = Larger(@ - cost, 0)]

RaiseAttemptCost(p, reset, cost) ==
    IF p.known /\ p.reset = reset /\ cost > p.attemptCost
      THEN [p EXCEPT !.attemptCost = cost]
      ELSE p
=============================================================================
