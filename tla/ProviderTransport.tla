------------------------- MODULE ProviderTransport -------------------------
(***************************************************************************)
(* The transports every provider request of one credential passes through: *)
(* quotaTransport above budgetTransport (internal/github/quota.go and      *)
(* budget_transport.go, stacked in client.go), with the budget and the     *)
(* quota registry they share, archive admission (Syncer.Admit) and the     *)
(* /rate_limit snapshots that reconcile the registry.                      *)
(*                                                                         *)
(* A request is one wire attempt.  Its RoundTrip is cut where the code     *)
(* lets go of a lock: reserve, consume the allowance, spend, wait for the  *)
(* provider, refund, observe the headers, release, raise the cost.         *)
(* Admissions grant an allowance that several attempts share.              *)
(*                                                                         *)
(* Limits: the provider's limit never changes; a snapshot that names no    *)
(* limit or reset does not occur; preemption by live work only decides     *)
(* when attempts are made, and any attempt may be made at any time here.   *)
(***************************************************************************)
EXTENDS SyncBudget, QuotaRegistry, FiniteSets, FiniteSetsExt

CONSTANTS
    Requests,       \* the wire attempts: a bound on how many are made
    Resources,      \* "rest", "graphql"
    Admissions,     \* archive admissions
    BudgetLimits,   \* the hourly ceilings configuration may set
    LiveFloor,      \* archiveLiveFloor of the platform
    MaxCost,        \* bound on what the provider charges for one attempt
    MaxBudgetWindow,\* bound on the hours that pass
    NoResource, NoAdmission, NoRate, NoWindow

ASSUME TransportAssumption ==
    /\ IsFiniteSet(Requests) /\ Resources # {}
    /\ BudgetLimits \subseteq Nat
    /\ \E highest \in BudgetLimits : \A limit \in BudgetLimits : limit =< highest
    /\ LiveFloor \in Nat /\ MaxCost \in Nat /\ MaxBudgetWindow \in Nat
    /\ NoWindow \notin Nat /\ NoRate \notin Rates

VARIABLES
    budget,         \* the credential's SyncBudget
    pool,           \* QuotaRegistry.pools
    reservations,   \* QuotaRegistry.reservations
    allowance,      \* archiveAttemptAllowance of each admission
    req,            \* the attempts
    provider        \* what the provider has left, by resource

vars == <<budget, pool, reservations, allowance, req, provider>>

Kinds == {"user", "optional", "essential", "archive", "local"}

Places == {"idle", "consume", "spend", "wire", "notModified", "observe",
           "reconcile", "raise", "done"}

NoRequest == [at |-> "idle", kind |-> "user", resource |-> NoResource,
              admission |-> NoAdmission, cost |-> 0, before |-> NoRate,
              holds |-> FALSE, window |-> NoWindow, refunded |-> FALSE,
              header |-> NoRate]

RequestTypes ==
    [at : Places, kind : Kinds, resource : Resources \cup {NoResource},
     admission : Admissions \cup {NoAdmission}, cost : Nat,
     before : Rates \cup {NoRate}, holds : BOOLEAN, window : Nat \cup {NoWindow},
     refunded : BOOLEAN, header : Rates \cup {NoRate}]

Init ==
    /\ \E limit \in BudgetLimits : budget = NewSyncBudgetWithEssentialReserve(limit)
    /\ pool = [s \in Resources |-> UnobservedPool]
    /\ reservations = [s \in Resources |-> [w \in Resets |-> 0]]
    /\ allowance = [a \in Admissions |-> [granted |-> FALSE, fromProvider |-> FALSE, left |-> 0]]
    /\ req = [r \in Requests |-> NoRequest]
    /\ provider \in [Resources -> [remaining : 0 .. ProviderLimit, reset : {1}]]

-----------------------------------------------------------------------------
(* Archive admission.                                                      *)

\* A known pacing window grants what every required pool has above its own
\* reserve; the admission's declared cost is one attempt.
PacingKnown == \A s \in Resources : Usable(pool[s], provider[s].reset)

ArchiveHeadroom == Min({Headroom(pool[s], reservations[s]) : s \in Resources})

Grant(a, fromProvider, available) ==
    allowance' = [allowance EXCEPT ![a] =
                    [granted |-> TRUE, fromProvider |-> fromProvider, left |-> available]]

AdmitOnProviderQuota(a) ==
    /\ ~allowance[a].granted
    /\ PacingKnown
    /\ ArchiveHeadroom >= 1
    /\ Grant(a, TRUE, ArchiveHeadroom)
    /\ UNCHANGED <<budget, pool, reservations, req, provider>>

AdmitOnLocalBudget(a) ==
    LET available == LocalArchiveSpendAvailable(budget, LiveFloor) IN
    /\ ~allowance[a].granted
    /\ available >= 1
    /\ Grant(a, FALSE, available)
    /\ UNCHANGED <<budget, pool, reservations, req, provider>>

-----------------------------------------------------------------------------
(* The way out: quotaTransport.RoundTrip, then budgetTransport.RoundTrip.  *)

\* What is left of an attempt whose RoundTrip has returned: what it weighs on
\* the budget, and a reservation that no answer settled.
Returned(q) ==
    IF q.holds THEN [q EXCEPT !.at = "done", !.header = NoRate]
    ELSE [NoRequest EXCEPT !.at = "done", !.kind = q.kind, !.window = q.window,
                           !.refunded = q.refunded]

Return(r) == req' = [req EXCEPT ![r] = Returned(@)]

\* Foreground requests carry no budget; reserved archive attempts are metered
\* by the registry instead.
Counted(kind) == kind \in {"optional", "essential", "local"}

\* Where budgetTransport takes the request: to the budget, or past it.
Onward(kind) == IF Counted(kind) THEN "spend" ELSE "wire"

\* Live traffic and background sync take no reservation.
BeginLive(r, kind, s) ==
    /\ req[r].at = "idle"
    /\ req' = [req EXCEPT ![r] = [NoRequest EXCEPT !.at = Onward(kind), !.kind = kind, !.resource = s]]
    /\ UNCHANGED <<budget, pool, reservations, allowance, provider>>

\* An archive attempt without a reservation costs one unit of its allowance.
BeginLocalArchive(r, a, s) ==
    /\ req[r].at = "idle"
    /\ allowance[a].granted /\ ~allowance[a].fromProvider
    /\ req' = [req EXCEPT ![r] = [NoRequest EXCEPT !.at = "consume", !.kind = "local",
                                     !.resource = s, !.admission = a, !.cost = 1]]
    /\ UNCHANGED <<budget, pool, reservations, allowance, provider>>

\* reserveArchiveAttempt: every required pool is usable, the others are above
\* their reserve, and the target stays at or above its own after this cost.
ReserveAllowed(s) ==
    /\ PacingKnown
    /\ \A t \in Resources \ {s} : Headroom(pool[t], reservations[t]) > 0
    /\ Headroom(pool[s], reservations[s]) - ReservationCost(pool[s]) >= 0

BeginArchive(r, a, s) ==
    /\ req[r].at = "idle"
    /\ allowance[a].granted /\ allowance[a].fromProvider
    /\ IF ReserveAllowed(s)
         THEN /\ reservations' = [reservations EXCEPT ![s] = ReserveAttempt(@, pool[s])]
              /\ req' = [req EXCEPT ![r] =
                    [NoRequest EXCEPT !.at = "consume", !.kind = "archive", !.resource = s,
                        !.admission = a, !.cost = ReservationCost(pool[s]), !.holds = TRUE,
                        !.before = [remaining |-> pool[s].remaining, reset |-> pool[s].reset]]]
         ELSE /\ Return(r)
              /\ UNCHANGED reservations
    /\ UNCHANGED <<budget, pool, allowance, provider>>

ConsumeAllowance(r) ==
    LET q == req[r] IN
    /\ q.at = "consume"
    /\ allowance[q.admission].left >= q.cost
    /\ allowance' = [allowance EXCEPT ![q.admission].left = @ - q.cost]
    /\ req' = [req EXCEPT ![r].at = Onward(q.kind)]
    /\ UNCHANGED <<budget, pool, reservations, provider>>

Release(r) ==
    LET q == req[r] IN
    reservations' = IF q.holds
        THEN [reservations EXCEPT ![q.resource] = ReleaseReservation(@, q.before.reset, q.cost)]
        ELSE reservations

\* The reservation is given back when the allowance is used up.
ConsumeLeaking(r) ==                                                        \* mutant
    /\ req[r].at = "consume"
    /\ allowance[req[r].admission].left < req[r].cost
    /\ req' = [req EXCEPT ![r] = Returned([@ EXCEPT !.holds = FALSE])]
    /\ UNCHANGED <<budget, pool, reservations, allowance, provider>>

ConsumeRefused(r) ==
    /\ req[r].at = "consume"
    /\ allowance[req[r].admission].left < req[r].cost
    /\ Release(r)
    /\ req' = [req EXCEPT ![r] = Returned([@ EXCEPT !.holds = FALSE])]
    /\ UNCHANGED <<budget, pool, allowance, provider>>

SpendLocked(r) ==
    LET q == req[r] IN
    /\ q.at = "spend"
    /\ IF Spends(budget, q.kind = "essential")
         THEN /\ budget' = SpendOne(budget, q.kind = "local")
              /\ req' = [req EXCEPT ![r].at = "wire", ![r].window = budget'.window]
         ELSE /\ budget' = RollLocked(budget)
              /\ Return(r)
    /\ UNCHANGED <<pool, reservations, allowance, provider>>

-----------------------------------------------------------------------------
(* The provider and the wire (external).                                   *)

\* The provider charges the attempt and states what is left; a 304 is free.
\* Some answers carry no rate headers.
Answer(r, charge, headers, notModified) ==
    LET s == req[r].resource IN
    /\ req[r].at = "wire"
    /\ charge =< provider[s].remaining
    /\ notModified => charge = 0
    /\ provider' = [provider EXCEPT ![s].remaining = @ - charge]
    /\ req' = [req EXCEPT ![r].at = IF Counted(req[r].kind) /\ notModified
                                     THEN "notModified" ELSE "observe",
                          ![r].header = IF headers THEN provider'[s] ELSE NoRate]
    /\ UNCHANGED <<budget, pool, reservations, allowance>>

\* No response: the attempt may or may not have reached the provider.
Lose(r) ==
    /\ req[r].at \in {"wire", "notModified", "observe"} /\ ~req[r].refunded
    /\ Return(r)
    /\ UNCHANGED <<budget, pool, reservations, allowance, provider>>

WindowResets(s) ==
    /\ provider[s].reset < MaxReset
    /\ provider' = [provider EXCEPT ![s] = [remaining |-> ProviderLimit, reset |-> @.reset + 1]]
    /\ UNCHANGED <<budget, pool, reservations, allowance, req>>

-----------------------------------------------------------------------------
(* The way back.                                                           *)

Refund(r) ==
    LET q == req[r] IN
    /\ q.at = "notModified"
    /\ budget' = RefundOne(budget, q.window, q.kind = "local")
    /\ req' = [req EXCEPT ![r].at = "observe", ![r].refunded = TRUE]
    /\ UNCHANGED <<pool, reservations, allowance, provider>>

\* ObserveHeaders; there is nothing to reconcile without a reservation.
Observe(r) ==
    LET q == req[r]
        s == q.resource IN
    /\ q.at = "observe"
    /\ req' = [req EXCEPT ![r] = IF q.kind = "archive" THEN [q EXCEPT !.at = "reconcile"]
                                                       ELSE Returned(q)]
    /\ IF q.header = NoRate
         THEN UNCHANGED <<pool, reservations>>
         ELSE /\ pool' = [pool EXCEPT ![s] = ObserveHeaders(@, q.header)]
              /\ reservations' = [reservations EXCEPT
                    ![s] = ReservationsAfter(@, pool[s], q.header)]
    /\ UNCHANGED <<budget, allowance, provider>>

\* An answer settles its reservation when it is about a later window, or about
\* the same one with no more left than before the attempt.
Settles(q) ==
    /\ q.header # NoRate
    /\ \/ q.header.reset > q.before.reset
       \/ q.header.reset = q.before.reset /\ q.header.remaining =< q.before.remaining

Reconcile(r) ==
    LET q == req[r] IN
    /\ q.at = "reconcile"
    /\ IF Settles(q)
         THEN Release(r) /\ req' = [req EXCEPT ![r].at = "raise", ![r].holds = FALSE]
         ELSE UNCHANGED reservations /\ req' = [req EXCEPT ![r].at = "raise"]
    /\ UNCHANGED <<budget, pool, allowance, provider>>

ActualCost(q) ==
    CASE q.header = NoRate -> q.cost
      [] q.header # NoRate /\ q.header.reset = q.before.reset ->
            Larger(q.cost, q.before.remaining - q.header.remaining)
      [] q.header # NoRate /\ q.header.reset > q.before.reset ->
            Larger(q.cost, ProviderLimit - q.header.remaining)
      [] OTHER -> q.cost

\* raiseAttemptCost for an answer of a later window; a cost above the
\* reservation is debited from the allowance.
RaiseCost(r) ==
    LET q == req[r]
        extra == ActualCost(q) - q.cost IN
    /\ q.at = "raise"
    /\ pool' = IF q.header # NoRate /\ q.header.reset > q.before.reset
                 THEN [pool EXCEPT ![q.resource] =
                         RaiseAttemptCost(@, q.header.reset, ActualCost(q))]
                 ELSE pool
    /\ allowance' = [allowance EXCEPT ![q.admission].left = Larger(@ - extra, 0)]
    /\ Return(r)
    /\ UNCHANGED <<budget, reservations, provider>>

-----------------------------------------------------------------------------
(* Snapshots, settings and the hour.                                       *)

\* A /rate_limit answer is free and may describe any moment up to now: what it
\* says of the open window is what is left, or more.
Stated(s, rate) ==
    \/ rate.reset < provider[s].reset
    \/ rate.reset = provider[s].reset /\ rate.remaining >= provider[s].remaining

ApplySnapshot(s, rate) ==
    /\ Stated(s, rate)
    /\ pool' = [pool EXCEPT ![s] = UpdateSnapshot(@, rate)]
    /\ reservations' = [reservations EXCEPT ![s] = ReservationsAfter(@, pool[s], rate)]
    /\ UNCHANGED <<budget, allowance, req, provider>>

HourElapses ==
    /\ ~budget.elapsed /\ budget.window < MaxBudgetWindow
    /\ budget' = [budget EXCEPT !.elapsed = TRUE]
    /\ UNCHANGED <<pool, reservations, allowance, req, provider>>

\* The tracker's window-reset callback.
ProviderWindowReset ==
    /\ budget.window < MaxBudgetWindow
    /\ budget' = ResetBudget(budget)
    /\ UNCHANGED <<pool, reservations, allowance, req, provider>>

SetBudgetLimit(limit) ==
    /\ limit # budget.limit
    /\ budget' = SetLimit(budget, limit)
    /\ UNCHANGED <<pool, reservations, allowance, req, provider>>

-----------------------------------------------------------------------------

Attempt(r) ==
    \/ \E kind \in {"user", "optional", "essential"}, s \in Resources : BeginLive(r, kind, s)
    \/ \E a \in Admissions, s \in Resources : BeginLocalArchive(r, a, s) \/ BeginArchive(r, a, s)
    \/ ConsumeAllowance(r) \/ ConsumeRefused(r) \/ SpendLocked(r)
    \/ Refund(r) \/ Observe(r) \/ Reconcile(r) \/ RaiseCost(r)

Wire(r) ==
    \/ \E charge \in 0 .. MaxCost, headers, notModified \in BOOLEAN :
          Answer(r, charge, headers, notModified)
    \/ Lose(r)

Next ==
    \/ \E r \in Requests : Attempt(r) \/ Wire(r)
    \/ \E a \in Admissions : AdmitOnProviderQuota(a) \/ AdmitOnLocalBudget(a)
    \/ \E s \in Resources : WindowResets(s)
    \/ \E s \in Resources, rate \in Rates : ApplySnapshot(s, rate)
    \/ HourElapses \/ ProviderWindowReset
    \/ \E limit \in BudgetLimits : SetBudgetLimit(limit)

Spec == Init /\ [][Next]_vars

-----------------------------------------------------------------------------
(* Properties.                                                             *)

\* Budget, registry, attempts and provider keep their shapes; in particular no
\* count ever falls below zero.
TypeOK ==
    /\ budget \in Budgets
    /\ pool \in [Resources -> Pools]
    /\ reservations \in [Resources -> Reservations]
    /\ allowance \in [Admissions -> [granted : BOOLEAN, fromProvider : BOOLEAN, left : Nat]]
    /\ req \in [Requests -> RequestTypes]
    /\ provider \in [Resources -> Rates]

\* The requests that still weigh on budget window w.
SpentIn(w) == {r \in Requests : req[r].window = w /\ ~req[r].refunded}

LocalArchive == {r \in Requests : req[r].kind = "local"}

\* The budget counts exactly the requests spent in its window and not answered
\* 304, and among them the archive's: a refund that arrives after the window
\* rolled or was reset gives the new window nothing back.
SpentIsExact ==
    /\ budget.spent = Cardinality(SpentIn(budget.window))
    /\ budget.archiveSpent = Cardinality(SpentIn(budget.window) \cap LocalArchive)

\* No window lets out more than the highest ceiling set, and optional and
\* archive requests leave the essential reserve of that ceiling alone.
CeilingHolds ==
    LET limit == Max(BudgetLimits)
        optional == {r \in Requests : req[r].kind # "essential"} IN
    \A w \in 0 .. MaxBudgetWindow :
        /\ Cardinality(SpentIn(w)) =< limit
        /\ Cardinality(SpentIn(w) \cap optional) =< limit - EssentialReserve(limit)

\* The attempts whose reservation against window w of a pool stands.
Holders(s, w) ==
    {r \in Requests : req[r].holds /\ req[r].resource = s /\ req[r].before.reset = w}

\* The units of a pool those reservations stand for, each under its attempt.
ReservedUnits(s, w) == UNION {{r} \X (1 .. req[r].cost) : r \in Holders(s, w)}

\* What is reserved against the current window of a pool is the sum over the
\* attempts that hold a reservation in it: none is released twice, none by
\* another's answer, and what lost answers leave behind ends with the window.
ReservationsExact ==
    \A s \in Resources, w \in Resets :
        reservations[s][w] =
            IF w < pool[s].reset THEN 0 ELSE Cardinality(ReservedUnits(s, w))

\* The pool's figure takes an answer into account: it is of a later window, or
\* no higher than what the answer said.
Seen(s, rate) ==
    \/ pool[s].reset > rate.reset
    \/ pool[s].reset = rate.reset /\ pool[s].remaining =< rate.remaining

\* Attempts whose answer the registry has been shown.
ObservedAreSeen ==
    \A r \in Requests :
        req[r].at \in {"reconcile", "raise"} /\ req[r].header # NoRate
            => Seen(req[r].resource, req[r].header)

\* A reservation is only dropped when the pool shows what the attempt cost, and
\* no answer that comes late or out of order undoes that: only a /rate_limit
\* snapshot, which the registry believes in both directions, can raise a pool
\* within its window.
ObservedStaySeen ==
    [][ObservedAreSeen /\ ~(\E s \in Resources, rate \in Rates : ApplySnapshot(s, rate)) => ObservedAreSeen']_vars
=============================================================================
