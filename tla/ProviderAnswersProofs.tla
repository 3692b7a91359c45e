------------------------ MODULE ProviderAnswersProofs ------------------------
(***************************************************************************)
(* The parts MCProviderAnswers explores on a small instance, for any       *)
(* instance: the metering of requests, the cooldowns of a feature, the     *)
(* token of a candidate and the acknowledgement of a notification.         *)
(*                                                                         *)
(* The counts of the metering alone are not inductive.  That a new window  *)
(* starts empty needs WindowsOpened; that a refund finds its own request   *)
(* still counted, that an attempt is spent once and that no attempt begins *)
(* with another's reservation, needs AttemptsCarry; that a ceiling lowered *)
(* or raised keeps the reserve needs LimitIsSet, and that no count falls   *)
(* below zero, what pools show (PoolsShowRates).                           *)
(*                                                                         *)
(* ReservationIsHeld becomes inductive once every probe is known to look   *)
(* at a generation from before it began (ProbesObserve), generations and   *)
(* reservations at most at their counters (Numbered), a generation to be   *)
(* one repository's (RecordedByOne) and a reservation one generation's     *)
(* (ReservedOnce).  AnswersAreOwn needs that an entry no waiter may take   *)
(* an answer from is marked (MarksAreComplete), and that one caller mints  *)
(* at a time, into the cached entry (OneMint).  ReadIsPropagated needs     *)
(* that whatever is written to a row is of the thread's past (OfThePast)   *)
(* and that a mark-read is not forgotten before it is settled (MarkedRead). *)
(***************************************************************************)
EXTENDS MCProviderAnswers, FiniteSetTheorems, WellFoundedInduction, TLAPS

-----------------------------------------------------------------------------
(* The metering of requests: the transports of one credential.              *)

Out == {"consume", "spend", "wire", "notModified", "observe", "reconcile", "raise"}

\* What an attempt carries on its way: the pool it asks, the admission and the
\* pool's figure an archive attempt was let out on, and a budget window only
\* once it was spent.
Carries(q) ==
    /\ q.at \in Out => q.resource \in Resources
    /\ q.at = "consume" \/ (q.at \in Out /\ q.kind = "archive") => q.admission \in Admissions
    /\ q.at = "consume" => q.kind \in {"local", "archive"}
    /\ q.at \in Out /\ q.kind = "archive" => q.before \in Rates
    /\ q.at \in {"reconcile", "raise"} => q.kind = "archive"
    /\ q.holds => q.before \in Rates /\ q.resource \in Resources
    /\ q.at = "idle" => ~q.holds
    /\ q.at \in {"idle", "consume", "spend"} => q.window = NoWindow
    /\ q.at \in {"wire", "notModified"} /\ Counted(q.kind) => q.window # NoWindow
    /\ q.at = "notModified" => Counted(q.kind)
    /\ q.at \in {"idle", "consume", "spend", "wire", "notModified"} => ~q.refunded

AttemptsCarry == \A r \in Requests : Carries(req[r])

\* No attempt was spent in a window the budget has not opened.
WindowsOpened == \A r \in Requests : req[r].window # NoWindow => req[r].window <= budget.window

\* A pool shows what a rate said, or nothing yet.
PoolsShowRates ==
    \A s \in Resources :
        IF pool[s].known
          THEN pool[s].remaining <= ProviderLimit /\ pool[s].reset \in Resets
          ELSE pool[s].reset = 0

\* The budget's ceiling is one that was configured, with its own reserve.
LimitIsSet ==
    budget.limit \in BudgetLimits /\ budget.reserve = EssentialReserve(budget.limit)

LEMMA NoRequestType == NoRequest \in RequestTypes
  BY TransportAssumption DEF NoRequest, RequestTypes, Places, Kinds

LEMMA ReturnedType == ASSUME NEW q \in RequestTypes PROVE Returned(q) \in RequestTypes
<1>1. CASE q.holds
  BY <1>1 DEF Returned, RequestTypes, Places
<1>2. CASE ~q.holds
  BY <1>2 DEF Returned, NoRequest, RequestTypes, Places, Kinds
<1> QED
  BY <1>1, <1>2

\* A quotient leaves the reserve within the ceiling.
LEMMA ReserveType ==
    ASSUME NEW limit \in Nat
    PROVE  EssentialReserve(limit) \in Nat /\ EssentialReserve(limit) <= limit
  BY DenominatorAssumption DEF EssentialReserve

\* The higher the ceiling, the more of it is left beside the reserve.
LEMMA OptionalGrows ==
    ASSUME NEW low \in Nat, NEW high \in Nat, low <= high
    PROVE  low - EssentialReserve(low) <= high - EssentialReserve(high)
<1> DEFINE D == EssentialReserveDenominator
           q == low \div D
           Q == high \div D
<1>1. D \in Nat /\ D >= 1
  BY DenominatorAssumption
<1>2. q \in Nat /\ Q \in Nat
  BY <1>1
<1>3. D * q <= low /\ low < D * q + D /\ D * Q <= high /\ high < D * Q + D
  BY <1>1
<1> HIDE DEF D, q, Q
<1>4. CASE Q = q
  BY <1>2, <1>4 DEF EssentialReserve, D, q, Q
<1>5. CASE Q # q
  <2>1. Q > q
    BY <1>1, <1>2, <1>3, <1>5
  <2> QED
    BY <1>1, <1>2, <1>3, <2>1 DEF EssentialReserve, D, q, Q
<1> QED
  BY <1>4, <1>5

\* What every pool has above its reserve is a number, and there is a least.
LEMMA HeadroomType ==
    ASSUME TypeOK, ArchiveHeadroom >= 1, PoolsShowRates, PacingKnown
    PROVE  ArchiveHeadroom \in Nat
<1> DEFINE room == {EffectiveRemaining(pool[s], reservations[s]) : s \in Resources}
<1>1. room \subseteq Nat
  BY DEF TypeOK, EffectiveRemaining, Larger, Pools, Reservations, PoolsShowRates, PacingKnown,
    Usable
<1>2. room # {}
  BY TransportAssumption
<1>3. PICK x \in room : \A y \in room : ~(y < x)
  <2> HIDE DEF room
  <2>1. PICK x \in room : \A y \in room : <<y, x>> \notin OpToRel(<, Nat)
    BY <1>1, <1>2, WFMin, NatLessThanWellFounded, Zenon
  <2> QED
    BY <1>1, <2>1 DEF OpToRel
<1>4. PICK s \in Resources : x = EffectiveRemaining(pool[s], reservations[s])
  OBVIOUS
<1>5. ArchiveHeadroom \in {Headroom(pool[t], reservations[t]) : t \in Resources}
  <2> DEFINE rooms == {Headroom(pool[t], reservations[t]) : t \in Resources}
  <2>1. ArchiveProviderReserve \in Nat
    BY QuotaAssumption DEF ArchiveProviderReserve, Larger
  <2>2. Headroom(pool[s], reservations[s]) \in rooms
    OBVIOUS
  <2>3. \A y \in rooms : Headroom(pool[s], reservations[s]) <= y
    <3> SUFFICES ASSUME NEW t \in Resources
                 PROVE  Headroom(pool[s], reservations[s]) <= Headroom(pool[t], reservations[t])
      OBVIOUS
    <3>1. EffectiveRemaining(pool[t], reservations[t]) \in room
      OBVIOUS
    <3>2. x \in Nat /\ EffectiveRemaining(pool[t], reservations[t]) \in Nat
      BY <1>1, <3>1
    <3>3. x <= EffectiveRemaining(pool[t], reservations[t])
      BY <1>3, <3>1, <3>2
    <3> HIDE DEF room, rooms
    <3> QED
      BY <1>4, <2>1, <3>2, <3>3 DEF Headroom
  <2>4. \E y \in rooms : \A z \in rooms : y <= z
    BY <2>2, <2>3
  <2> HIDE DEF rooms
  <2> QED
    BY <2>4 DEF ArchiveHeadroom, Min, rooms
<1>6. ASSUME NEW t \in Resources PROVE Headroom(pool[t], reservations[t]) \in Int
  <2>1. ArchiveProviderReserve \in Nat
    BY QuotaAssumption DEF ArchiveProviderReserve, Larger
  <2>2. EffectiveRemaining(pool[t], reservations[t]) \in room
    OBVIOUS
  <2>3. EffectiveRemaining(pool[t], reservations[t]) \in Nat
    BY <1>1, <2>2
  <2> HIDE DEF room
  <2> QED
    BY <2>1, <2>3 DEF Headroom
<1> QED
  BY <1>5, <1>6

-----------------------------------------------------------------------------
(* Types. *)

\* A pool that may be reserved against shows a rate.
LEMMA UsableShowsRate ==
    ASSUME TypeOK, PoolsShowRates, PacingKnown, NEW s \in Resources
    PROVE  /\ [remaining |-> pool[s].remaining, reset |-> pool[s].reset] \in Rates
           /\ pool[s].reset \in Resets
           /\ ReservationCost(pool[s]) \in Nat
<1>1. pool[s] \in Pools /\ pool[s].known
  BY DEF TypeOK, PacingKnown, Usable
<1> QED
  BY <1>1, QuotaAssumption DEF PoolsShowRates, Rates, Resets, Pools, ReservationCost, Larger

LEMMA BeginTypes ==
    ASSUME TypeOK, PoolsShowRates, NEW r \in Requests, NEW s \in Resources,
           \/ \E kind \in {"user", "optional", "essential"} : BeginLive(r, kind, s)
           \/ \E a \in Admissions : BeginLocalArchive(r, a, s) \/ BeginArchive(r, a, s)
    PROVE  TypeOK'
<1>1. req[r] \in RequestTypes /\ Returned(req[r]) \in RequestTypes
  BY ReturnedType DEF TypeOK
<1>2. ASSUME NEW kind \in {"user", "optional", "essential"}, BeginLive(r, kind, s)
      PROVE  TypeOK'
  <2>1. [NoRequest EXCEPT !.at = Onward(kind), !.kind = kind, !.resource = s] \in RequestTypes
    BY NoRequestType DEF RequestTypes, Onward, Places, Kinds
  <2> QED
    BY <1>2, <2>1 DEF BeginLive, TypeOK
<1>3. ASSUME NEW a \in Admissions, BeginLocalArchive(r, a, s)
      PROVE  TypeOK'
  <2>1. [NoRequest EXCEPT !.at = "consume", !.kind = "local", !.resource = s,
                          !.admission = a, !.cost = 1] \in RequestTypes
    BY NoRequestType DEF RequestTypes, Places, Kinds
  <2> QED
    BY <1>3, <2>1 DEF BeginLocalArchive, TypeOK
<1>4. ASSUME NEW a \in Admissions, BeginArchive(r, a, s)
      PROVE  TypeOK'
  <2>1. CASE ~ReserveAllowed(s)
    BY <1>1, <1>4, <2>1 DEF BeginArchive, Return, TypeOK
  <2>2. CASE ReserveAllowed(s)
    <3> DEFINE q == [NoRequest EXCEPT !.at = "consume", !.kind = "archive", !.resource = s,
                        !.admission = a, !.cost = ReservationCost(pool[s]), !.holds = TRUE,
                        !.before = [remaining |-> pool[s].remaining, reset |-> pool[s].reset]]
    <3>1. /\ [remaining |-> pool[s].remaining, reset |-> pool[s].reset] \in Rates
          /\ pool[s].reset \in Resets
          /\ ReservationCost(pool[s]) \in Nat
      BY <2>2, UsableShowsRate DEF ReserveAllowed
    <3>2. q \in RequestTypes
      BY <3>1, NoRequestType DEF RequestTypes, Places, Kinds
    <3>3. ReserveAttempt(reservations[s], pool[s]) \in Reservations
      BY <3>1 DEF ReserveAttempt, Reservations, TypeOK
    <3>4. req' = [req EXCEPT ![r] = q]
      BY <1>4, <2>2 DEF BeginArchive
    <3>5. reservations' = [reservations EXCEPT ![s] = ReserveAttempt(reservations[s], pool[s])]
      BY <1>4, <2>2 DEF BeginArchive
    <3> HIDE DEF q
    <3> QED
      BY <1>4, <3>2, <3>3, <3>4, <3>5 DEF BeginArchive, TypeOK
  <2> QED
    BY <2>1, <2>2
<1> QED
  BY <1>2, <1>3, <1>4

\* Giving a reservation back leaves a count.
LEMMA ReleaseType ==
    ASSUME TypeOK, AttemptsCarry, NEW r \in Requests, Release(r)
    PROVE  reservations' \in [Resources -> Reservations]
<1> DEFINE q == req[r]
<1>1. q \in RequestTypes
  BY DEF TypeOK
<1>2. CASE q.holds
  <2>1. q.resource \in Resources /\ q.before.reset \in Resets /\ q.cost \in Nat
    BY <1>1, <1>2 DEF AttemptsCarry, Carries, Rates, RequestTypes
  <2>2. ReleaseReservation(reservations[q.resource], q.before.reset, q.cost) \in Reservations
    BY <2>1 DEF ReleaseReservation, Reservations, Larger, TypeOK
  <2> QED
    BY <1>2, <2>2 DEF Release, TypeOK
<1>3. CASE ~q.holds
  BY <1>3 DEF Release, TypeOK
<1> QED
  BY <1>2, <1>3

LEMMA ConsumeTypes ==
    ASSUME TypeOK, AttemptsCarry, NEW r \in Requests, ConsumeAllowance(r) \/ ConsumeRefused(r)
    PROVE  TypeOK'
<1> DEFINE q == req[r]
<1>1. q \in RequestTypes
  BY DEF TypeOK
<1>2. CASE ConsumeAllowance(r)
  <2>1. q.admission \in Admissions
    BY <1>2 DEF ConsumeAllowance, AttemptsCarry, Carries
  <2>2. allowance' \in [Admissions -> [granted : BOOLEAN, fromProvider : BOOLEAN, left : Nat]]
    BY <1>1, <1>2, <2>1 DEF ConsumeAllowance, TypeOK, RequestTypes
  <2>3. req' \in [Requests -> RequestTypes]
    BY <1>1, <1>2 DEF ConsumeAllowance, TypeOK, RequestTypes, Onward, Places
  <2> QED
    BY <1>2, <2>2, <2>3 DEF ConsumeAllowance, TypeOK
<1>3. CASE ConsumeRefused(r)
  <2>1. [q EXCEPT !.holds = FALSE] \in RequestTypes
    BY <1>1 DEF RequestTypes
  <2>2. req' \in [Requests -> RequestTypes]
    BY <1>3, <2>1, ReturnedType DEF ConsumeRefused, TypeOK
  <2> QED
    BY <1>3, <2>2, ReleaseType DEF ConsumeRefused, TypeOK
<1> QED
  BY <1>2, <1>3

\* The operators of the budget return budgets.
LEMMA BudgetTypes ==
    ASSUME NEW b \in Budgets
    PROVE  /\ ResetBudget(b) \in Budgets
           /\ RollLocked(b) \in Budgets
           /\ \A archive \in BOOLEAN : SpendOne(b, archive) \in Budgets
           /\ \A w, archive : RefundOne(b, w, archive) \in Budgets
           /\ \A limit \in Nat : SetLimit(b, limit) \in Budgets
           /\ \A limit \in Nat : NewSyncBudgetWithEssentialReserve(limit) \in Budgets
<1>1. ResetBudget(b) \in Budgets
  <2> DEFINE later == b.window + 1
             elapsed == FALSE
  <2>1. later \in Nat /\ elapsed \in BOOLEAN
    BY DEF Budgets
  <2>2. ResetBudget(b) = [b EXCEPT !.spent = 0, !.archiveSpent = 0, !.window = later,
                                   !.elapsed = elapsed]
    BY DEF ResetBudget
  <2> HIDE DEF later, elapsed
  <2>3. [b EXCEPT !.spent = 0, !.archiveSpent = 0, !.window = later,
          !.elapsed = elapsed] \in Budgets
    BY <2>1 DEF Budgets
  <2> QED
    BY <2>2, <2>3
<1>2. RollLocked(b) \in Budgets
  BY <1>1 DEF RollLocked
<1>3. \A archive \in BOOLEAN : SpendOne(b, archive) \in Budgets
  <2> SUFFICES ASSUME NEW archive \in BOOLEAN PROVE SpendOne(b, archive) \in Budgets
    OBVIOUS
  <2> DEFINE rolled == RollLocked(b)
             more == rolled.spent + 1
             counted == IF archive THEN rolled.archiveSpent + 1 ELSE rolled.archiveSpent
  <2>1. rolled \in Budgets
    BY <1>2
  <2>2. SpendOne(b, archive) = [rolled EXCEPT !.spent = more, !.archiveSpent = counted]
    BY DEF SpendOne
  <2> HIDE DEF rolled
  <2>3. more \in Nat /\ counted \in Nat
    BY <2>1 DEF Budgets
  <2> HIDE DEF more, counted
  <2> QED
    BY <2>1, <2>2, <2>3 DEF Budgets
<1>4. \A w, archive : RefundOne(b, w, archive) \in Budgets
  <2> SUFFICES ASSUME NEW w, NEW archive, w = b.window
               PROVE  RefundOne(b, w, archive) \in Budgets
    BY DEF RefundOne
  <2> DEFINE counted == IF archive THEN LessOne(b.archiveSpent) ELSE b.archiveSpent
  <2>1. LessOne(b.spent) \in Nat /\ LessOne(b.archiveSpent) \in Nat /\ b.archiveSpent \in Nat
    BY DEF LessOne, Budgets
  <2>2. counted \in Nat
    BY <2>1
  <2>3. RefundOne(b, w, archive) = [b EXCEPT !.spent = LessOne(b.spent), !.archiveSpent = counted]
    BY DEF RefundOne
  <2> HIDE DEF counted
  <2> QED
    BY <2>1, <2>2, <2>3 DEF Budgets
<1>5. \A limit \in Nat : SetLimit(b, limit) \in Budgets
  BY ReserveType DEF SetLimit, Budgets
<1>6. \A limit \in Nat : NewSyncBudgetWithEssentialReserve(limit) \in Budgets
  BY ReserveType DEF NewSyncBudgetWithEssentialReserve, Budgets
<1> QED
  BY <1>1, <1>2, <1>3, <1>4, <1>5, <1>6

LEMMA SpendTypes ==
    ASSUME TypeOK, NEW r \in Requests, SpendLocked(r) \/ Refund(r)
    PROVE  TypeOK'
<1> DEFINE q == req[r]
<1>1. q \in RequestTypes /\ Returned(q) \in RequestTypes /\ budget \in Budgets
  BY ReturnedType DEF TypeOK
<1>2. CASE SpendLocked(r)
  <2>1. budget' \in Budgets
    BY <1>1, <1>2, BudgetTypes DEF SpendLocked
  <2>2. budget'.window \in Nat
    BY <2>1 DEF Budgets
  <2>3. req' \in [Requests -> RequestTypes]
    BY <1>1, <1>2, <2>2 DEF SpendLocked, Return, TypeOK, RequestTypes, Places
  <2> QED
    BY <1>2, <2>1, <2>3 DEF SpendLocked, TypeOK
<1>3. CASE Refund(r)
  <2>1. budget' \in Budgets
    BY <1>1, <1>3, BudgetTypes DEF Refund
  <2>2. req' \in [Requests -> RequestTypes]
    BY <1>1, <1>3 DEF Refund, TypeOK, RequestTypes, Places
  <2> QED
    BY <1>3, <2>1, <2>2 DEF Refund, TypeOK
<1> QED
  BY <1>2, <1>3

LEMMA AnswerTypes ==
    ASSUME TypeOK, AttemptsCarry, NEW r \in Requests, NEW charge \in Nat, NEW headers \in BOOLEAN,
           NEW notModified \in BOOLEAN, Answer(r, charge, headers, notModified)
    PROVE  TypeOK'
<1> DEFINE q == req[r]
           s == q.resource
<1>1. q \in RequestTypes /\ s \in Resources
  BY DEF TypeOK, Answer, AttemptsCarry, Carries, Out
<1>2. provider[s] \in Rates /\ provider[s].remaining - charge \in 0 .. ProviderLimit
  BY <1>1, QuotaAssumption DEF TypeOK, Rates, Answer
<1>3. [provider[s] EXCEPT !.remaining = provider[s].remaining - charge] \in Rates
  BY <1>2 DEF Rates
<1>4. provider' = [provider EXCEPT ![s] = [provider[s] EXCEPT !.remaining = provider[s].remaining - charge]]
  BY DEF Answer
<1>5. provider' \in [Resources -> Rates]
  BY <1>1, <1>3, <1>4 DEF TypeOK
<1>6. req' \in [Requests -> RequestTypes]
  <2> DEFINE header == IF headers THEN provider'[s] ELSE NoRate
             at == IF Counted(q.kind) /\ notModified THEN "notModified" ELSE "observe"
  <2>1. header \in Rates \cup {NoRate} /\ at \in Places
    BY <1>1, <1>5 DEF Places
  <2>2. req' = [req EXCEPT ![r] = [q EXCEPT !.at = at, !.header = header]]
    BY <1>1 DEF Answer, TypeOK
  <2> HIDE DEF header, at
  <2>3. [q EXCEPT !.at = at, !.header = header] \in RequestTypes
    BY <1>1, <2>1 DEF RequestTypes
  <2> QED
    BY <2>2, <2>3 DEF TypeOK
<1> QED
  BY <1>5, <1>6 DEF Answer, TypeOK

\* The operators of the registry return pools.
LEMMA PoolTypes ==
    ASSUME NEW p \in Pools, NEW rate \in Rates
    PROVE  /\ ObserveHeaders(p, rate) \in Pools
           /\ UpdateSnapshot(p, rate) \in Pools
           /\ \A reset, cost : cost \in Nat => RaiseAttemptCost(p, reset, cost) \in Pools
<1> USE QuotaAssumption
<1>1. FreshPool(rate) \in Pools
  BY DEF FreshPool, Pools, Rates, Resets
<1>2. ObserveHeaders(p, rate) \in Pools
  <2> DEFINE cost == Larger(p.attemptCost, p.remaining - rate.remaining)
             left == rate.remaining
  <2>1. left \in Nat /\ p.remaining \in Nat /\ p.attemptCost \in Nat
    BY DEF Rates, Pools
  <2>2. cost \in Nat
    BY <2>1 DEF Larger
  <2>3. ObserveHeaders(p, rate) \in {p, FreshPool(rate), [p EXCEPT !.attemptCost = cost,
          !.remaining = left]}
    BY DEF ObserveHeaders
  <2> HIDE DEF cost, left
  <2>4. [p EXCEPT !.attemptCost = cost, !.remaining = left] \in Pools
    BY <2>1, <2>2 DEF Pools
  <2> QED
    BY <1>1, <2>3, <2>4
<1>3. UpdateSnapshot(p, rate) \in Pools
  BY <1>1 DEF UpdateSnapshot, Pools
<1>4. \A reset, cost : cost \in Nat => RaiseAttemptCost(p, reset, cost) \in Pools
  BY DEF RaiseAttemptCost, Pools
<1> QED
  BY <1>2, <1>3, <1>4

LEMMA ReservationsAfterType ==
    ASSUME NEW rs \in Reservations, NEW p, NEW rate
    PROVE  ReservationsAfter(rs, p, rate) \in Reservations
  BY DEF ReservationsAfter, ClearBefore, Reservations

LEMMA ObserveTypes ==
    ASSUME TypeOK, AttemptsCarry, NEW r \in Requests, Observe(r)
    PROVE  TypeOK'
<1> DEFINE q == req[r]
           s == q.resource
<1>1. q \in RequestTypes /\ Returned(q) \in RequestTypes /\ s \in Resources
  BY ReturnedType DEF TypeOK, Observe, AttemptsCarry, Carries, Out
<1>2. req' \in [Requests -> RequestTypes]
  BY <1>1 DEF Observe, TypeOK, RequestTypes, Places
<1>3. CASE q.header = NoRate
  BY <1>2, <1>3 DEF Observe, TypeOK
<1>4. CASE q.header # NoRate
  <2>1. q.header \in Rates
    BY <1>1, <1>4 DEF RequestTypes
  <2>2. ObserveHeaders(pool[s], q.header) \in Pools
    BY <1>1, <2>1, PoolTypes DEF TypeOK
  <2>3. ReservationsAfter(reservations[s], pool[s], q.header) \in Reservations
    BY <1>1, ReservationsAfterType DEF TypeOK
  <2> QED
    BY <1>1, <1>2, <1>4, <2>2, <2>3 DEF Observe, TypeOK
<1> QED
  BY <1>3, <1>4

LEMMA ReconcileTypes ==
    ASSUME TypeOK, AttemptsCarry, NEW r \in Requests, Reconcile(r)
    PROVE  TypeOK'
<1> DEFINE q == req[r]
<1>1. q \in RequestTypes
  BY DEF TypeOK
<1>2. req' \in [Requests -> RequestTypes]
  BY <1>1 DEF Reconcile, TypeOK, RequestTypes, Places
<1>3. reservations' \in [Resources -> Reservations]
  BY ReleaseType DEF Reconcile, TypeOK
<1> QED
  BY <1>2, <1>3 DEF Reconcile, TypeOK

LEMMA RaiseTypes ==
    ASSUME TypeOK, AttemptsCarry, NEW r \in Requests, RaiseCost(r)
    PROVE  TypeOK'
<1> USE QuotaAssumption
<1> DEFINE q == req[r]
           s == q.resource
           a == q.admission
           extra == ActualCost(q) - q.cost
<1>1. q \in RequestTypes /\ Returned(q) \in RequestTypes /\ q.at = "raise"
  BY ReturnedType DEF TypeOK, RaiseCost
<1>2. s \in Resources /\ a \in Admissions /\ q.before \in Rates
  BY <1>1 DEF AttemptsCarry, Carries, Out
<1>3. q.cost \in Nat /\ q.before.remaining \in Int /\ q.header \in Rates \cup {NoRate}
  BY <1>1, <1>2 DEF RequestTypes, Rates
<1>4. ActualCost(q) \in Nat
  <2>1. CASE q.header = NoRate
    BY <1>3, <2>1 DEF ActualCost
  <2>2. CASE q.header # NoRate
    <3>1. q.header.remaining \in Int /\ q.header.reset \in Int /\ q.before.reset \in Int
      BY <1>2, <1>3, <2>2 DEF Rates, Resets
    <3>2. \A n \in Int : Larger(q.cost, n) \in Nat
      BY <1>3 DEF Larger
    <3> QED
      BY <1>3, <2>2, <3>1, <3>2 DEF ActualCost
  <2> QED
    BY <2>1, <2>2
<1>5. pool' \in [Resources -> Pools]
  BY <1>2, <1>3, <1>4, PoolTypes DEF RaiseCost, TypeOK
<1>6. Larger(allowance[a].left - extra, 0) \in Nat
  BY <1>2, <1>3, <1>4 DEF Larger, TypeOK
<1>7. allowance' = [allowance EXCEPT ![a].left = Larger(allowance[a].left - extra, 0)]
  BY DEF RaiseCost
<1>8. allowance' \in [Admissions -> [granted : BOOLEAN, fromProvider : BOOLEAN, left : Nat]]
  <2> HIDE DEF a, extra
  <2> QED
    BY <1>2, <1>6, <1>7 DEF TypeOK
<1>9. req' \in [Requests -> RequestTypes]
  BY <1>1 DEF RaiseCost, Return, TypeOK
<1> QED
  BY <1>5, <1>8, <1>9 DEF RaiseCost, TypeOK

LEMMA AdmitTypes ==
    ASSUME TypeOK, PoolsShowRates, NEW a \in Admissions,
           AdmitOnProviderQuota(a) \/ AdmitOnLocalBudget(a)
    PROVE  TypeOK'
<1>1. ASSUME NEW fromProvider \in BOOLEAN, NEW left \in Nat, Grant(a, fromProvider, left)
      PROVE  allowance' \in [Admissions -> [granted : BOOLEAN, fromProvider : BOOLEAN, left : Nat]]
  BY <1>1 DEF Grant, TypeOK
<1>2. CASE AdmitOnProviderQuota(a)
  BY <1>1, <1>2, HeadroomType DEF AdmitOnProviderQuota, TypeOK
<1>3. CASE AdmitOnLocalBudget(a)
  <2>1. budget.limit \in Nat /\ budget.reserve \in Nat /\ budget.spent \in Nat
    BY DEF TypeOK, Budgets
  <2>2. LocalArchiveSpendAvailable(budget, LiveFloor) \in Nat
    BY <2>1, TransportAssumption DEF LocalArchiveSpendAvailable, OptionalLimit
  <2> QED
    BY <1>1, <1>3, <2>2 DEF AdmitOnLocalBudget, TypeOK
<1> QED
  BY <1>2, <1>3

LEMMA TransportTypesStep ==
    ASSUME TypeOK, AttemptsCarry, PoolsShowRates, [Next]_vars
    PROVE  TypeOK'
<1> USE QuotaAssumption, TransportAssumption
<1>1. ASSUME NEW r \in Requests, Attempt(r) PROVE TypeOK'
  BY <1>1, BeginTypes, ConsumeTypes, SpendTypes, ObserveTypes, ReconcileTypes, RaiseTypes
     DEF Attempt
<1>2. ASSUME NEW r \in Requests, Wire(r) PROVE TypeOK'
  <2>1. CASE Lose(r)
    <3>1. Returned(req[r]) \in RequestTypes
      BY ReturnedType DEF TypeOK
    <3> QED
      BY <2>1, <3>1 DEF Lose, Return, TypeOK
  <2> QED
    BY <1>2, <2>1, AnswerTypes DEF Wire
<1>3. ASSUME NEW a \in Admissions, AdmitOnProviderQuota(a) \/ AdmitOnLocalBudget(a) PROVE TypeOK'
  BY <1>3, AdmitTypes
<1>4. ASSUME NEW s \in Resources, WindowResets(s) PROVE TypeOK'
  <2>1. provider[s].reset \in Resets
    BY DEF TypeOK, Rates
  <2>2. [remaining |-> ProviderLimit, reset |-> provider[s].reset + 1] \in Rates
    BY <1>4, <2>1 DEF WindowResets, Rates, Resets
  <2> QED
    BY <1>4, <2>2 DEF WindowResets, TypeOK
<1>5. ASSUME NEW s \in Resources, NEW rate \in Rates, ApplySnapshot(s, rate) PROVE TypeOK'
  <2>1. UpdateSnapshot(pool[s], rate) \in Pools
    BY PoolTypes DEF TypeOK
  <2>2. ReservationsAfter(reservations[s], pool[s], rate) \in Reservations
    BY ReservationsAfterType DEF TypeOK
  <2> QED
    BY <1>5, <2>1, <2>2 DEF ApplySnapshot, TypeOK
<1>6. CASE HourElapses \/ ProviderWindowReset \/ \E limit \in BudgetLimits : SetBudgetLimit(limit)
  <2>1. budget \in Budgets
    BY DEF TypeOK
  <2>2. [budget EXCEPT !.elapsed = TRUE] \in Budgets
    BY <2>1 DEF Budgets
  <2>3. budget' \in Budgets
    BY <1>6, <2>1, <2>2, BudgetTypes DEF HourElapses, ProviderWindowReset, SetBudgetLimit
  <2> QED
    BY <1>6, <2>3 DEF HourElapses, ProviderWindowReset, SetBudgetLimit, TypeOK
<1>7. CASE UNCHANGED vars
  BY <1>7 DEF vars, TypeOK
<1> QED
  BY <1>1, <1>2, <1>3, <1>4, <1>5, <1>6, <1>7 DEF Next

-----------------------------------------------------------------------------
(* What attempts carry, what pools show, which ceiling is set. *)

LEMMA ReturnedCarries ==
    ASSUME NEW q \in RequestTypes, Carries(q)
    PROVE  Carries(Returned(q))
<1>1. CASE q.holds
  BY <1>1 DEF Returned, RequestTypes, Carries, Out
<1>2. CASE ~q.holds
  BY <1>2 DEF Returned, NoRequest, Carries, Out
<1> QED
  BY <1>1, <1>2

\* One attempt moves, to a state that carries what it should.
Moved(r) == \E q : Carries(q) /\ req' = [req EXCEPT ![r] = q]

LEMMA AttemptMoves ==
    ASSUME TypeOK, AttemptsCarry, PoolsShowRates, NEW r \in Requests, Attempt(r)
    PROVE  Moved(r)
<1> DEFINE q == req[r]
<1>1. q \in RequestTypes /\ Carries(q) /\ Carries(Returned(q))
  BY ReturnedCarries DEF TypeOK, AttemptsCarry
<1>2. ASSUME NEW kind \in {"user", "optional", "essential"}, NEW s \in Resources,
             BeginLive(r, kind, s)
      PROVE  Moved(r)
  <2>1. Carries([NoRequest EXCEPT !.at = Onward(kind), !.kind = kind, !.resource = s])
    BY DEF NoRequest, Carries, Onward, Counted, Out
  <2> QED
    BY <1>2, <2>1 DEF BeginLive, Moved
<1>3. ASSUME NEW a \in Admissions, NEW s \in Resources, BeginLocalArchive(r, a, s)
      PROVE  Moved(r)
  <2>1. Carries([NoRequest EXCEPT !.at = "consume", !.kind = "local", !.resource = s,
                                  !.admission = a, !.cost = 1])
    BY DEF NoRequest, Carries, Out
  <2> QED
    BY <1>3, <2>1 DEF BeginLocalArchive, Moved
<1>4. ASSUME NEW a \in Admissions, NEW s \in Resources, BeginArchive(r, a, s)
      PROVE  Moved(r)
  <2>1. CASE ~ReserveAllowed(s)
    BY <1>1, <1>4, <2>1 DEF BeginArchive, Return, Moved
  <2>2. CASE ReserveAllowed(s)
    <3> DEFINE sent == [NoRequest EXCEPT !.at = "consume", !.kind = "archive", !.resource = s,
                        !.admission = a, !.cost = ReservationCost(pool[s]), !.holds = TRUE,
                        !.before = [remaining |-> pool[s].remaining, reset |-> pool[s].reset]]
    <3>1. [remaining |-> pool[s].remaining, reset |-> pool[s].reset] \in Rates
      BY <2>2, UsableShowsRate DEF ReserveAllowed
    <3>2. Carries(sent)
      BY <3>1 DEF NoRequest, Carries, Out
    <3>3. req' = [req EXCEPT ![r] = sent]
      BY <1>4, <2>2 DEF BeginArchive
    <3> QED
      BY <3>2, <3>3 DEF Moved
  <2> QED
    BY <2>1, <2>2
<1>5. CASE ConsumeAllowance(r)
  <2>1. req' = [req EXCEPT ![r] = [q EXCEPT !.at = Onward(q.kind)]]
    BY <1>5 DEF ConsumeAllowance, TypeOK
  <2>2. Carries([q EXCEPT !.at = Onward(q.kind)])
    BY <1>1, <1>5 DEF ConsumeAllowance, Carries, RequestTypes, Onward, Counted, Out
  <2> QED
    BY <2>1, <2>2 DEF Moved
<1>6. CASE ConsumeRefused(r)
  <2>1. req' = [req EXCEPT ![r] = Returned([q EXCEPT !.holds = FALSE])]
    BY <1>6 DEF ConsumeRefused
  <2>2. [q EXCEPT !.holds = FALSE] \in RequestTypes
    BY <1>1 DEF RequestTypes
  <2>3. Carries([q EXCEPT !.holds = FALSE])
    <3> HIDE DEF q
    <3> QED
      BY <1>1 DEF Carries, RequestTypes, Out
  <2> QED
    BY <2>1, <2>2, <2>3, ReturnedCarries DEF Moved
<1>7. CASE SpendLocked(r)
  <2>1. CASE ~Spends(budget, q.kind = "essential")
    BY <1>1, <1>7, <2>1 DEF SpendLocked, Return, Moved
  <2>2. CASE Spends(budget, q.kind = "essential")
    <3> DEFINE window == budget'.window
    <3>1. window # NoWindow
      <4>1. budget' \in Budgets
        BY <1>7, <2>2, BudgetTypes DEF SpendLocked, TypeOK
      <4> QED
        BY <4>1, TransportAssumption DEF Budgets
    <3>2. req' = [req EXCEPT ![r] = [q EXCEPT !.at = "wire", !.window = window]]
      BY <1>7, <2>2 DEF SpendLocked, TypeOK
    <3>3. q.at = "spend"
      BY <1>7 DEF SpendLocked
    <3> HIDE DEF window
    <3>4. Carries([q EXCEPT !.at = "wire", !.window = window])
      BY <1>1, <3>1, <3>3 DEF Carries, RequestTypes, Out
    <3> QED
      BY <3>2, <3>4 DEF Moved
  <2> QED
    BY <2>1, <2>2
<1>8. CASE Refund(r)
  <2>1. req' = [req EXCEPT ![r] = [q EXCEPT !.at = "observe", !.refunded = TRUE]]
    BY <1>8 DEF Refund, TypeOK
  <2>2. Carries([q EXCEPT !.at = "observe", !.refunded = TRUE])
    BY <1>1, <1>8 DEF Refund, Carries, RequestTypes, Counted, Out
  <2> QED
    BY <2>1, <2>2 DEF Moved
<1>9. CASE Observe(r)
  <2>1. q.kind = "archive" => Carries([q EXCEPT !.at = "reconcile"])
    BY <1>1, <1>9 DEF Observe, Carries, RequestTypes, Out
  <2> QED
    BY <1>1, <1>9, <2>1 DEF Observe, Moved
<1>10. CASE Reconcile(r)
  <2>1. \/ req' = [req EXCEPT ![r] = [q EXCEPT !.at = "raise", !.holds = FALSE]]
        \/ req' = [req EXCEPT ![r] = [q EXCEPT !.at = "raise"]]
    BY <1>10 DEF Reconcile, TypeOK
  <2>2. /\ Carries([q EXCEPT !.at = "raise", !.holds = FALSE])
        /\ Carries([q EXCEPT !.at = "raise"])
    BY <1>1, <1>10 DEF Reconcile, Carries, RequestTypes, Out
  <2> QED
    BY <2>1, <2>2 DEF Moved
<1>11. CASE RaiseCost(r)
  BY <1>1, <1>11 DEF RaiseCost, Return, Moved
<1> QED
  BY <1>2, <1>3, <1>4, <1>5, <1>6, <1>7, <1>8, <1>9, <1>10, <1>11 DEF Attempt

LEMMA WireMoves ==
    ASSUME TypeOK, AttemptsCarry, NEW r \in Requests, Wire(r)
    PROVE  Moved(r)
<1> DEFINE q == req[r]
<1>1. q \in RequestTypes /\ Carries(q) /\ Carries(Returned(q))
  BY ReturnedCarries DEF TypeOK, AttemptsCarry
<1>2. ASSUME NEW charge \in 0 .. MaxCost, NEW headers \in BOOLEAN, NEW notModified \in BOOLEAN,
             Answer(r, charge, headers, notModified)
      PROVE  Moved(r)
  <2> DEFINE header == IF headers THEN provider'[q.resource] ELSE NoRate
             at == IF Counted(q.kind) /\ notModified THEN "notModified" ELSE "observe"
  <2>1. req' = [req EXCEPT ![r].at = at, ![r].header = header] /\ q.at = "wire"
    BY <1>2 DEF Answer
  <2>2. at \in {"notModified", "observe"} /\ (at = "notModified" => Counted(q.kind))
    OBVIOUS
  <2> HIDE DEF at, header
  <2>3. req' = [req EXCEPT ![r] = [q EXCEPT !.at = at, !.header = header]]
    BY <2>1 DEF TypeOK
  <2>4. Carries([q EXCEPT !.at = at, !.header = header])
    BY <1>1, <2>1, <2>2 DEF Carries, RequestTypes, Out
  <2> QED
    BY <2>3, <2>4 DEF Moved
<1>3. CASE Lose(r)
  BY <1>1, <1>3 DEF Lose, Return, Moved
<1> QED
  BY <1>2, <1>3 DEF Wire

LEMMA CarriesStep ==
    ASSUME TypeOK, AttemptsCarry, PoolsShowRates, [Next]_vars
    PROVE  AttemptsCarry'
<1>1. req' = req \/ \E r \in Requests : Moved(r)
  BY AttemptMoves, WireMoves
     DEF Next, AdmitOnProviderQuota, AdmitOnLocalBudget, WindowResets, ApplySnapshot, HourElapses,
         ProviderWindowReset, SetBudgetLimit, vars
<1>2. CASE req' = req
  BY <1>2 DEF AttemptsCarry, Carries, Counted
<1>3. ASSUME NEW r \in Requests, Moved(r) PROVE AttemptsCarry'
  <2>1. PICK q : Carries(q) /\ req' = [req EXCEPT ![r] = q]
    BY <1>3 DEF Moved
  <2>2. \A p \in Requests : Carries(req'[p])
    BY <2>1 DEF AttemptsCarry, TypeOK
  <2> QED
    BY <2>2 DEF AttemptsCarry, Carries, Counted
<1> QED
  BY <1>1, <1>2, <1>3

LEMMA PoolsStep ==
    ASSUME TypeOK, AttemptsCarry, PoolsShowRates, [Next]_vars
    PROVE  PoolsShowRates'
<1> DEFINE Shows(p) == IF p.known THEN p.remaining <= ProviderLimit /\ p.reset \in Resets
                                  ELSE p.reset = 0
<1>1. \A s \in Resources : pool[s] \in Pools /\ Shows(pool[s])
  BY DEF TypeOK, PoolsShowRates
<1>2. ASSUME NEW p \in Pools, Shows(p), NEW rate \in Rates
      PROVE  Shows(ObserveHeaders(p, rate)) /\ Shows(UpdateSnapshot(p, rate))
  <2>1. rate.remaining \in Nat /\ rate.remaining <= ProviderLimit /\ rate.reset \in Resets
    BY QuotaAssumption DEF Rates
  <2>2. FreshPool(rate).known /\ Shows(FreshPool(rate))
    BY <2>1 DEF FreshPool
  <2>3. Shows(ObserveHeaders(p, rate))
    <3>1. CASE ObserveHeaders(p, rate) \in {p, FreshPool(rate)}
      BY <1>2, <2>2, <3>1
    <3>2. CASE p.known /\ ObserveHeaders(p, rate) =
                 [p EXCEPT !.attemptCost = Larger(@, p.remaining - rate.remaining),
                           !.remaining = rate.remaining]
      BY <1>2, <2>1, <3>2 DEF Pools
    <3> QED
      BY <3>1, <3>2 DEF ObserveHeaders
  <2>4. Shows(UpdateSnapshot(p, rate))
    BY <1>2, <2>1 DEF UpdateSnapshot, FreshPool
  <2> QED
    BY <2>3, <2>4
<1>3. ASSUME NEW p \in Pools, Shows(p), NEW reset, NEW cost
      PROVE  Shows(RaiseAttemptCost(p, reset, cost))
  BY <1>3 DEF RaiseAttemptCost, Pools
<1>4. ASSUME NEW s \in Resources, NEW p, Shows(p), pool' = [pool EXCEPT ![s] = p]
      PROVE  PoolsShowRates'
  <2> HIDE DEF Shows
  <2>1. \A t \in Resources : Shows(pool'[t])
    BY <1>1, <1>4 DEF TypeOK
  <2> QED
    BY <2>1 DEF Shows, PoolsShowRates
<1>5. CASE pool' = pool
  BY <1>5 DEF PoolsShowRates
<1> HIDE DEF Shows
<1>6. ASSUME NEW r \in Requests, Observe(r) PROVE PoolsShowRates'
  <2>1. req[r] \in RequestTypes /\ req[r].resource \in Resources
    BY <1>6 DEF Observe, TypeOK, AttemptsCarry, Carries, Out
  <2>2. CASE req[r].header = NoRate
    BY <1>5, <1>6, <2>2 DEF Observe
  <2>3. CASE req[r].header # NoRate
    <3>1. req[r].header \in Rates
      BY <2>1, <2>3 DEF RequestTypes
    <3> QED
      BY <1>1, <1>2, <1>4, <1>6, <2>1, <2>3, <3>1 DEF Observe
  <2> QED
    BY <2>2, <2>3
<1>7. ASSUME NEW r \in Requests, RaiseCost(r) PROVE PoolsShowRates'
  <2>1. req[r].resource \in Resources
    BY <1>7 DEF RaiseCost, TypeOK, AttemptsCarry, Carries, Out
  <2> QED
    BY <1>1, <1>3, <1>4, <1>5, <1>7, <2>1 DEF RaiseCost
<1>8. ASSUME NEW s \in Resources, NEW rate \in Rates, ApplySnapshot(s, rate) PROVE PoolsShowRates'
  BY <1>1, <1>2, <1>4, <1>8 DEF ApplySnapshot
<1>9. ASSUME NEW r \in Requests, Attempt(r) \/ Wire(r), ~Observe(r), ~RaiseCost(r)
      PROVE  pool' = pool
  BY <1>9 DEF Attempt, Wire, BeginLive, BeginLocalArchive, BeginArchive, ConsumeAllowance,
              ConsumeRefused, SpendLocked, Refund, Reconcile, Answer, Lose
<1> QED
  BY <1>5, <1>6, <1>7, <1>8, <1>9
     DEF Next, Attempt, AdmitOnProviderQuota, AdmitOnLocalBudget, WindowResets, HourElapses,
         ProviderWindowReset, SetBudgetLimit, vars

-----------------------------------------------------------------------------
(* The budget: what a step does to it and to the requests that weigh on it. *)

\* The attempt weighs what it weighed.
StaysPut(p) ==
    /\ req'[p].window = req[p].window /\ req'[p].refunded = req[p].refunded
    /\ req[p].window # NoWindow => req'[p].kind = req[p].kind

\* The ways a step deals with the budget: it leaves the counts alone, opens a
\* window, spends one request or refunds one.
CountsStay ==
    /\ budget'.spent = budget.spent /\ budget'.archiveSpent = budget.archiveSpent
    /\ budget'.window = budget.window
    /\ \A p \in Requests : StaysPut(p)

WindowOpens ==
    /\ budget' \in {ResetBudget(budget), RollLocked(budget)} /\ budget'.window = budget.window + 1
    /\ budget'.spent = 0 /\ budget'.archiveSpent = 0
    /\ \A p \in Requests : StaysPut(p)

Spent(r) ==
    /\ Spends(budget, req[r].kind = "essential")
    /\ budget' = SpendOne(budget, req[r].kind = "local")
    /\ req[r].window = NoWindow /\ ~req[r].refunded
    /\ req'[r].window = RollLocked(budget).window /\ ~req'[r].refunded
    /\ req'[r].kind = req[r].kind
    /\ \A p \in Requests \ {r} : StaysPut(p)

Refunded(r) ==
    /\ budget' = RefundOne(budget, req[r].window, req[r].kind = "local")
    /\ req[r].window \in Nat /\ ~req[r].refunded
    /\ req'[r].refunded /\ req'[r].window = req[r].window /\ req'[r].kind = req[r].kind
    /\ \A p \in Requests \ {r} : StaysPut(p)

\* An attempt that is not spent or refunded weighs what it weighed.
LEMMA OthersStayPut ==
    ASSUME TypeOK, AttemptsCarry, NEW r \in Requests, Attempt(r) \/ Wire(r), budget' = budget,
           ~Refund(r), ~SpendLocked(r)
    PROVE  \A p \in Requests : StaysPut(p)
<1> DEFINE q == req[r]
           Same(x) == /\ x.window = q.window /\ x.refunded = q.refunded
                      /\ q.window # NoWindow => x.kind = q.kind
<1>1. q \in RequestTypes /\ Carries(q)
  BY DEF TypeOK, AttemptsCarry
<1>2. \A kind, s, a, cost, before, holds, at :
        q.at = "idle" => Same([at |-> at, kind |-> kind, resource |-> s, admission |-> a,
                               cost |-> cost, before |-> before, holds |-> holds,
                               window |-> NoWindow, refunded |-> FALSE, header |-> NoRate])
  <2> DEFINE no == FALSE
  <2>1. q.at = "idle" => q.window = NoWindow /\ q.refunded = no
    BY <1>1 DEF Carries, RequestTypes
  <2> HIDE DEF no, q
  <2>2. \A kind, s, a, cost, before, holds, at :
          q.at = "idle" => Same([at |-> at, kind |-> kind, resource |-> s, admission |-> a,
                                 cost |-> cost, before |-> before, holds |-> holds,
                                 window |-> NoWindow, refunded |-> no, header |-> NoRate])
    BY <2>1
  <2> QED
    BY <2>2 DEF no
<1>3. Same(Returned(q))
  BY <1>1 DEF Returned, NoRequest, RequestTypes
<1>4. ASSUME NEW x, Same(x), req' = [req EXCEPT ![r] = x]
      PROVE  \A p \in Requests : StaysPut(p)
  BY <1>4 DEF StaysPut, TypeOK
<1>5. CASE \E kind \in {"user", "optional", "essential"}, s \in Resources : BeginLive(r, kind, s)
  BY <1>2, <1>4, <1>5 DEF BeginLive, NoRequest
<1>6. ASSUME NEW a \in Admissions, NEW s \in Resources, BeginLocalArchive(r, a, s)
      PROVE  \A p \in Requests : StaysPut(p)
  BY <1>2, <1>4, <1>6 DEF BeginLocalArchive, NoRequest
<1>7. ASSUME NEW a \in Admissions, NEW s \in Resources, BeginArchive(r, a, s)
      PROVE  \A p \in Requests : StaysPut(p)
  <2>1. CASE ReserveAllowed(s)
    BY <1>2, <1>4, <1>7, <2>1 DEF BeginArchive, NoRequest
  <2>2. CASE ~ReserveAllowed(s)
    BY <1>3, <1>4, <1>7, <2>2 DEF BeginArchive, Return
  <2> QED
    BY <2>1, <2>2
<1>8. CASE ConsumeAllowance(r)
  BY <1>1, <1>8 DEF ConsumeAllowance, StaysPut, TypeOK, RequestTypes
<1>9. CASE ConsumeRefused(r)
  <2>1. Same(Returned([q EXCEPT !.holds = FALSE]))
    BY <1>1 DEF Returned, NoRequest, RequestTypes
  <2> HIDE DEF Same
  <2> QED
    BY <1>4, <1>9, <2>1 DEF ConsumeRefused
<1>10. CASE Observe(r)
  <2>1. Same([q EXCEPT !.at = "reconcile"])
    BY <1>1 DEF RequestTypes
  <2> HIDE DEF Same
  <2> QED
    BY <1>3, <1>4, <1>10, <2>1 DEF Observe
<1>11. CASE Reconcile(r)
  BY <1>1, <1>11 DEF Reconcile, StaysPut, TypeOK, RequestTypes
<1>12. CASE RaiseCost(r) \/ Lose(r)
  BY <1>3, <1>4, <1>12 DEF RaiseCost, Lose, Return
<1>13. ASSUME NEW charge \in 0 .. MaxCost, NEW headers \in BOOLEAN, NEW notModified \in BOOLEAN,
              Answer(r, charge, headers, notModified)
       PROVE  \A p \in Requests : StaysPut(p)
  <2> DEFINE header == IF headers THEN provider'[q.resource] ELSE NoRate
             at == IF Counted(q.kind) /\ notModified THEN "notModified" ELSE "observe"
  <2>1. req' = [req EXCEPT ![r].at = at, ![r].header = header]
    BY <1>13 DEF Answer
  <2> HIDE DEF at, header
  <2> QED
    BY <1>1, <2>1 DEF StaysPut, TypeOK, RequestTypes
<1> QED
  BY <1>5, <1>6, <1>7, <1>8, <1>9, <1>10, <1>11, <1>12, <1>13 DEF Attempt, Wire

LEMMA BudgetMoves ==
    ASSUME TypeOK, AttemptsCarry, [Next]_vars
    PROVE  CountsStay \/ WindowOpens \/ \E r \in Requests : Spent(r) \/ Refunded(r)
<1>1. budget \in Budgets
  BY DEF TypeOK
<1>2. CASE req' = req
  <2>1. \A p \in Requests : StaysPut(p)
    BY <1>2 DEF StaysPut
  <2>2. CASE UNCHANGED vars \/ HourElapses \/ budget' = budget
    BY <1>1, <2>1, <2>2 DEF vars, HourElapses, CountsStay, Budgets
  <2>3. CASE ProviderWindowReset
    <3>1. budget' = ResetBudget(budget)
      BY <2>3 DEF ProviderWindowReset
    <3>2. budget'.window = budget.window + 1 /\ budget'.spent = 0 /\ budget'.archiveSpent = 0
      BY <1>1, <3>1 DEF ResetBudget, Budgets
    <3> QED
      BY <2>1, <3>1, <3>2 DEF WindowOpens
  <2>4. ASSUME NEW limit \in BudgetLimits, SetBudgetLimit(limit)
        PROVE  CountsStay
    BY <1>1, <2>1, <2>4 DEF SetBudgetLimit, SetLimit, CountsStay, Budgets
  <2>5. ASSUME NEW r \in Requests, SpendLocked(r) \/ Refund(r)
        PROVE  FALSE
    <3>1. req[r] \in RequestTypes
      BY DEF TypeOK
    <3>2. Returned(req[r]).at = "done"
      BY <3>1 DEF Returned, NoRequest, RequestTypes
    <3> QED
      BY <1>2, <2>5, <3>1, <3>2 DEF SpendLocked, Refund, Return, TypeOK, RequestTypes
  <2>6. ASSUME NEW r \in Requests, Attempt(r) \/ Wire(r) PROVE budget' = budget
    BY <2>5, <2>6
       DEF Attempt, Wire, BeginLive, BeginLocalArchive, BeginArchive, ConsumeAllowance,
           ConsumeRefused, Observe, Reconcile, RaiseCost, Answer, Lose
  <2>7. \/ UNCHANGED vars \/ HourElapses \/ budget' = budget
        \/ ProviderWindowReset \/ \E limit \in BudgetLimits : SetBudgetLimit(limit)
    BY <2>6 DEF Next, AdmitOnProviderQuota, AdmitOnLocalBudget, WindowResets, ApplySnapshot
  <2> QED
    BY <2>2, <2>3, <2>4, <2>7
<1>3. ASSUME NEW r \in Requests, SpendLocked(r)
      PROVE  CountsStay \/ WindowOpens \/ Spent(r)
  <2> DEFINE q == req[r]
  <2>1. q \in RequestTypes /\ q.at = "spend" /\ q.window = NoWindow /\ ~q.refunded
    BY <1>3 DEF SpendLocked, TypeOK, AttemptsCarry, Carries
  <2>2. CASE Spends(budget, q.kind = "essential")
    <3> DEFINE window == budget'.window
    <3>1. budget' = SpendOne(budget, q.kind = "local")
      BY <1>3, <2>2 DEF SpendLocked
    <3>2. RollLocked(budget) \in Budgets
      BY <1>1, BudgetTypes
    <3>3. window = RollLocked(budget).window
      BY <3>1, <3>2 DEF SpendOne, Budgets
    <3>4. req' = [req EXCEPT ![r].at = "wire", ![r].window = window]
      BY <1>3, <2>2 DEF SpendLocked
    <3> HIDE DEF window
    <3>5. /\ req'[r].window = window /\ ~req'[r].refunded /\ req'[r].kind = q.kind
          /\ \A p \in Requests \ {r} : StaysPut(p)
      BY <2>1, <3>4 DEF TypeOK, RequestTypes, StaysPut
    <3> QED
      BY <2>1, <2>2, <3>1, <3>3, <3>5 DEF Spent
  <2>3. CASE ~Spends(budget, q.kind = "essential")
    <3>1. budget' = RollLocked(budget) /\ req' = [req EXCEPT ![r] = Returned(q)]
      BY <1>3, <2>3 DEF SpendLocked, Return
    <3>2. Returned(q).window = q.window /\ Returned(q).refunded = q.refunded
      BY <2>1 DEF Returned, NoRequest, RequestTypes
    <3>3. \A p \in Requests : StaysPut(p)
      BY <2>1, <3>1, <3>2 DEF StaysPut, TypeOK
    <3>4. CASE budget.elapsed
      <4>1. budget'.window = budget.window + 1 /\ budget'.spent = 0 /\ budget'.archiveSpent = 0
        BY <1>1, <3>1, <3>4 DEF RollLocked, ResetBudget, Budgets
      <4> QED
        BY <3>1, <3>3, <4>1 DEF WindowOpens
    <3>5. CASE ~budget.elapsed
      BY <3>1, <3>3, <3>5 DEF RollLocked, CountsStay
    <3> QED
      BY <3>4, <3>5
  <2> QED
    BY <2>2, <2>3
<1>4. ASSUME NEW r \in Requests, Refund(r)
      PROVE  Refunded(r)
  <2> DEFINE q == req[r]
  <2>1. /\ q \in RequestTypes /\ ~q.refunded /\ q.window \in Nat
        /\ budget' = RefundOne(budget, q.window, q.kind = "local")
        /\ req' = [req EXCEPT ![r].at = "observe", ![r].refunded = TRUE]
    BY <1>4 DEF Refund, TypeOK, AttemptsCarry, Carries, RequestTypes
  <2> DEFINE yes == TRUE
  <2>2. req' = [req EXCEPT ![r].at = "observe", ![r].refunded = yes] /\ yes
    BY <2>1
  <2> HIDE DEF yes
  <2>3. /\ req'[r].refunded /\ req'[r].window = q.window /\ req'[r].kind = q.kind
        /\ \A p \in Requests \ {r} : StaysPut(p)
    BY <2>1, <2>2 DEF TypeOK, RequestTypes, StaysPut
  <2> QED
    BY <2>1, <2>3 DEF Refunded
<1>5. ASSUME NEW r \in Requests, Attempt(r) \/ Wire(r), ~Refund(r), ~SpendLocked(r)
      PROVE  CountsStay
  <2>1. budget' = budget
    BY <1>5 DEF Attempt, Wire, BeginLive, BeginLocalArchive, BeginArchive, ConsumeAllowance,
                ConsumeRefused, Observe, Reconcile, RaiseCost, Answer, Lose
  <2> QED
    BY <1>5, <2>1, OthersStayPut DEF CountsStay
<1> QED
  BY <1>2, <1>3, <1>4, <1>5
     DEF Next, AdmitOnProviderQuota, AdmitOnLocalBudget, WindowResets, ApplySnapshot, HourElapses,
         ProviderWindowReset, SetBudgetLimit, vars

-----------------------------------------------------------------------------
(* The counts are exact and the ceiling holds. *)

LEMMA RollKeepsLimit ==
    ASSUME NEW b \in Budgets
    PROVE  /\ RollLocked(b).limit = b.limit /\ RollLocked(b).reserve = b.reserve
           /\ \/ ~b.elapsed /\ RollLocked(b) = b
              \/ /\ b.elapsed /\ RollLocked(b).window = b.window + 1
                 /\ RollLocked(b).spent = 0 /\ RollLocked(b).archiveSpent = 0
<1> DEFINE later == b.window + 1
           no == FALSE
<1>1. ResetBudget(b) = [b EXCEPT !.spent = 0, !.archiveSpent = 0, !.window = later, !.elapsed = no]
  BY DEF ResetBudget
<1> HIDE DEF no, later
<1>2. /\ ResetBudget(b).limit = b.limit /\ ResetBudget(b).reserve = b.reserve
      /\ ResetBudget(b).window = later /\ ResetBudget(b).spent = 0
           /\ ResetBudget(b).archiveSpent = 0
  BY <1>1 DEF Budgets
<1> QED
  BY <1>2 DEF RollLocked, later

LEMMA LimitStep ==
    ASSUME TypeOK, LimitIsSet, [Next]_vars
    PROVE  LimitIsSet'
<1>1. budget \in Budgets
  BY DEF TypeOK
<1>2. \/ budget'.limit = budget.limit /\ budget'.reserve = budget.reserve
      \/ \E limit \in BudgetLimits : SetBudgetLimit(limit)
  <2>1. CASE budget' = budget
    BY <2>1
  <2>2. CASE HourElapses
    BY <1>1, <2>2 DEF HourElapses, Budgets
  <2>3. CASE ProviderWindowReset
    BY <1>1, <2>3 DEF ProviderWindowReset, ResetBudget, Budgets
  <2>4. ASSUME NEW r \in Requests, SpendLocked(r) \/ Refund(r)
        PROVE  budget'.limit = budget.limit /\ budget'.reserve = budget.reserve
    <3>1. RollLocked(budget) \in Budgets /\ RollLocked(budget).limit = budget.limit
          /\ RollLocked(budget).reserve = budget.reserve
      BY <1>1, BudgetTypes, RollKeepsLimit
    <3>2. ASSUME NEW archive PROVE /\ SpendOne(budget, archive).limit = budget.limit
                                   /\ SpendOne(budget, archive).reserve = budget.reserve
      BY <3>1 DEF SpendOne, Budgets
    <3>3. ASSUME NEW w, NEW archive PROVE /\ RefundOne(budget, w, archive).limit = budget.limit
                                          /\ RefundOne(budget, w, archive).reserve = budget.reserve
      BY <1>1 DEF RefundOne, Budgets
    <3> QED
      BY <2>4, <3>1, <3>2, <3>3 DEF SpendLocked, Refund
  <2>5. ASSUME NEW r \in Requests, Attempt(r) \/ Wire(r), ~SpendLocked(r), ~Refund(r)
        PROVE  budget' = budget
    BY <2>5 DEF Attempt, Wire, BeginLive, BeginLocalArchive, BeginArchive, ConsumeAllowance,
                ConsumeRefused, Observe, Reconcile, RaiseCost, Answer, Lose
  <2> QED
    BY <2>1, <2>2, <2>3, <2>4, <2>5
       DEF Next, AdmitOnProviderQuota, AdmitOnLocalBudget, WindowResets, ApplySnapshot, vars
<1>3. ASSUME NEW limit \in BudgetLimits, SetBudgetLimit(limit)
      PROVE  budget'.limit \in BudgetLimits /\ budget'.reserve = EssentialReserve(budget'.limit)
  BY <1>1, <1>3 DEF SetBudgetLimit, SetLimit, Budgets
<1> QED
  BY <1>2, <1>3 DEF LimitIsSet

\* What spending and refunding do to the counts.
LEMMA BudgetFields ==
    ASSUME NEW b \in Budgets, NEW archive \in BOOLEAN
    PROVE  /\ SpendOne(b, archive).window = RollLocked(b).window
           /\ SpendOne(b, archive).spent = RollLocked(b).spent + 1
           /\ SpendOne(b, archive).archiveSpent =
                IF archive THEN RollLocked(b).archiveSpent + 1 ELSE RollLocked(b).archiveSpent
           /\ RefundOne(b, b.window, archive).window = b.window
           /\ RefundOne(b, b.window, archive).spent = LessOne(b.spent)
           /\ RefundOne(b, b.window, archive).archiveSpent =
                IF archive THEN LessOne(b.archiveSpent) ELSE b.archiveSpent
<1> DEFINE rolled == RollLocked(b)
           more == rolled.spent + 1
           counted == IF archive THEN rolled.archiveSpent + 1 ELSE rolled.archiveSpent
           less == LessOne(b.spent)
           uncounted == IF archive THEN LessOne(b.archiveSpent) ELSE b.archiveSpent
<1>1. rolled \in Budgets
  BY BudgetTypes
<1>2. SpendOne(b, archive) = [rolled EXCEPT !.spent = more, !.archiveSpent = counted]
  BY DEF SpendOne
<1>3. RefundOne(b, b.window, archive) = [b EXCEPT !.spent = less, !.archiveSpent = uncounted]
  BY DEF RefundOne
<1> HIDE DEF more, counted, less, uncounted, rolled
<1>4. /\ SpendOne(b, archive).window = rolled.window
      /\ SpendOne(b, archive).spent = more /\ SpendOne(b, archive).archiveSpent = counted
  BY <1>1, <1>2 DEF Budgets
<1>5. /\ RefundOne(b, b.window, archive).window = b.window
      /\ RefundOne(b, b.window, archive).spent = less
      /\ RefundOne(b, b.window, archive).archiveSpent = uncounted
  BY <1>3 DEF Budgets
<1> QED
  BY <1>4, <1>5 DEF more, counted, less, uncounted, rolled

LEMMA OpenedStep ==
    ASSUME TypeOK, AttemptsCarry, WindowsOpened, [Next]_vars
    PROVE  WindowsOpened'
<1>1. budget \in Budgets /\ budget.window \in Nat
  BY DEF TypeOK, Budgets
<1>2. \A r \in Requests : req[r].window \in Nat \cup {NoWindow}
  BY DEF TypeOK, RequestTypes
<1>3. CASE CountsStay \/ WindowOpens
  BY <1>1, <1>2, <1>3, TransportAssumption DEF CountsStay, WindowOpens, StaysPut, WindowsOpened
<1>4. ASSUME NEW r \in Requests, Spent(r) PROVE WindowsOpened'
  <2> DEFINE rolled == RollLocked(budget)
  <2>1. rolled \in Budgets /\ rolled.window \in Nat /\ rolled.window >= budget.window
    <3>1. rolled = budget \/ rolled.window = budget.window + 1
      BY <1>1, RollKeepsLimit
    <3>2. rolled \in Budgets
      BY <1>1, BudgetTypes
    <3> QED
      BY <1>1, <3>1, <3>2 DEF Budgets
  <2>2. budget'.window = rolled.window
    <3> DEFINE local == req[r].kind = "local"
    <3>1. budget' = SpendOne(budget, local) /\ local \in BOOLEAN
      BY <1>4 DEF Spent
    <3> HIDE DEF local
    <3> QED
      BY <1>1, <3>1, BudgetFields
  <2> HIDE DEF rolled
  <2>3. req'[r].window = rolled.window
    BY <1>4 DEF Spent, rolled
  <2>4. \A p \in Requests \ {r} : req'[p].window = req[p].window
    BY <1>4 DEF Spent, StaysPut
  <2> QED
    BY <1>1, <1>2, <2>1, <2>2, <2>3, <2>4, TransportAssumption DEF WindowsOpened
<1>5. ASSUME NEW r \in Requests, Refunded(r) PROVE WindowsOpened'
  <2>1. budget'.window = budget.window
    BY <1>1, <1>5 DEF Refunded, RefundOne, Budgets
  <2> QED
    BY <1>5, <2>1 DEF Refunded, StaysPut, WindowsOpened
<1> QED
  BY <1>3, <1>4, <1>5, BudgetMoves

\* Every set of attempts is counted by a number, and a part of it by no more.
LEMMA CountsAreNumbers ==
    ASSUME NEW S \in SUBSET Requests
    PROVE  /\ IsFiniteSet(S) /\ Cardinality(S) \in Nat
           /\ \A T \in SUBSET S : IsFiniteSet(T) /\ Cardinality(T) \in Nat
                                  /\ Cardinality(T) <= Cardinality(S)
<1>1. IsFiniteSet(S)
  BY TransportAssumption, FS_Subset
<1>2. \A T \in SUBSET S : IsFiniteSet(T) /\ Cardinality(T) <= Cardinality(S)
  BY <1>1, FS_Subset
<1> QED
  BY <1>1, <1>2, FS_CardinalityType

\* One attempt more, or one less, is one more in the count, or one less.
LEMMA CountsMoveByOne ==
    ASSUME NEW S \in SUBSET Requests, NEW r \in Requests
    PROVE  /\ r \notin S => Cardinality(S \cup {r}) = Cardinality(S) + 1
           /\ r \in S => Cardinality(S) >= 1 /\ Cardinality(S \ {r}) = Cardinality(S) - 1
<1>1. IsFiniteSet(S) /\ Cardinality(S) \in Nat
  BY CountsAreNumbers
<1>2. r \notin S => Cardinality(S \cup {r}) = Cardinality(S) + 1
  BY <1>1, FS_AddElement
<1>3. ASSUME r \in S PROVE Cardinality(S) >= 1 /\ Cardinality(S \ {r}) = Cardinality(S) - 1
  <2>1. Cardinality(S \ {r}) = Cardinality(S) - 1
    BY <1>1, <1>3, FS_RemoveElement
  <2>2. Cardinality(S \ {r}) \in Nat
    BY CountsAreNumbers
  <2> QED
    BY <1>1, <2>1, <2>2
<1> QED
  BY <1>2, <1>3

\* A step in which nothing is spent or refunded leaves every window's attempts.
LEMMA SpentStays ==
    ASSUME \A p \in Requests : StaysPut(p), NEW w \in Nat
    PROVE  /\ SpentIn(w)' = SpentIn(w)
           /\ SpentIn(w)' \cap LocalArchive' = SpentIn(w) \cap LocalArchive
           /\ \A r \in SpentIn(w) : req'[r].kind = req[r].kind
  BY TransportAssumption DEF StaysPut, SpentIn, LocalArchive

\* One request spent is one more in the window it is spent in, and nowhere else.
LEMMA SpentGrows ==
    ASSUME TypeOK, NEW r \in Requests, Spent(r), NEW w \in Nat
    PROVE  /\ r \notin SpentIn(w)
           /\ SpentIn(w)' = IF w = RollLocked(budget).window THEN SpentIn(w) \cup {r}
                                                             ELSE SpentIn(w)
           /\ SpentIn(w)' \cap LocalArchive' =
                IF w = RollLocked(budget).window /\ req[r].kind = "local"
                  THEN (SpentIn(w) \cap LocalArchive) \cup {r} ELSE SpentIn(w) \cap LocalArchive
           /\ \A p \in SpentIn(w) \cup {r} : req'[p].kind = req[p].kind
<1>1. r \notin SpentIn(w) /\ req[r].window # w
  BY TransportAssumption DEF Spent, SpentIn
<1>2. \A p \in Requests : p \in SpentIn(w)' <=> IF p = r THEN w = RollLocked(budget).window
                                                         ELSE p \in SpentIn(w)
  BY DEF Spent, StaysPut, SpentIn
<1>3. SpentIn(w)' \subseteq Requests /\ SpentIn(w) \subseteq Requests
  BY DEF SpentIn
<1>4. \A p \in SpentIn(w) \cup {r} : req'[p].kind = req[p].kind
  BY TransportAssumption DEF Spent, StaysPut, SpentIn
<1>5. \A p \in SpentIn(w) \cup {r} : p \in LocalArchive' <=> req[p].kind = "local"
  BY <1>3, <1>4 DEF LocalArchive
<1>6. \A p \in SpentIn(w) : p \in LocalArchive <=> req[p].kind = "local"
  BY <1>3 DEF LocalArchive
<1>7. SpentIn(w)' = IF w = RollLocked(budget).window THEN SpentIn(w) \cup {r} ELSE SpentIn(w)
  BY <1>1, <1>2, <1>3
<1> HIDE DEF SpentIn, LocalArchive
<1> QED
  BY <1>1, <1>4, <1>5, <1>6, <1>7

\* One refunded is one less in its own window, and nowhere else.
LEMMA SpentShrinks ==
    ASSUME TypeOK, NEW r \in Requests, Refunded(r), NEW w \in Nat
    PROVE  /\ r \in SpentIn(w) <=> w = req[r].window
           /\ SpentIn(w)' = SpentIn(w) \ {r}
           /\ SpentIn(w)' \cap LocalArchive' = (SpentIn(w) \cap LocalArchive) \ {r}
           /\ \A p \in SpentIn(w) : req'[p].kind = req[p].kind
<1>1. r \in SpentIn(w) <=> w = req[r].window
  BY DEF Refunded, SpentIn
<1>2. \A p \in Requests : p \in SpentIn(w)' <=> p # r /\ p \in SpentIn(w)
  BY DEF Refunded, StaysPut, SpentIn
<1>3. SpentIn(w)' \subseteq Requests /\ SpentIn(w) \subseteq Requests
  BY DEF SpentIn
<1>4. \A p \in SpentIn(w) : req'[p].kind = req[p].kind
  BY TransportAssumption DEF Refunded, StaysPut, SpentIn
<1>5. \A p \in SpentIn(w) : p \in LocalArchive' <=> p \in LocalArchive
  BY <1>3, <1>4 DEF LocalArchive
<1>6. SpentIn(w)' = SpentIn(w) \ {r}
  BY <1>2, <1>3
<1> QED
  BY <1>1, <1>4, <1>5, <1>6

LEMMA ExactStep ==
    ASSUME TypeOK, AttemptsCarry, WindowsOpened, SpentIsExact, [Next]_vars
    PROVE  SpentIsExact'
<1>1. budget \in Budgets
  BY DEF TypeOK
<1> PICK w \in Nat : w = budget.window
  BY <1>1 DEF Budgets
<1> DEFINE S == SpentIn(w)
           A == S \cap LocalArchive
           next == w + 1
<1>2. SpentIn(next) = {}
  BY TransportAssumption DEF SpentIn, WindowsOpened
<1>3. S \in SUBSET Requests /\ A \in SUBSET Requests
  BY DEF SpentIn
<1>4. /\ budget.spent = Cardinality(S) /\ budget.archiveSpent = Cardinality(A)
  BY DEF SpentIsExact
<1>5. Cardinality({}) = 0
  BY FS_EmptySet
\* In the new state it is enough to count the new window's attempts.
<1>6. ASSUME NEW v \in Nat, budget'.window = v, NEW T, NEW B,
             SpentIn(v)' = T, SpentIn(v)' \cap LocalArchive' = B,
             budget'.spent = Cardinality(T), budget'.archiveSpent = Cardinality(B)
      PROVE  SpentIsExact'
  <2>1. (SpentIn(budget.window))' = T
    BY <1>6 DEF SpentIn
  <2> QED
    BY <1>6, <2>1 DEF SpentIsExact
<1>7. CASE CountsStay
  <2>1. SpentIn(w)' = S /\ SpentIn(w)' \cap LocalArchive' = A
    BY <1>1, <1>7, SpentStays DEF CountsStay
  <2> QED
    BY <1>1, <1>4, <1>6, <1>7, <2>1 DEF CountsStay
<1>8. CASE WindowOpens
  <2>1. SpentIn(next)' = {} /\ SpentIn(next)' \cap LocalArchive' = {}
    BY <1>1, <1>2, <1>8, SpentStays DEF WindowOpens
  <2> QED
    BY <1>5, <1>6, <1>8, <2>1 DEF WindowOpens
<1>9. ASSUME NEW r \in Requests, Spent(r) PROVE SpentIsExact'
  <2> DEFINE local == req[r].kind = "local"
             rolled == RollLocked(budget)
  <2> PICK v \in Nat : v = rolled.window
    <3>1. rolled \in Budgets
      BY <1>1, BudgetTypes
    <3> QED
      BY <3>1 DEF Budgets
  <2>1. budget' = SpendOne(budget, local) /\ local \in BOOLEAN
    BY <1>9 DEF Spent
  <2>2. /\ budget'.window = v /\ budget'.spent = rolled.spent + 1
        /\ budget'.archiveSpent = IF local THEN rolled.archiveSpent + 1 ELSE rolled.archiveSpent
    <3> HIDE DEF local
    <3> QED
      BY <1>1, <2>1, BudgetFields
  <2>4. /\ r \notin SpentIn(v)
        /\ SpentIn(v)' = SpentIn(v) \cup {r}
        /\ SpentIn(v)' \cap LocalArchive' =
             IF local THEN (SpentIn(v) \cap LocalArchive) \cup {r} ELSE SpentIn(v) \cap LocalArchive
    BY <1>9, SpentGrows
  <2>5. /\ rolled.spent = Cardinality(SpentIn(v))
        /\ rolled.archiveSpent = Cardinality(SpentIn(v) \cap LocalArchive)
    <3>1. CASE rolled = budget
      BY <1>4, <3>1
    <3>2. CASE v = next /\ rolled.spent = 0 /\ rolled.archiveSpent = 0
      BY <1>2, <1>5, <3>2
    <3> QED
      BY <1>1, <3>1, <3>2, RollKeepsLimit
  <2>6. SpentIn(v) \in SUBSET Requests /\ SpentIn(v) \cap LocalArchive \in SUBSET Requests
    BY DEF SpentIn
  <2>7. /\ Cardinality(SpentIn(v) \cup {r}) = rolled.spent + 1
        /\ Cardinality((SpentIn(v) \cap LocalArchive) \cup {r}) = rolled.archiveSpent + 1
    BY <2>4, <2>5, <2>6, CountsMoveByOne
  <2> HIDE DEF rolled, local
  <2>8. CASE local
    BY <1>6, <2>2, <2>4, <2>7, <2>8
  <2>9. CASE ~local
    BY <1>6, <2>2, <2>4, <2>5, <2>7, <2>9
  <2> QED
    BY <2>8, <2>9
<1>10. ASSUME NEW r \in Requests, Refunded(r) PROVE SpentIsExact'
  <2> DEFINE local == req[r].kind = "local"
  <2>1. /\ budget' = RefundOne(budget, req[r].window, local) /\ local \in BOOLEAN
    BY <1>10 DEF Refunded
  <2>2. /\ r \in S <=> w = req[r].window
        /\ SpentIn(w)' = S \ {r}
        /\ SpentIn(w)' \cap LocalArchive' = A \ {r}
    BY <1>1, <1>10, SpentShrinks
  <2>3. CASE w # req[r].window
    <3>1. budget' = budget
      BY <2>1, <2>3 DEF RefundOne
    <3>2. S \ {r} = S /\ A \ {r} = A
      BY <2>2, <2>3
    <3> QED
      BY <1>1, <1>4, <1>6, <2>2, <3>1, <3>2
  <2>4. CASE w = req[r].window
    <3>1. /\ budget'.window = w /\ budget'.spent = LessOne(budget.spent)
          /\ budget'.archiveSpent =
               IF local THEN LessOne(budget.archiveSpent) ELSE budget.archiveSpent
      <4> HIDE DEF local
      <4>1. budget' = RefundOne(budget, budget.window, local)
        BY <2>1, <2>4
      <4> QED
        BY <1>1, <2>1, <4>1, BudgetFields
    <3>2. Cardinality(S) >= 1 /\ Cardinality(S \ {r}) = Cardinality(S) - 1
      BY <1>3, <2>2, <2>4, CountsMoveByOne
    <3>3. Cardinality(S) \in Nat /\ Cardinality(A) \in Nat
      BY <1>3, CountsAreNumbers
    <3>4. budget'.spent = Cardinality(S \ {r})
      BY <1>4, <3>1, <3>2, <3>3 DEF LessOne
    <3>5. budget'.archiveSpent = Cardinality(A \ {r})
      <4>1. CASE local
        <5>1. r \in A
          BY <2>2, <2>4, <4>1 DEF LocalArchive
        <5>2. Cardinality(A) >= 1 /\ Cardinality(A \ {r}) = Cardinality(A) - 1
          BY <1>3, <5>1, CountsMoveByOne
        <5> QED
          BY <1>4, <3>1, <3>3, <4>1, <5>2 DEF LessOne
      <4>2. CASE ~local
        <5>1. A \ {r} = A
          BY <4>2 DEF LocalArchive
        <5> QED
          BY <1>4, <3>1, <4>2, <5>1
      <4> QED
        BY <4>1, <4>2
    <3> HIDE DEF S, A
    <3> QED
      BY <1>6, <2>2, <3>1, <3>4, <3>5
  <2> QED
    BY <2>3, <2>4
<1> QED
  BY <1>7, <1>8, <1>9, <1>10, BudgetMoves

\* The highest ceiling that is ever set bounds the others.
LEMMA HighestLimit ==
    /\ Max(BudgetLimits) \in BudgetLimits
    /\ \A limit \in BudgetLimits : limit <= Max(BudgetLimits)
<1>1. \E highest \in BudgetLimits : \A limit \in BudgetLimits : highest >= limit
  BY TransportAssumption
<1> QED
  BY <1>1, TransportAssumption DEF Max

\* A window's attempts that may not touch the essential reserve.
Optional == {r \in Requests : req[r].kind # "essential"}

\* The ceiling of one window.
HoldsIn(w) ==
    /\ Cardinality(SpentIn(w)) <= Max(BudgetLimits)
    /\ Cardinality(SpentIn(w) \cap Optional) <=
         Max(BudgetLimits) - EssentialReserve(Max(BudgetLimits))

CeilingHoldsAlways == \A w \in Nat : HoldsIn(w)

LEMMA CeilingStep ==
    ASSUME TypeOK, AttemptsCarry, WindowsOpened, LimitIsSet, SpentIsExact, CeilingHoldsAlways,
           [Next]_vars
    PROVE  CeilingHoldsAlways'
<1> DEFINE highest == Max(BudgetLimits)
           most == highest - EssentialReserve(highest)
<1>1. highest \in Nat /\ most \in Nat
  <2>1. highest \in Nat
    BY HighestLimit, TransportAssumption
  <2> HIDE DEF highest
  <2>2. EssentialReserve(highest) \in Nat /\ EssentialReserve(highest) <= highest
    BY <2>1, ReserveType
  <2> QED
    BY <2>1, <2>2
<1> SUFFICES ASSUME NEW w \in Nat PROVE HoldsIn(w)'
  BY DEF CeilingHoldsAlways
<1> DEFINE S == SpentIn(w)
<1>2. /\ S \in SUBSET Requests /\ S \cap Optional \in SUBSET Requests
      /\ Cardinality(S) <= highest /\ Cardinality(S \cap Optional) <= most
  BY DEF SpentIn, CeilingHoldsAlways, HoldsIn
<1>3. Cardinality(S) \in Nat /\ Cardinality(S \cap Optional) \in Nat
  BY <1>2, CountsAreNumbers
\* Where no attempt joins, the window keeps within its ceiling.
<1>4. ASSUME SpentIn(w)' \subseteq S, \A p \in SpentIn(w)' : req'[p].kind = req[p].kind
      PROVE  HoldsIn(w)'
  <2>1. SpentIn(w)' \cap Optional' \subseteq S \cap Optional
    BY <1>4 DEF Optional
  <2>2. /\ Cardinality(SpentIn(w)') <= Cardinality(S)
        /\ Cardinality(SpentIn(w)' \cap Optional') <= Cardinality(S \cap Optional)
        /\ Cardinality(SpentIn(w)') \in Nat
        /\ Cardinality(SpentIn(w)' \cap Optional') \in Nat
    BY <1>2, <1>4, <2>1, CountsAreNumbers
  <2> QED
    BY <1>1, <1>2, <1>3, <2>2 DEF HoldsIn
<1>5. CASE CountsStay \/ WindowOpens
  <2>1. SpentIn(w)' = S /\ \A p \in S : req'[p].kind = req[p].kind
    BY <1>5, SpentStays DEF CountsStay, WindowOpens
  <2> QED
    BY <1>4, <2>1
<1>6. ASSUME NEW r \in Requests, Refunded(r) PROVE HoldsIn(w)'
  <2>1. SpentIn(w)' = S \ {r} /\ \A p \in S : req'[p].kind = req[p].kind
    BY <1>6, SpentShrinks
  <2> QED
    BY <1>4, <2>1
<1>7. ASSUME NEW r \in Requests, Spent(r) PROVE HoldsIn(w)'
  <2> DEFINE essential == req[r].kind = "essential"
             rolled == RollLocked(budget)
  <2>1. /\ SpentIn(w)' = IF w = rolled.window THEN S \cup {r} ELSE S
        /\ \A p \in S \cup {r} : req'[p].kind = req[p].kind
    BY <1>7, SpentGrows
  <2>2. CASE w # rolled.window
    BY <1>4, <2>1, <2>2
  <2>3. CASE w = rolled.window
    <3>1. rolled \in Budgets /\ rolled.limit = budget.limit /\ rolled.reserve = budget.reserve
          /\ rolled.spent \in Nat
      BY BudgetTypes, RollKeepsLimit DEF TypeOK, Budgets
    <3>2. budget'.window = w /\ budget'.spent = rolled.spent + 1
      <4> DEFINE local == req[r].kind = "local"
      <4>1. budget' = SpendOne(budget, local) /\ local \in BOOLEAN
        BY <1>7 DEF Spent
      <4> HIDE DEF local
      <4> QED
        BY <2>3, <4>1, BudgetFields DEF TypeOK
    <3>3. Cardinality(SpentIn(w)') = rolled.spent + 1
      <4>1. (SpentIn(budget.window))' = SpentIn(w)'
        BY <3>2 DEF SpentIn
      <4> QED
        BY <3>2, <4>1, ExactStep DEF SpentIsExact
    <3>4. budget.limit \in Nat /\ budget.limit <= highest
            /\ budget.reserve = EssentialReserve(budget.limit)
      BY HighestLimit, TransportAssumption DEF LimitIsSet
    <3>5. rolled.spent + 1 <= IF essential THEN budget.limit ELSE budget.limit - budget.reserve
      BY <1>7, <3>1 DEF Spent, Spends, Ceiling, OptionalLimit
    <3>6. EssentialReserve(budget.limit) \in Nat
      BY <3>4, ReserveType
    <3>7. budget.limit - EssentialReserve(budget.limit) <= most
      BY <1>1, <3>4, OptionalGrows
    <3> HIDE DEF highest, most, rolled, essential, S
    <3>8. Cardinality(SpentIn(w)') <= highest
      BY <1>1, <3>1, <3>3, <3>4, <3>5, <3>6
    <3>9. Cardinality(SpentIn(w)' \cap Optional') <= most
      <4>1. CASE essential
        <5>1. SpentIn(w)' \cap Optional' = S \cap Optional
          BY <2>1, <4>1 DEF Optional, SpentIn, S, essential
        <5> QED
          BY <1>2, <5>1
      <4>2. CASE ~essential
        <5>1. SpentIn(w)' \in SUBSET Requests
          BY DEF SpentIn
        <5>2. /\ Cardinality(SpentIn(w)' \cap Optional') <= Cardinality(SpentIn(w)')
              /\ Cardinality(SpentIn(w)' \cap Optional') \in Nat
          BY <5>1, CountsAreNumbers
        <5> QED
          BY <1>1, <3>1, <3>3, <3>4, <3>5, <3>6, <3>7, <4>2, <5>2
      <4> QED
        BY <4>1, <4>2
    <3> QED
      BY <3>8, <3>9 DEF HoldsIn, highest, most
  <2> QED
    BY <2>2, <2>3
<1> QED
  BY <1>5, <1>6, <1>7, BudgetMoves

-----------------------------------------------------------------------------
(* What the registry was shown. *)

Shown(p, rate) == p.reset > rate.reset \/ (p.reset = rate.reset /\ p.remaining <= rate.remaining)

\* A response's headers never make a pool forget an answer it takes into
\* account, and it takes them into account itself.
LEMMA HeadersOnlyAdd ==
    ASSUME NEW p \in Pools, NEW header \in Rates, NEW rate \in Rates,
           IF p.known THEN p.remaining <= ProviderLimit /\ p.reset \in Resets ELSE p.reset = 0
    PROVE  /\ Shown(ObserveHeaders(p, header), header)
           /\ Shown(p, rate) => Shown(ObserveHeaders(p, header), rate)
<1>1. /\ rate.remaining \in Nat /\ rate.reset \in Nat /\ rate.reset >= 1
      /\ header.remaining \in Nat /\ header.reset \in Nat /\ header.reset >= 1
      /\ p.remaining \in Nat /\ p.reset \in Nat
  BY QuotaAssumption DEF Rates, Pools, Resets
<1>2. FreshPool(header).reset = header.reset /\ FreshPool(header).remaining = header.remaining
  BY DEF FreshPool
<1>3. CASE p.known /\ header.reset < p.reset
  BY <1>1, <1>3 DEF ObserveHeaders, Shown
<1>4. CASE p.known /\ header.reset = p.reset /\ header.remaining < p.remaining
  <2> DEFINE cost == Larger(p.attemptCost, p.remaining - header.remaining)
             left == header.remaining
  <2>1. ObserveHeaders(p, header) = [p EXCEPT !.attemptCost = cost, !.remaining = left]
    BY <1>1, <1>4 DEF ObserveHeaders
  <2> HIDE DEF cost, left
  <2>2. ObserveHeaders(p, header).reset = p.reset /\ ObserveHeaders(p, header).remaining = left
    BY <2>1 DEF Pools
  <2> QED
    BY <1>1, <1>4, <2>2 DEF Shown, left
<1>5. CASE p.known /\ header.reset = p.reset /\ header.remaining >= p.remaining
  BY <1>1, <1>5 DEF ObserveHeaders, Shown
<1>6. CASE ~p.known \/ header.reset > p.reset
  <2>1. ObserveHeaders(p, header) = FreshPool(header)
    BY <1>1, <1>6 DEF ObserveHeaders
  <2>2. header.reset > p.reset
    BY <1>1, <1>6
  <2> QED
    BY <1>1, <1>2, <2>1, <2>2 DEF Shown
<1> QED
  BY <1>1, <1>3, <1>4, <1>5, <1>6

LEMMA ObservedStep ==
    ASSUME TypeOK, AttemptsCarry, PoolsShowRates, ObservedAreSeen, [Next]_vars,
           ~(\E s \in Resources, rate \in Rates : ApplySnapshot(s, rate))
    PROVE  ObservedAreSeen'
<1> DEFINE Asks(q) == q.at \in {"reconcile", "raise"} /\ q.header # NoRate
\* It is enough that each answer awaited was awaited, or is seen.
<1>1. ASSUME \A r \in Requests : Asks(req'[r]) =>
                 Shown(pool'[req'[r].resource], req'[r].header)
      PROVE  ObservedAreSeen'
  BY <1>1 DEF ObservedAreSeen, Seen, Shown
<1>2. \A r \in Requests : Asks(req[r]) => /\ Shown(pool[req[r].resource], req[r].header)
                                          /\ req[r].header \in Rates
                                               /\ req[r].resource \in Resources
  BY DEF ObservedAreSeen, Seen, Shown, TypeOK, RequestTypes, AttemptsCarry, Carries, Out
<1>3. ASSUME NEW r \in Requests, NEW x, req' = [req EXCEPT ![r] = x], pool' = pool,
             Asks(x) => Asks(req[r]) /\ x.header = req[r].header /\ x.resource = req[r].resource
      PROVE  ObservedAreSeen'
  <2> HIDE DEF Asks
  <2>1. \A p \in Requests : Asks(req'[p]) => Shown(pool'[req'[p].resource], req'[p].header)
    BY <1>2, <1>3 DEF TypeOK
  <2> QED
    BY <1>1, <2>1 DEF Asks
<1>4. ASSUME NEW q \in RequestTypes PROVE ~Asks(Returned(q))
  BY DEF Returned, NoRequest, RequestTypes
<1>5. ASSUME NEW r \in Requests, Attempt(r) \/ Wire(r), ~Observe(r), ~Reconcile(r), ~RaiseCost(r)
      PROVE  ObservedAreSeen'
  <2> DEFINE q == req[r]
  <2>1. q \in RequestTypes
    BY DEF TypeOK
  <2>2. pool' = pool
    BY <1>5 DEF Attempt, Wire, BeginLive, BeginLocalArchive, BeginArchive, ConsumeAllowance,
                ConsumeRefused, SpendLocked, Refund, Answer, Lose
  <2>3. \E x : req' = [req EXCEPT ![r] = x] /\ ~Asks(x)
    <3>1. ASSUME NEW x, req' = [req EXCEPT ![r] = x], x.at \in {"spend", "consume", "wire",
                   "notModified", "observe"}
          PROVE  \E y : req' = [req EXCEPT ![r] = y] /\ ~Asks(y)
      BY <3>1
    <3>2. CASE Lose(r)
      BY <1>4, <2>1, <3>2 DEF Lose, Return
    <3>3. CASE ConsumeRefused(r)
      <4>1. [q EXCEPT !.holds = FALSE] \in RequestTypes
        BY <2>1 DEF RequestTypes
      <4> QED
        BY <1>4, <3>3, <4>1 DEF ConsumeRefused
    <3>4. CASE ConsumeAllowance(r)
      <4>1. req' = [req EXCEPT ![r] = [q EXCEPT !.at = Onward(q.kind)]]
        BY <3>4 DEF ConsumeAllowance, TypeOK
      <4>2. [q EXCEPT !.at = Onward(q.kind)].at \in {"spend", "wire"}
        BY <2>1 DEF RequestTypes, Onward
      <4> QED
        BY <3>1, <4>1, <4>2
    <3>5. CASE SpendLocked(r)
      <4>1. CASE ~Spends(budget, q.kind = "essential")
        BY <1>4, <2>1, <3>5, <4>1 DEF SpendLocked, Return
      <4>2. CASE Spends(budget, q.kind = "essential")
        <5> DEFINE window == budget'.window
        <5>1. req' = [req EXCEPT ![r].at = "wire", ![r].window = window]
          BY <3>5, <4>2 DEF SpendLocked
        <5> HIDE DEF window
        <5>2. req' = [req EXCEPT ![r] = [q EXCEPT !.at = "wire", !.window = window]]
          BY <5>1 DEF TypeOK
        <5>3. [q EXCEPT !.at = "wire", !.window = window].at = "wire"
          BY <2>1 DEF RequestTypes
        <5> QED
          BY <3>1, <5>2, <5>3
      <4> QED
        BY <4>1, <4>2
    <3>6. CASE Refund(r)
      <4> DEFINE yes == TRUE
      <4>1. req' = [req EXCEPT ![r].at = "observe", ![r].refunded = yes]
        BY <3>6 DEF Refund
      <4> HIDE DEF yes
      <4>2. req' = [req EXCEPT ![r] = [q EXCEPT !.at = "observe", !.refunded = yes]]
        BY <4>1 DEF TypeOK
      <4>3. [q EXCEPT !.at = "observe", !.refunded = yes].at = "observe"
        BY <2>1 DEF RequestTypes
      <4> QED
        BY <3>1, <4>2, <4>3
    <3>7. ASSUME NEW charge \in 0 .. MaxCost, NEW headers \in BOOLEAN, NEW notModified \in BOOLEAN,
                 Answer(r, charge, headers, notModified)
          PROVE  \E y : req' = [req EXCEPT ![r] = y] /\ ~Asks(y)
      <4> DEFINE header == IF headers THEN provider'[q.resource] ELSE NoRate
                 at == IF Counted(q.kind) /\ notModified THEN "notModified" ELSE "observe"
      <4>1. req' = [req EXCEPT ![r].at = at, ![r].header = header]
        BY <3>7 DEF Answer
      <4>2. at \in {"notModified", "observe"}
        OBVIOUS
      <4> HIDE DEF at, header
      <4>3. req' = [req EXCEPT ![r] = [q EXCEPT !.at = at, !.header = header]]
        BY <4>1 DEF TypeOK
      <4>4. [q EXCEPT !.at = at, !.header = header].at = at
        BY <2>1 DEF RequestTypes
      <4> QED
        BY <3>1, <4>2, <4>3, <4>4
    <3>8. ASSUME NEW kind \in {"user", "optional", "essential"}, NEW s \in Resources,
                 BeginLive(r, kind, s)
          PROVE  \E y : req' = [req EXCEPT ![r] = y] /\ ~Asks(y)
      <4> DEFINE sent == [NoRequest EXCEPT !.at = Onward(kind), !.kind = kind, !.resource = s]
      <4>1. req' = [req EXCEPT ![r] = sent]
        BY <3>8 DEF BeginLive
      <4>2. sent.at \in {"spend", "wire"}
        BY DEF NoRequest, Onward
      <4> HIDE DEF sent
      <4> QED
        BY <3>1, <4>1, <4>2
    <3>9. ASSUME NEW a \in Admissions, NEW s \in Resources, BeginLocalArchive(r, a, s)
          PROVE  \E y : req' = [req EXCEPT ![r] = y] /\ ~Asks(y)
      <4> DEFINE sent == [NoRequest EXCEPT !.at = "consume", !.kind = "local", !.resource = s,
                                           !.admission = a, !.cost = 1]
      <4>1. req' = [req EXCEPT ![r] = sent]
        BY <3>9 DEF BeginLocalArchive
      <4>2. sent.at = "consume"
        BY DEF NoRequest
      <4> HIDE DEF sent
      <4> QED
        BY <3>1, <4>1, <4>2
    <3>10. ASSUME NEW a \in Admissions, NEW s \in Resources, BeginArchive(r, a, s)
           PROVE  \E y : req' = [req EXCEPT ![r] = y] /\ ~Asks(y)
      <4>1. CASE ReserveAllowed(s)
        <5> DEFINE sent == [NoRequest EXCEPT !.at = "consume", !.kind = "archive", !.resource = s,
                              !.admission = a, !.cost = ReservationCost(pool[s]), !.holds = TRUE,
                              !.before = [remaining |-> pool[s].remaining, reset |-> pool[s].reset]]
        <5>1. req' = [req EXCEPT ![r] = sent]
          BY <3>10, <4>1 DEF BeginArchive
        <5>2. sent.at = "consume"
          BY DEF NoRequest
        <5> HIDE DEF sent
        <5> QED
          BY <3>1, <5>1, <5>2
      <4>2. CASE ~ReserveAllowed(s)
        BY <1>4, <2>1, <3>10, <4>2 DEF BeginArchive, Return
      <4> QED
        BY <4>1, <4>2
    <3> QED
      BY <1>5, <3>2, <3>3, <3>4, <3>5, <3>6, <3>7, <3>8, <3>9, <3>10 DEF Attempt, Wire
  <2> QED
    BY <1>3, <2>2, <2>3
<1>6. ASSUME NEW r \in Requests, Reconcile(r) PROVE ObservedAreSeen'
  <2> DEFINE q == req[r]
  <2>1. q \in RequestTypes /\ q.at = "reconcile"
    BY <1>6 DEF TypeOK, Reconcile
  <2>2. \/ req' = [req EXCEPT ![r] = [q EXCEPT !.at = "raise", !.holds = FALSE]]
        \/ req' = [req EXCEPT ![r] = [q EXCEPT !.at = "raise"]]
    BY <1>6 DEF Reconcile, TypeOK
  <2>3. pool' = pool
    BY <1>6 DEF Reconcile
  <2>4. \A holds \in BOOLEAN :
          /\ [q EXCEPT !.at = "raise", !.holds = holds].header = q.header
          /\ [q EXCEPT !.at = "raise", !.holds = holds].resource = q.resource
          /\ [q EXCEPT !.at = "raise"].header = q.header
          /\ [q EXCEPT !.at = "raise"].resource = q.resource
    BY <2>1 DEF RequestTypes
  <2>5. CASE req' = [req EXCEPT ![r] = [q EXCEPT !.at = "raise", !.holds = FALSE]]
    BY <1>3, <2>1, <2>3, <2>4, <2>5
  <2>6. CASE req' = [req EXCEPT ![r] = [q EXCEPT !.at = "raise"]]
    BY <1>3, <2>1, <2>3, <2>4, <2>6
  <2> QED
    BY <2>2, <2>5, <2>6
<1>7. ASSUME NEW r \in Requests, Observe(r) PROVE ObservedAreSeen'
  <2> DEFINE q == req[r]
             s == q.resource
             x == IF q.kind = "archive" THEN [q EXCEPT !.at = "reconcile"] ELSE Returned(q)
  <2>1. /\ q \in RequestTypes /\ s \in Resources /\ req' = [req EXCEPT ![r] = x]
    BY <1>7 DEF Observe, TypeOK, AttemptsCarry, Carries, Out
  <2>2. Asks(x) => x.header = q.header /\ x.resource = s /\ q.header # NoRate
    BY <1>4, <2>1 DEF RequestTypes
  <2> HIDE DEF x
  <2>3. CASE q.header = NoRate
    <3>1. pool' = pool
      BY <1>7, <2>3 DEF Observe
    <3> QED
      BY <1>3, <2>1, <2>2, <2>3, <3>1
  <2>4. CASE q.header # NoRate
    <3>1. q.header \in Rates /\ pool' = [pool EXCEPT ![s] = ObserveHeaders(pool[s], q.header)]
      BY <1>7, <2>1, <2>4 DEF Observe, RequestTypes
    <3>2. \A rate \in Rates : /\ Shown(pool'[s], q.header)
                              /\ Shown(pool[s], rate) => Shown(pool'[s], rate)
      BY <2>1, <3>1, HeadersOnlyAdd DEF TypeOK, PoolsShowRates
    <3>3. \A t \in Resources \ {s} : pool'[t] = pool[t]
      BY <3>1 DEF TypeOK
    <3>4. req'[r] = x /\ \A p \in Requests \ {r} : req'[p] = req[p]
      BY <2>1 DEF TypeOK
    <3>5. Shown(pool'[s], q.header)
      BY <3>1, <3>2
    <3> HIDE DEF Asks
    <3>6. \A p \in Requests \ {r} : Asks(req'[p]) => Shown(pool'[req'[p].resource], req'[p].header)
      BY <1>2, <3>2, <3>3, <3>4
    <3>7. Asks(req'[r]) => Shown(pool'[req'[r].resource], req'[r].header)
      BY <2>2, <3>4, <3>5
    <3>8. \A p \in Requests : Asks(req'[p]) => Shown(pool'[req'[p].resource], req'[p].header)
      BY <3>6, <3>7
    <3> QED
      BY <1>1, <3>8
  <2> QED
    BY <2>3, <2>4
<1>8. ASSUME NEW r \in Requests, RaiseCost(r) PROVE ObservedAreSeen'
  <2> DEFINE q == req[r]
             s == q.resource
  <2>1. q \in RequestTypes /\ s \in Resources /\ req' = [req EXCEPT ![r] = Returned(q)]
    BY <1>8 DEF RaiseCost, Return, TypeOK, AttemptsCarry, Carries, Out
  <2>2. \A p \in Pools : \A reset, cost :
          /\ RaiseAttemptCost(p, reset, cost).reset = p.reset
          /\ RaiseAttemptCost(p, reset, cost).remaining = p.remaining
    BY DEF RaiseAttemptCost, Pools
  <2>3. \A t \in Resources : pool'[t].reset = pool[t].reset
          /\ pool'[t].remaining = pool[t].remaining
    BY <1>8, <2>1, <2>2 DEF RaiseCost, TypeOK
  <2>4. \A p \in Requests : Asks(req'[p]) => p # r /\ req'[p] = req[p]
    BY <1>4, <2>1 DEF TypeOK
  <2> HIDE DEF Asks
  <2>5. \A p \in Requests : Asks(req'[p]) => Shown(pool'[req'[p].resource], req'[p].header)
    BY <1>2, <2>3, <2>4 DEF Shown
  <2> QED
    BY <1>1, <2>5 DEF Asks
<1>9. CASE req' = req /\ pool' = pool
  BY <1>1, <1>2, <1>9
<1> QED
  BY <1>5, <1>6, <1>7, <1>8, <1>9
     DEF Next, AdmitOnProviderQuota, AdmitOnLocalBudget, WindowResets, HourElapses,
         ProviderWindowReset, SetBudgetLimit, vars

-----------------------------------------------------------------------------
(* The registry: what a step does to the reservations of a pool and to the  *)
(* attempts that hold them.                                                 *)

\* The attempt holds what it held.
HoldsStill(p) ==
    /\ req'[p].holds = req[p].holds
    /\ req[p].holds => /\ req'[p].resource = req[p].resource
                       /\ req'[p].before = req[p].before
                       /\ req'[p].cost = req[p].cost

\* The ways a step deals with the reservations: it leaves them alone, shows one
\* pool a rate, which may begin a window, reserves for one attempt or gives one
\* attempt's reservation back.
ReservationsStay ==
    /\ reservations' = reservations
    /\ \A s \in Resources : pool'[s].reset = pool[s].reset
    /\ \A p \in Requests : HoldsStill(p)

PoolShown(s, rate) ==
    /\ reservations' = [reservations EXCEPT ![s] = ReservationsAfter(@, pool[s], rate)]
    /\ pool'[s].reset = IF ReplacesPool(pool[s], rate) THEN rate.reset ELSE pool[s].reset
    /\ \A t \in Resources \ {s} : pool'[t] = pool[t]
    /\ \A p \in Requests : HoldsStill(p)

ReservedFor(r) ==
    LET q == req'[r] IN
    /\ ~req[r].holds /\ q.holds
    /\ q.resource \in Resources /\ q.cost \in Nat
    /\ q.before.reset = pool[q.resource].reset /\ q.before.reset \in Resets
    /\ reservations' = [reservations EXCEPT ![q.resource][q.before.reset] = @ + q.cost]
    /\ pool' = pool
    /\ \A p \in Requests \ {r} : HoldsStill(p)

GivenBack(r) ==
    /\ req[r].holds /\ ~req'[r].holds
    /\ Release(r)
    /\ pool' = pool
    /\ \A p \in Requests \ {r} : HoldsStill(p)

\* The record of an attempt, after a step that only replaces it.
LEMMA OnlyOneMoves ==
    ASSUME TypeOK, NEW r \in Requests, NEW x, req' = [req EXCEPT ![r] = x]
    PROVE  req'[r] = x /\ \A p \in Requests \ {r} : HoldsStill(p)
  BY DEF TypeOK, HoldsStill

\* A return from RoundTrip keeps what no answer settled.
LEMMA ReturnHolds ==
    ASSUME TypeOK, NEW r \in Requests, Return(r)
    PROVE  \A p \in Requests : HoldsStill(p)
<1> DEFINE q == req[r]
<1>1. q \in RequestTypes
  BY DEF TypeOK
<1>2. Returned(q).holds = q.holds
      /\ (q.holds => /\ Returned(q).resource = q.resource
                     /\ Returned(q).before = q.before
                     /\ Returned(q).cost = q.cost)
  BY <1>1 DEF Returned, NoRequest, RequestTypes
<1>3. req'[r] = Returned(q) /\ \A p \in Requests \ {r} : HoldsStill(p)
  BY OnlyOneMoves DEF Return
<1>4. HoldsStill(r)
  BY <1>2, <1>3 DEF HoldsStill
<1> QED
  BY <1>3, <1>4

\* What a pool shows after a rate: its window is the later of the two.
LEMMA ShownReset ==
    ASSUME NEW p \in Pools, NEW rate \in Rates
    PROVE  LET reset == IF ReplacesPool(p, rate) THEN rate.reset ELSE p.reset IN
           ObserveHeaders(p, rate).reset = reset /\ UpdateSnapshot(p, rate).reset = reset
<1> DEFINE reset == IF ReplacesPool(p, rate) THEN rate.reset ELSE p.reset
<1>1. /\ rate.reset \in Int /\ p.reset \in Int /\ FreshPool(rate).reset = rate.reset
      /\ rate.remaining \in Int /\ p.remaining \in Int
  BY QuotaAssumption DEF Rates, Pools, Resets, FreshPool
<1>2. ObserveHeaders(p, rate).reset = reset
  <2> DEFINE cost == Larger(p.attemptCost, p.remaining - rate.remaining)
             left == rate.remaining
             lower == [p EXCEPT !.attemptCost = cost, !.remaining = left]
  <2>1. lower.reset = p.reset
    <3> HIDE DEF cost, left
    <3> QED
      BY DEF Pools
  <2>2. \/ ReplacesPool(p, rate) /\ ObserveHeaders(p, rate) = FreshPool(rate)
        \/ ~ReplacesPool(p, rate) /\ ObserveHeaders(p, rate) \in {p, lower}
    BY <1>1 DEF ObserveHeaders, ReplacesPool
  <2> HIDE DEF lower
  <2> QED
    BY <1>1, <2>1, <2>2
<1>3. UpdateSnapshot(p, rate).reset = reset
  BY <1>1 DEF UpdateSnapshot, ReplacesPool, FreshPool
<1> QED
  BY <1>2, <1>3

LEMMA AttemptReserves ==
    ASSUME TypeOK, AttemptsCarry, PoolsShowRates, NEW r \in Requests, Attempt(r) \/ Wire(r)
    PROVE  \/ ReservationsStay \/ ReservedFor(r) \/ GivenBack(r)
           \/ \E s \in Resources, rate \in Rates : PoolShown(s, rate)
<1> DEFINE q == req[r]
           Same(x) == x.holds = q.holds
                      /\ (q.holds => /\ x.resource = q.resource
                                     /\ x.before = q.before
                                     /\ x.cost = q.cost)
<1>1. q \in RequestTypes /\ Carries(q)
  BY DEF TypeOK, AttemptsCarry
<1>2. ASSUME NEW x, Same(x), req' = [req EXCEPT ![r] = x]
      PROVE  \A p \in Requests : HoldsStill(p)
  <2>1. req'[r] = x /\ \A p \in Requests \ {r} : HoldsStill(p)
    BY <1>2, OnlyOneMoves
  <2>2. HoldsStill(r)
    BY <1>2, <2>1 DEF HoldsStill
  <2> QED
    BY <2>1, <2>2
<1>3. ASSUME \A p \in Requests : HoldsStill(p), pool' = pool, reservations' = reservations
      PROVE  ReservationsStay
  BY <1>3 DEF ReservationsStay
<1>4. \A at, window, refunded, header :
        Same([q EXCEPT !.at = at, !.window = window, !.refunded = refunded, !.header = header])
  BY <1>1 DEF RequestTypes
<1>5. ASSUME q.at = "idle", NEW x, ~x.holds, x.holds \in BOOLEAN PROVE Same(x)
  <2>1. ~q.holds
    BY <1>1, <1>5 DEF Carries
  <2>2. q.holds \in BOOLEAN
    BY <1>1 DEF RequestTypes
  <2> QED
    BY <1>5, <2>1, <2>2
<1>6. ASSUME NEW kind \in {"user", "optional", "essential"}, NEW s \in Resources,
             BeginLive(r, kind, s)
      PROVE  ReservationsStay
  <2> DEFINE x == [NoRequest EXCEPT !.at = Onward(kind), !.kind = kind, !.resource = s]
  <2>1. ~x.holds /\ x.holds \in BOOLEAN
    BY DEF NoRequest
  <2>2. q.at = "idle" /\ req' = [req EXCEPT ![r] = x]
    BY <1>6 DEF BeginLive
  <2> HIDE DEF x, Same
  <2>3. \A p \in Requests : HoldsStill(p)
    BY <1>2, <1>5, <2>1, <2>2
  <2> QED
    BY <1>3, <1>6, <2>3 DEF BeginLive
<1>7. ASSUME NEW a \in Admissions, NEW s \in Resources, BeginLocalArchive(r, a, s)
      PROVE  ReservationsStay
  <2> DEFINE x == [NoRequest EXCEPT !.at = "consume", !.kind = "local", !.resource = s,
                                    !.admission = a, !.cost = 1]
  <2>1. ~x.holds /\ x.holds \in BOOLEAN
    BY DEF NoRequest
  <2>2. q.at = "idle" /\ req' = [req EXCEPT ![r] = x]
    BY <1>7 DEF BeginLocalArchive
  <2> HIDE DEF x, Same
  <2>3. \A p \in Requests : HoldsStill(p)
    BY <1>2, <1>5, <2>1, <2>2
  <2> QED
    BY <1>3, <1>7, <2>3 DEF BeginLocalArchive
<1>8. ASSUME NEW a \in Admissions, NEW s \in Resources, BeginArchive(r, a, s)
      PROVE  ReservationsStay \/ ReservedFor(r)
  <2>1. CASE ~ReserveAllowed(s)
    BY <1>3, <1>8, <2>1, ReturnHolds DEF BeginArchive
  <2>2. CASE ReserveAllowed(s)
    <3> DEFINE rate == [remaining |-> pool[s].remaining, reset |-> pool[s].reset]
               cost == ReservationCost(pool[s])
               yes == TRUE
               x == [NoRequest EXCEPT !.at = "consume", !.kind = "archive", !.resource = s,
                        !.admission = a, !.cost = cost, !.holds = yes, !.before = rate]
    <3>1. pool[s].reset \in Resets /\ cost \in Nat /\ yes
      BY <2>2, UsableShowsRate DEF ReserveAllowed
    <3>2. req' = [req EXCEPT ![r] = x]
      BY <1>8, <2>2 DEF BeginArchive
    <3>3. rate.reset = pool[s].reset
      OBVIOUS
    <3>4. reservations' = [reservations EXCEPT ![s] = ReserveAttempt(reservations[s], pool[s])]
      BY <1>8, <2>2 DEF BeginArchive
    <3>5. reservations' = [reservations EXCEPT ![s][pool[s].reset] = @ + cost]
      BY <3>4 DEF ReserveAttempt
    <3>6. ~q.holds
      BY <1>1, <1>8 DEF BeginArchive, Carries
    <3> HIDE DEF rate, cost, yes
    <3>7. x.holds = yes /\ x.resource = s /\ x.before = rate /\ x.cost = cost
      BY DEF NoRequest
    <3>8. req'[r] = x /\ \A p \in Requests \ {r} : HoldsStill(p)
      BY <3>2, OnlyOneMoves
    <3>9. pool' = pool
      BY <1>8 DEF BeginArchive
    <3> HIDE DEF x
    <3> QED
      BY <3>1, <3>3, <3>5, <3>6, <3>7, <3>8, <3>9 DEF ReservedFor
  <2> QED
    BY <2>1, <2>2
<1>9. CASE ConsumeAllowance(r)
  <2>1. req' = [req EXCEPT ![r] = [q EXCEPT !.at = Onward(q.kind)]]
    BY <1>9 DEF ConsumeAllowance, TypeOK
  <2>2. Same([q EXCEPT !.at = Onward(q.kind)])
    BY <1>1 DEF RequestTypes
  <2> HIDE DEF Same
  <2>3. \A p \in Requests : HoldsStill(p)
    BY <1>2, <2>1, <2>2
  <2> QED
    BY <1>3, <1>9, <2>3 DEF ConsumeAllowance
<1>10. CASE ConsumeRefused(r)
  <2> DEFINE no == FALSE
             x == Returned([q EXCEPT !.holds = no])
  <2>1. req' = [req EXCEPT ![r] = x] /\ Release(r) /\ pool' = pool
    BY <1>10 DEF ConsumeRefused
  <2>2. x.holds = no /\ no \in BOOLEAN /\ ~no
    <3>1. [q EXCEPT !.holds = no].holds = no
      <4> HIDE DEF no
      <4> QED
        BY <1>1 DEF RequestTypes
    <3> QED
      BY <3>1 DEF Returned, NoRequest
  <2> HIDE DEF no, x
  <2>3. req'[r] = x /\ \A p \in Requests \ {r} : HoldsStill(p)
    BY <2>1, OnlyOneMoves
  <2>4. CASE q.holds
    BY <2>1, <2>2, <2>3, <2>4 DEF GivenBack
  <2>5. CASE ~q.holds
    <3>1. Same(x)
      BY <1>1, <2>2, <2>5 DEF RequestTypes
    <3>2. reservations' = reservations
      BY <2>1, <2>5 DEF Release
    <3> HIDE DEF Same
    <3> QED
      BY <1>2, <1>3, <2>1, <3>1, <3>2
  <2> QED
    BY <2>4, <2>5
<1>11. CASE SpendLocked(r)
  <2>1. CASE ~Spends(budget, q.kind = "essential")
    BY <1>3, <1>11, <2>1, ReturnHolds DEF SpendLocked
  <2>2. CASE Spends(budget, q.kind = "essential")
    <3> DEFINE window == budget'.window
    <3>1. req' = [req EXCEPT ![r] = [q EXCEPT !.at = "wire", !.window = window]]
      BY <1>11, <2>2 DEF SpendLocked, TypeOK
    <3> HIDE DEF window
    <3>2. Same([q EXCEPT !.at = "wire", !.window = window])
      BY <1>1 DEF RequestTypes
    <3> HIDE DEF Same
    <3>3. \A p \in Requests : HoldsStill(p)
      BY <1>2, <3>1, <3>2
    <3> QED
      BY <1>3, <1>11, <3>3 DEF SpendLocked
  <2> QED
    BY <2>1, <2>2
<1>12. CASE Refund(r)
  <2> DEFINE yes == TRUE
  <2>1. req' = [req EXCEPT ![r] = [q EXCEPT !.at = "observe", !.refunded = yes]]
    BY <1>12 DEF Refund, TypeOK
  <2> HIDE DEF yes
  <2>2. Same([q EXCEPT !.at = "observe", !.refunded = yes])
    BY <1>1 DEF RequestTypes
  <2> HIDE DEF Same
  <2>3. \A p \in Requests : HoldsStill(p)
    BY <1>2, <2>1, <2>2
  <2> QED
    BY <1>3, <1>12, <2>3 DEF Refund
<1>13. CASE Observe(r)
  <2> DEFINE s == q.resource
             x == IF q.kind = "archive" THEN [q EXCEPT !.at = "reconcile"] ELSE Returned(q)
  <2>1. /\ q.kind \in Kinds /\ q.header \in Rates \cup {NoRate} /\ s \in Resources
        /\ pool[s] \in Pools
    BY <1>1, <1>13 DEF Observe, Carries, RequestTypes, TypeOK, Out
  <2>2. \A p \in Requests : HoldsStill(p)
    <3>1. CASE q.kind = "archive"
      <4>1. req' = [req EXCEPT ![r] = [q EXCEPT !.at = "reconcile"]]
        BY <1>13, <3>1 DEF Observe
      <4>2. Same([q EXCEPT !.at = "reconcile"])
        BY <1>1 DEF RequestTypes
      <4> HIDE DEF Same
      <4> QED
        BY <1>2, <4>1, <4>2
    <3>2. CASE q.kind # "archive"
      BY <1>13, <3>2, ReturnHolds DEF Observe, Return
    <3> QED
      BY <3>1, <3>2
  <2>3. CASE q.header = NoRate
    BY <1>3, <1>13, <2>2, <2>3 DEF Observe
  <2>4. CASE q.header # NoRate
    <3>1. q.header \in Rates
      BY <2>1, <2>4
    <3>2. /\ pool' = [pool EXCEPT ![s] = ObserveHeaders(pool[s], q.header)]
          /\ reservations' = [reservations EXCEPT ![s] = ReservationsAfter(@, pool[s], q.header)]
      BY <1>13, <2>4 DEF Observe
    <3>3. pool'[s] = ObserveHeaders(pool[s], q.header)
          /\ \A t \in Resources \ {s} : pool'[t] = pool[t]
      BY <2>1, <3>2 DEF TypeOK
    <3>4. PoolShown(s, q.header)
      BY <2>1, <2>2, <3>1, <3>2, <3>3, ShownReset DEF PoolShown
    <3> QED
      BY <2>1, <3>1, <3>4
  <2> QED
    BY <2>3, <2>4
<1>14. CASE Reconcile(r)
  <2>1. CASE ~Settles(q) \/ ~q.holds
    <3>1. reservations' = reservations /\ pool' = pool
      BY <1>14, <2>1 DEF Reconcile, Release
    <3>2. PICK x : Same(x) /\ req' = [req EXCEPT ![r] = x]
      <4>1. CASE ~Settles(q)
        <5>1. req' = [req EXCEPT ![r] = [q EXCEPT !.at = "raise"]]
          BY <1>14, <4>1 DEF Reconcile, TypeOK
        <5>2. Same([q EXCEPT !.at = "raise"])
          BY <1>1 DEF RequestTypes
        <5> QED
          BY <5>1, <5>2
      <4>2. CASE Settles(q)
        <5> DEFINE no == FALSE
        <5>1. req' = [req EXCEPT ![r] = [q EXCEPT !.at = "raise", !.holds = no]]
          BY <1>14, <4>2 DEF Reconcile, TypeOK
        <5>2. ~q.holds /\ q.holds = no
          BY <1>1, <2>1, <4>2 DEF RequestTypes
        <5> HIDE DEF no
        <5>3. Same([q EXCEPT !.at = "raise", !.holds = no])
          BY <1>1, <5>2 DEF RequestTypes
        <5> QED
          BY <5>1, <5>3
      <4> QED
        BY <4>1, <4>2
    <3> HIDE DEF Same
    <3> QED
      BY <1>2, <1>3, <3>1, <3>2
  <2>2. CASE Settles(q) /\ q.holds
    <3> DEFINE no == FALSE
               x == [q EXCEPT !.at = "raise", !.holds = no]
    <3>1. req' = [req EXCEPT ![r] = x] /\ Release(r) /\ pool' = pool /\ ~no
      BY <1>14, <2>2 DEF Reconcile, TypeOK
    <3> HIDE DEF no
    <3>2. x.holds = no
      BY <1>1 DEF RequestTypes
    <3>3. req'[r] = x /\ \A p \in Requests \ {r} : HoldsStill(p)
      BY <3>1, OnlyOneMoves
    <3> HIDE DEF x
    <3> QED
      BY <2>2, <3>1, <3>2, <3>3 DEF GivenBack
  <2> QED
    BY <2>1, <2>2
<1>15. CASE RaiseCost(r)
  <2>1. q.resource \in Resources
    BY <1>1, <1>15 DEF RaiseCost, Carries, Out
  <2>2. \A reset, cost, t : t \in Resources =>
          RaiseAttemptCost(pool[t], reset, cost).reset = pool[t].reset
    BY DEF RaiseAttemptCost, TypeOK, Pools
  <2>3. \A t \in Resources : pool'[t].reset = pool[t].reset
    BY <1>15, <2>1, <2>2 DEF RaiseCost, TypeOK
  <2> QED
    BY <1>15, <2>3, ReturnHolds DEF RaiseCost, ReservationsStay
<1>16. CASE Lose(r)
  BY <1>3, <1>16, ReturnHolds DEF Lose
<1>17. ASSUME NEW charge \in 0 .. MaxCost, NEW headers \in BOOLEAN, NEW notModified \in BOOLEAN,
              Answer(r, charge, headers, notModified)
       PROVE  ReservationsStay
  <2> DEFINE header == IF headers THEN provider'[q.resource] ELSE NoRate
             at == IF Counted(q.kind) /\ notModified THEN "notModified" ELSE "observe"
  <2>1. req' = [req EXCEPT ![r].at = at, ![r].header = header]
    BY <1>17 DEF Answer
  <2> HIDE DEF at, header
  <2>2. req' = [req EXCEPT ![r] = [q EXCEPT !.at = at, !.header = header]]
    BY <2>1 DEF TypeOK
  <2>3. Same([q EXCEPT !.at = at, !.header = header])
    BY <1>1 DEF RequestTypes
  <2> HIDE DEF Same
  <2>4. \A p \in Requests : HoldsStill(p)
    BY <1>2, <2>2, <2>3
  <2> QED
    BY <1>3, <1>17, <2>4 DEF Answer
<1> HIDE DEF q, Same
<1> QED
  BY <1>6, <1>7, <1>8, <1>9, <1>10, <1>11, <1>12, <1>13, <1>14, <1>15, <1>16, <1>17
     DEF Attempt, Wire

LEMMA ReservationsMove ==
    ASSUME TypeOK, AttemptsCarry, PoolsShowRates, [Next]_vars
    PROVE  \/ ReservationsStay
           \/ \E r \in Requests : ReservedFor(r) \/ GivenBack(r)
           \/ \E s \in Resources, rate \in Rates : PoolShown(s, rate)
<1>1. ASSUME req' = req PROVE \A p \in Requests : HoldsStill(p)
  BY <1>1 DEF HoldsStill
<1>2. ASSUME NEW s \in Resources, NEW rate \in Rates, ApplySnapshot(s, rate)
      PROVE  PoolShown(s, rate)
  <2>1. pool[s] \in Pools
    BY DEF TypeOK
  <2>2. pool'[s] = UpdateSnapshot(pool[s], rate)
        /\ \A t \in Resources \ {s} : pool'[t] = pool[t]
    BY <1>2 DEF ApplySnapshot, TypeOK
  <2>3. /\ reservations' = [reservations EXCEPT ![s] = ReservationsAfter(@, pool[s], rate)]
        /\ req' = req
    BY <1>2 DEF ApplySnapshot
  <2>4. pool'[s].reset = IF ReplacesPool(pool[s], rate) THEN rate.reset ELSE pool[s].reset
    BY <2>1, <2>2, ShownReset
  <2> QED
    BY <1>1, <2>2, <2>3, <2>4 DEF PoolShown
<1>3. ASSUME req' = req, pool' = pool, reservations' = reservations PROVE ReservationsStay
  BY <1>1, <1>3 DEF ReservationsStay
<1>4. \/ \E r \in Requests : Attempt(r) \/ Wire(r)
      \/ \E s \in Resources, rate \in Rates : ApplySnapshot(s, rate)
      \/ req' = req /\ pool' = pool /\ reservations' = reservations
  BY DEF Next, AdmitOnProviderQuota, AdmitOnLocalBudget, WindowResets, HourElapses,
         ProviderWindowReset, SetBudgetLimit, vars
<1> QED
  BY <1>2, <1>3, <1>4, AttemptReserves

\* An attempt's units, and those of a pool's window, are finitely many.
UnitsOf(r) == {r} \X (1 .. req[r].cost)

LEMMA UnitsAreFinite ==
    ASSUME TypeOK, NEW r \in Requests
    PROVE  IsFiniteSet(UnitsOf(r)) /\ Cardinality(UnitsOf(r)) = req[r].cost
<1>1. req[r].cost \in Nat
  BY DEF TypeOK, RequestTypes
<1>2. IsFiniteSet(1 .. req[r].cost) /\ Cardinality(1 .. req[r].cost) = req[r].cost
  <2> DEFINE n == req[r].cost
             I == 1 .. n
  <2>1. 1 \in Int /\ n \in Int
    BY <1>1
  <2>2. IsFiniteSet(I) /\ Cardinality(I) = IF 1 > n THEN 0 ELSE n - 1 + 1
    <3> HIDE DEF n
    <3> QED
      BY <2>1, FS_Interval
  <2> HIDE DEF I, n
  <2>3. Cardinality(I) = n
    BY <1>1, <2>2 DEF n
  <2> QED
    BY <2>2, <2>3 DEF I, n
<1>3. IsFiniteSet({r}) /\ Cardinality({r}) = 1
  BY FS_Singleton
<1>4. IsFiniteSet(UnitsOf(r)) /\ Cardinality(UnitsOf(r)) = 1 * req[r].cost
  BY <1>2, <1>3, FS_Product DEF UnitsOf
<1> QED
  BY <1>1, <1>4

LEMMA ReservedAreFinite ==
    ASSUME TypeOK, NEW s, NEW w
    PROVE  IsFiniteSet(ReservedUnits(s, w)) /\ Cardinality(ReservedUnits(s, w)) \in Nat
<1> DEFINE H == Holders(s, w)
           U == {UnitsOf(r) : r \in H}
           units == [r \in H |-> UnitsOf(r)]
<1>1. H \subseteq Requests
  BY DEF Holders
<1>2. IsFiniteSet(H)
  BY <1>1, FS_Subset, TransportAssumption
<1>3. units \in Surjection(H, U)
  <2>1. units \in [H -> U] /\ \A u \in U : \E r \in H : units[r] = u
    OBVIOUS
  <2> QED
    BY <2>1 DEF Surjection
<1>4. IsFiniteSet(U)
  <2> HIDE DEF H, U, units
  <2> QED
    BY <1>2, <1>3, FS_Surjection
<1>5. \A u \in U : IsFiniteSet(u)
  BY <1>1, UnitsAreFinite
<1>6. ReservedUnits(s, w) = UNION U
  BY DEF ReservedUnits, UnitsOf
<1>7. IsFiniteSet(UNION U)
  <2> HIDE DEF U
  <2> QED
    BY <1>4, <1>5, FS_UNION
<1> QED
  BY <1>6, <1>7, FS_CardinalityType

\* One attempt's units come on top of the others', and go from among them.
LEMMA ReservedJoin ==
    ASSUME TypeOK, TypeOK', NEW r \in Requests, ~req[r].holds, req'[r].holds,
           \A p \in Requests \ {r} : HoldsStill(p), NEW s, NEW w
    PROVE  IF req'[r].resource = s /\ req'[r].before.reset = w
             THEN Cardinality(ReservedUnits(s, w)') =
                    Cardinality(ReservedUnits(s, w)) + req'[r].cost
             ELSE ReservedUnits(s, w)' = ReservedUnits(s, w)
<1> DEFINE A == ReservedUnits(s, w)
           B == UnitsOf(r)'
<1>1. \A p \in Requests : p # r =>
        (p \in Holders(s, w)' <=> p \in Holders(s, w))
        /\ (p \in Holders(s, w) => req'[p].cost = req[p].cost)
  BY DEF Holders, HoldsStill
<1>2. r \notin Holders(s, w)
  BY DEF Holders
<1>3. CASE req'[r].resource = s /\ req'[r].before.reset = w
  <2>1. Holders(s, w)' = Holders(s, w) \cup {r}
    BY <1>1, <1>3 DEF Holders
  <2>2. ReservedUnits(s, w)' = A \cup B
    <3> DEFINE old == [p \in Requests |-> UnitsOf(p)]
               new == [p \in Requests |-> UnitsOf(p)']
    <3>1. /\ A = UNION {old[p] : p \in Holders(s, w)}
          /\ ReservedUnits(s, w)' = UNION {new[p] : p \in Holders(s, w)'}
          /\ B = new[r]
      BY DEF ReservedUnits, UnitsOf, Holders
    <3>2. \A p \in Holders(s, w) : p \in Requests /\ new[p] = old[p]
      BY <1>1, <1>2 DEF Holders, UnitsOf
    <3> HIDE DEF old, new, A, B
    <3> QED
      BY <2>1, <3>1, <3>2
  <2>3. A \cap B = {}
    BY <1>2 DEF ReservedUnits, UnitsOf
  <2>4. IsFiniteSet(A) /\ Cardinality(A) \in Nat
    BY ReservedAreFinite
  <2>5. IsFiniteSet(B) /\ Cardinality(B) = req'[r].cost
    <3>1. (IsFiniteSet(UnitsOf(r)) /\ Cardinality(UnitsOf(r)) = req[r].cost)'
      BY UnitsAreFinite, PTL
    <3> QED
      BY <3>1
  <2>6. req'[r].cost \in Nat
    BY DEF TypeOK, RequestTypes
  <2> HIDE DEF A, B
  <2>7. Cardinality(A \cup B) = Cardinality(A) + Cardinality(B) - Cardinality({})
    BY <2>3, <2>4, <2>5, FS_Union
  <2>8. Cardinality({}) = 0
    BY FS_EmptySet
  <2>9. Cardinality(A \cup B) = Cardinality(A) + req'[r].cost
    BY <2>4, <2>5, <2>6, <2>7, <2>8
  <2> QED
    BY <1>3, <2>2, <2>9 DEF A
<1>4. CASE ~(req'[r].resource = s /\ req'[r].before.reset = w)
  <2>1. Holders(s, w)' = Holders(s, w)
    BY <1>1, <1>2, <1>4 DEF Holders
  <2> QED
    BY <1>1, <1>2, <1>4, <2>1 DEF ReservedUnits, Holders
<1> QED
  BY <1>3, <1>4

LEMMA ReservedLeave ==
    ASSUME TypeOK, NEW r \in Requests, req[r].holds, ~req'[r].holds,
           \A p \in Requests \ {r} : HoldsStill(p), NEW s, NEW w
    PROVE  IF req[r].resource = s /\ req[r].before.reset = w
             THEN /\ Cardinality(ReservedUnits(s, w)') + req[r].cost =
                       Cardinality(ReservedUnits(s, w))
                  /\ Cardinality(ReservedUnits(s, w)') \in Nat
             ELSE ReservedUnits(s, w)' = ReservedUnits(s, w)
<1> DEFINE A == ReservedUnits(s, w)'
           B == UnitsOf(r)
<1>1. \A p \in Requests : p # r =>
        (p \in Holders(s, w)' <=> p \in Holders(s, w))
        /\ (p \in Holders(s, w) => req'[p].cost = req[p].cost)
  BY DEF Holders, HoldsStill
<1>2. r \notin Holders(s, w)'
  BY DEF Holders
<1>3. CASE req[r].resource = s /\ req[r].before.reset = w
  <2>1. Holders(s, w) = Holders(s, w)' \cup {r}
    BY <1>1, <1>3 DEF Holders
  <2>2. ReservedUnits(s, w) = A \cup B
    <3> DEFINE old == [p \in Requests |-> UnitsOf(p)]
               new == [p \in Requests |-> UnitsOf(p)']
    <3>1. /\ ReservedUnits(s, w) = UNION {old[p] : p \in Holders(s, w)}
          /\ A = UNION {new[p] : p \in Holders(s, w)'}
          /\ B = old[r]
      BY DEF ReservedUnits, UnitsOf, Holders
    <3>2. \A p \in Holders(s, w)' : p \in Requests /\ new[p] = old[p]
      BY <1>1, <1>2 DEF Holders, UnitsOf
    <3> HIDE DEF old, new, A, B
    <3> QED
      BY <2>1, <3>1, <3>2
  <2>3. A \cap B = {}
    BY <1>2 DEF ReservedUnits, UnitsOf
  <2>4. IsFiniteSet(A \cup B)
    BY <2>2, ReservedAreFinite
  <2>5. IsFiniteSet(B) /\ Cardinality(B) = req[r].cost /\ req[r].cost \in Nat
    BY UnitsAreFinite DEF TypeOK, RequestTypes
  <2> HIDE DEF A, B
  <2>6. IsFiniteSet(A) /\ Cardinality(A) \in Nat
    BY <2>4, FS_Subset, FS_CardinalityType
  <2>7. Cardinality(A \cup B) = Cardinality(A) + Cardinality(B) - Cardinality({})
    BY <2>3, <2>5, <2>6, FS_Union
  <2>8. Cardinality({}) = 0
    BY FS_EmptySet
  <2>9. Cardinality(A \cup B) = Cardinality(A) + req[r].cost
    BY <2>5, <2>6, <2>7, <2>8
  <2> QED
    BY <1>3, <2>2, <2>6, <2>9 DEF A
<1>4. CASE ~(req[r].resource = s /\ req[r].before.reset = w)
  <2>1. Holders(s, w)' = Holders(s, w)
    BY <1>1, <1>2, <1>4 DEF Holders
  <2> QED
    BY <1>1, <1>2, <1>4, <2>1 DEF ReservedUnits, Holders
<1> QED
  BY <1>3, <1>4

LEMMA ReservedStay ==
    ASSUME \A p \in Requests : HoldsStill(p), NEW s, NEW w
    PROVE  ReservedUnits(s, w)' = ReservedUnits(s, w)
<1>1. /\ Holders(s, w)' = Holders(s, w)
      /\ \A p \in Holders(s, w) : req'[p].cost = req[p].cost
  BY DEF Holders, HoldsStill
<1> QED
  BY <1>1 DEF ReservedUnits

LEMMA ReservationsStep ==
    ASSUME TypeOK, TypeOK', AttemptsCarry, PoolsShowRates, ReservationsExact, [Next]_vars
    PROVE  ReservationsExact'
<1> SUFFICES ASSUME NEW s \in Resources, NEW w \in Resets
             PROVE  reservations'[s][w] =
                      IF w < pool'[s].reset THEN 0 ELSE Cardinality(ReservedUnits(s, w)')
  BY DEF ReservationsExact, ReservedUnits, Holders
<1> DEFINE n == Cardinality(ReservedUnits(s, w))
<1>1. reservations[s][w] = IF w < pool[s].reset THEN 0 ELSE n
  BY DEF ReservationsExact
<1>2. /\ n \in Nat /\ w \in Int /\ pool[s] \in Pools /\ pool[s].reset \in Int
      /\ reservations \in [Resources -> [Resets -> Nat]]
  <2>1. n \in Nat
    BY ReservedAreFinite
  <2>2. pool[s] \in Pools /\ reservations \in [Resources -> [Resets -> Nat]]
    BY DEF TypeOK, Reservations
  <2>3. w \in Int /\ pool[s].reset \in Int
    BY <2>2, QuotaAssumption DEF Pools, Resets
  <2> QED
    BY <2>1, <2>2, <2>3
<1> HIDE DEF n
<1>3. CASE ReservationsStay
  BY <1>1, <1>3, ReservedStay DEF ReservationsStay, n
<1>4. ASSUME NEW t \in Resources, NEW rate \in Rates, PoolShown(t, rate)
      PROVE  reservations'[s][w] =
               IF w < pool'[s].reset THEN 0 ELSE Cardinality(ReservedUnits(s, w)')
  <2>1. Cardinality(ReservedUnits(s, w)') = n
    BY <1>4, ReservedStay DEF PoolShown, n
  <2>2. CASE s # t
    <3>1. reservations'[s] = reservations[s] /\ pool'[s] = pool[s]
      BY <1>2, <1>4, <2>2 DEF PoolShown
    <3> QED
      BY <1>1, <2>1, <3>1
  <2>3. CASE s = t
    <3>1. /\ reservations'[s] = ReservationsAfter(reservations[s], pool[s], rate)
          /\ pool'[s].reset = IF ReplacesPool(pool[s], rate) THEN rate.reset ELSE pool[s].reset
      BY <1>2, <1>4, <2>3 DEF PoolShown
    <3>2. CASE ~ReplacesPool(pool[s], rate)
      BY <1>1, <2>1, <3>1, <3>2 DEF ReservationsAfter
    <3>3. CASE ReplacesPool(pool[s], rate)
      <4>1. rate.reset \in Int /\ rate.reset > pool[s].reset
        BY <1>2, <3>3, QuotaAssumption DEF ReplacesPool, PoolsShowRates, Rates, Resets
      <4>2. reservations'[s][w] = IF w < rate.reset THEN 0 ELSE reservations[s][w]
        BY <3>1, <3>3 DEF ReservationsAfter, ClearBefore
      <4> QED
        BY <1>1, <1>2, <2>1, <3>1, <3>3, <4>1, <4>2
    <3> QED
      BY <3>2, <3>3
  <2> QED
    BY <2>2, <2>3
<1>5. ASSUME NEW r \in Requests, ReservedFor(r)
      PROVE  reservations'[s][w] =
               IF w < pool'[s].reset THEN 0 ELSE Cardinality(ReservedUnits(s, w)')
  <2> DEFINE q == req'[r]
             v == q.before.reset
             t == q.resource
  <2>1. /\ ~req[r].holds /\ q.holds /\ pool' = pool
        /\ t \in Resources /\ v \in Resets /\ v = pool[t].reset /\ q.cost \in Nat
        /\ reservations' = [reservations EXCEPT ![t][v] = @ + q.cost]
        /\ \A p \in Requests \ {r} : HoldsStill(p)
    BY <1>5 DEF ReservedFor
  <2>2. IF t = s /\ v = w THEN Cardinality(ReservedUnits(s, w)') = n + q.cost
                          ELSE ReservedUnits(s, w)' = ReservedUnits(s, w)
    BY <2>1, ReservedJoin DEF n
  <2> HIDE DEF q
  <2>3. reservations'[s][w] = IF t = s /\ v = w THEN reservations[s][w] + q.cost
                              ELSE reservations[s][w]
    BY <1>2, <2>1
  <2>4. CASE t = s /\ v = w
    BY <1>1, <1>2, <2>1, <2>2, <2>3, <2>4
  <2>5. CASE ~(t = s /\ v = w)
    BY <1>1, <2>1, <2>2, <2>3, <2>5 DEF n
  <2> QED
    BY <2>4, <2>5
<1>6. ASSUME NEW r \in Requests, GivenBack(r)
      PROVE  reservations'[s][w] =
               IF w < pool'[s].reset THEN 0 ELSE Cardinality(ReservedUnits(s, w)')
  <2> DEFINE q == req[r]
             v == q.before.reset
             t == q.resource
  <2>1. /\ q.holds /\ ~req'[r].holds /\ pool' = pool
        /\ \A p \in Requests \ {r} : HoldsStill(p)
    BY <1>6 DEF GivenBack
  <2>2. q \in RequestTypes /\ t \in Resources /\ v \in Resets /\ q.cost \in Nat
    BY <2>1 DEF TypeOK, AttemptsCarry, Carries, Rates, RequestTypes
  <2>3. reservations' = [reservations EXCEPT
          ![t] = ReleaseReservation(reservations[t], v, q.cost)]
    BY <1>6, <2>1 DEF GivenBack, Release
  <2>4. IF t = s /\ v = w THEN /\ Cardinality(ReservedUnits(s, w)') + q.cost = n
                               /\ Cardinality(ReservedUnits(s, w)') \in Nat
                          ELSE ReservedUnits(s, w)' = ReservedUnits(s, w)
    BY <2>1, ReservedLeave DEF n
  <2> HIDE DEF q
  <2>5. reservations'[s][w] = IF t = s /\ v = w THEN Larger(reservations[s][w] - q.cost, 0)
                              ELSE reservations[s][w]
    BY <1>2, <2>2, <2>3 DEF ReleaseReservation
  <2>6. CASE t = s /\ v = w
    BY <1>1, <1>2, <2>1, <2>2, <2>4, <2>5, <2>6 DEF Larger
  <2>7. CASE ~(t = s /\ v = w)
    BY <1>1, <2>1, <2>4, <2>5, <2>7 DEF n
  <2> QED
    BY <2>6, <2>7
<1> QED
  BY <1>3, <1>4, <1>5, <1>6, ReservationsMove

-----------------------------------------------------------------------------

\* The inductive invariant.
TransportInv ==
    /\ TypeOK /\ AttemptsCarry /\ PoolsShowRates /\ WindowsOpened /\ LimitIsSet
    /\ SpentIsExact /\ CeilingHoldsAlways /\ ReservationsExact

LEMMA TransportInit == Init => TransportInv
<1> SUFFICES ASSUME Init PROVE TransportInv
  OBVIOUS
<1> USE TransportAssumption, QuotaAssumption
<1>1. PICK limit \in BudgetLimits : budget = NewSyncBudgetWithEssentialReserve(limit)
  BY DEF Init
<1>2. limit \in Nat /\ EssentialReserve(limit) \in Nat
  BY ReserveType
<1>3. \A r \in Requests : req[r] = NoRequest
  BY DEF Init
<1>4. TypeOK
  <2>1. budget \in Budgets
    BY <1>1, <1>2 DEF NewSyncBudgetWithEssentialReserve, Budgets
  <2>2. UnobservedPool \in Pools
    BY DEF UnobservedPool, Pools
  <2>3. pool \in [Resources -> Pools]
    BY <2>2 DEF Init
  <2>4. reservations \in [Resources -> Reservations]
    BY DEF Init, Reservations
  <2>5. allowance \in [Admissions -> [granted : BOOLEAN, fromProvider : BOOLEAN, left : Nat]]
    BY DEF Init
  <2>6. req \in [Requests -> RequestTypes]
    BY NoRequestType DEF Init
  <2>7. [remaining : 0 .. ProviderLimit, reset : {1}] \subseteq Rates
    BY DEF Rates, Resets
  <2>8. provider \in [Resources -> Rates]
    BY <2>7 DEF Init
  <2> QED
    BY <2>1, <2>3, <2>4, <2>5, <2>6, <2>8 DEF TypeOK
<1>5. AttemptsCarry
  BY <1>3 DEF AttemptsCarry, Carries, NoRequest, Out, Counted
<1>6. PoolsShowRates
  BY DEF Init, PoolsShowRates, UnobservedPool
<1>7. WindowsOpened
  BY <1>3 DEF WindowsOpened, NoRequest
<1>8. LimitIsSet
  BY <1>1 DEF LimitIsSet, NewSyncBudgetWithEssentialReserve
<1>9. \A w \in Nat : SpentIn(w) = {}
  BY <1>3 DEF SpentIn, NoRequest
<1>10. Cardinality({}) = 0
  BY FS_EmptySet
<1>11. SpentIsExact
  <2>1. budget.spent = 0 /\ budget.archiveSpent = 0 /\ budget.window = 0
    BY <1>1 DEF NewSyncBudgetWithEssentialReserve
  <2> QED
    BY <1>9, <1>10, <2>1 DEF SpentIsExact
<1>12. CeilingHoldsAlways
  <2>1. Max(BudgetLimits) \in Nat
    BY HighestLimit
  <2>2. EssentialReserve(Max(BudgetLimits)) \in Nat
        /\ EssentialReserve(Max(BudgetLimits)) <= Max(BudgetLimits)
    BY <2>1, ReserveType
  <2>3. {} \cap Optional = {}
    OBVIOUS
  <2>4. \A w \in Nat : Cardinality(SpentIn(w)) = 0 /\ Cardinality(SpentIn(w) \cap Optional) = 0
    BY <1>9, <1>10, <2>3
  <2> QED
    BY <2>1, <2>2, <2>4 DEF CeilingHoldsAlways, HoldsIn
<1>13. ReservationsExact
  <2> SUFFICES ASSUME NEW s \in Resources, NEW w \in Resets
               PROVE  reservations[s][w] = 0 /\ Cardinality(ReservedUnits(s, w)) = 0
    BY DEF ReservationsExact
  <2>1. Holders(s, w) = {}
    BY <1>3 DEF Holders, NoRequest
  <2>2. ReservedUnits(s, w) = {}
    BY <2>1 DEF ReservedUnits
  <2> QED
    BY <1>10, <2>2 DEF Init
<1> QED
  BY <1>4, <1>5, <1>6, <1>7, <1>8, <1>11, <1>12, <1>13 DEF TransportInv

LEMMA TransportStep == TransportInv /\ [Next]_vars => TransportInv'
  BY TransportTypesStep, CarriesStep, PoolsStep, OpenedStep, LimitStep, ExactStep, CeilingStep,
     ReservationsStep DEF TransportInv

LEMMA TransportInvariant == Spec => []TransportInv
  BY TransportInit, TransportStep, PTL DEF Spec

\* Budget, registry, attempts and provider keep their shapes, for any number of
\* attempts, resources and admissions: no count falls below zero.
THEOREM TransportTypeOK == Spec => []TypeOK
  BY TransportInvariant, PTL DEF TransportInv

\* The budget counts exactly the requests that were spent in its window and not
\* answered 304 (SyncBudget.Spend, Refund): no refund is taken twice or given to
\* a window it does not belong to.
THEOREM TransportSpentIsExact == Spec => []SpentIsExact
  BY TransportInvariant, PTL DEF TransportInv

\* No window lets out more than the highest ceiling configured, and what is not
\* essential leaves the essential reserve of it alone (trySpendForTransport),
\* through every change of the setting and reset of the window.
THEOREM TransportCeilingHolds == Spec => []CeilingHolds
<1>1. TransportInv => CeilingHolds
  <2> SUFFICES ASSUME TransportInv, NEW w \in 0 .. MaxBudgetWindow
               PROVE  /\ Cardinality(SpentIn(w)) <= Max(BudgetLimits)
                      /\ Cardinality(SpentIn(w) \cap Optional) <=
                           Max(BudgetLimits) - EssentialReserve(Max(BudgetLimits))
    BY DEF CeilingHolds, Optional
  <2>1. w \in Nat
    BY TransportAssumption
  <2> QED
    BY <2>1 DEF TransportInv, CeilingHoldsAlways, HoldsIn
<1> QED
  BY <1>1, TransportInvariant, PTL

\* What is reserved against the current window of a pool is what the attempts
\* hold that were let out on it and not settled (reserveArchiveAttempt,
\* releaseArchiveReservation, clearReservationsBeforeLocked), for any number of
\* attempts and resources and whatever each of them costs.
THEOREM TransportReservationsExact == Spec => []ReservationsExact
  BY TransportInvariant, PTL DEF TransportInv

\* Once the registry was shown an attempt's answer, no answer that comes late or
\* out of order makes it forget that (QuotaRegistry.ObserveHeaders); only a
\* /rate_limit snapshot can.
THEOREM TransportObservedStaySeen == Spec => ObservedStaySeen
<1>1. TransportInv /\ [Next]_vars =>
        [ObservedAreSeen /\ ~(\E s \in Resources, rate \in Rates : ApplySnapshot(s, rate))
            => ObservedAreSeen']_vars
  BY ObservedStep DEF TransportInv
<1> QED
  BY <1>1, TransportInvariant, PTL DEF Spec, ObservedStaySeen

-----------------------------------------------------------------------------
(* The cooldown of a feature. *)

\* A cooldown, as recorded under one key.
Deferrals == [generation : Nat, reservation : Nat, due : BOOLEAN, by : Cooldown!Refs]

Probes == [ref : Cooldown!Refs, key : Cooldown!Keys, generation : Nat, reservation : Nat,
      bypass : BOOLEAN]

CooldownTypes ==
    /\ states \in [Cooldown!Keys -> Deferrals]
    /\ nextGeneration \in Nat
    /\ nextReservation \in Nat
    /\ lanePc \in [Lanes -> {"idle", "probing", "deferred"}]
    /\ probe \in [Lanes -> Probes]
    /\ began \in [Lanes -> Nat]

\* Generations and reservations are handed out in order, and what is recorded
\* has a generation.
Numbered ==
    \A k \in Cooldown!Keys :
        /\ states[k].generation <= nextGeneration
        /\ states[k].reservation <= nextReservation
        /\ states[k].generation = 0 => states[k] = Cooldown!NoState

\* An id's cooldown is its own, and one generation is one repository's.
RecordedByOne ==
    /\ \A k \in Repos : Cooldown!Recorded(k) => states[k].by = k
    /\ \A j, k \in Cooldown!Keys :
        Cooldown!Recorded(j) /\ states[j].generation = states[k].generation =>
              states[j].by = states[k].by

\* The cooldown of key k is one that ref r may end.
MayEnd(r, k) == r \in {Bare, states[k].by} \/ states[k].by = Bare

\* A probe looks at a key of its ref, at a generation from before it began,
\* and that generation is one it may end.
ProbesObserve ==
    \A l \in Lanes :
        /\ probe[l].key \in Cooldown!KeysOf(probe[l].ref)
        /\ probe[l].generation <= began[l]
        /\ began[l] <= nextGeneration
        /\ probe[l].reservation <= nextReservation
        /\ probe[l].bypass => probe[l].reservation = 0
        /\ Cooldown!Recorded(probe[l].key) /\ states[probe[l].key].generation = probe[l].generation
             => MayEnd(probe[l].ref, probe[l].key)

\* A reservation is of the generation it was made in.
ReservedOnce ==
    \A l \in Lanes :
        probe[l].reservation # 0 /\ states[probe[l].key].reservation = probe[l].reservation
            => states[probe[l].key].generation = probe[l].generation

CooldownInv ==
    /\ CooldownTypes
    /\ Numbered
    /\ RecordedByOne
    /\ ProbesObserve
    /\ ReservedOnce
    /\ Cooldown!ReservationIsHeld

-----------------------------------------------------------------------------

LEMMA KeyForIsKey ==
    ASSUME NEW r \in Cooldown!Refs
    PROVE  Cooldown!KeyFor(r) \in Cooldown!Keys /\ Cooldown!KeyFor(r) \in Cooldown!KeysOf(r)
<1>1. CASE r = Bare
  BY <1>1 DEF Cooldown!KeyFor, Cooldown!KeysOf, Cooldown!Keys
<1>2. CASE r # Bare
  BY <1>2 DEF Cooldown!KeyFor, Cooldown!KeysOf, Cooldown!Keys, Cooldown!Refs
<1> QED
  BY <1>1, <1>2

LEMMA KeysOfAreKeys ==
    ASSUME NEW r \in Cooldown!Refs
    PROVE  Cooldown!KeysOf(r) \subseteq Cooldown!Keys
  BY DEF Cooldown!KeysOf, Cooldown!Keys, Cooldown!Refs

\* What is recorded under the key a probe takes is the repository's own, or of
\* a ref without identity on either side.
LEMMA KeyForMayEnd ==
    ASSUME RecordedByOne, NEW r \in Cooldown!Refs, Cooldown!Recorded(Cooldown!KeyFor(r))
    PROVE  MayEnd(r, Cooldown!KeyFor(r))
<1>1. CASE r = Bare
  BY <1>1 DEF MayEnd
<1>2. CASE r # Bare /\ Cooldown!Recorded(r)
  <2>1. Cooldown!KeyFor(r) = r /\ r \in Repos
    BY <1>2 DEF Cooldown!KeyFor, Cooldown!Refs
  <2> QED
    BY <1>2, <2>1 DEF MayEnd, RecordedByOne
<1>3. CASE r # Bare /\ ~Cooldown!Recorded(r)
  <2>1. Cooldown!KeyFor(r) = Cooldown!Route /\ states[Cooldown!Route].by \in {Bare, r}
    BY <1>3 DEF Cooldown!KeyFor
  <2> QED
    BY <2>1 DEF MayEnd
<1> QED
  BY <1>1, <1>2, <1>3

LEMMA CooldownInit == ASSUME Cooldown!CooldownConstants, Cooldown!Init PROVE CooldownInv
<1>1. CooldownTypes
  BY DEF CooldownTypes, Deferrals, Probes, Cooldown!Init, Cooldown!NoState, Cooldown!NoProbe,
         Cooldown!Keys, Cooldown!Refs
<1>2. Numbered /\ RecordedByOne /\ ReservedOnce /\ Cooldown!ReservationIsHeld
  BY DEF Numbered, RecordedByOne, ReservedOnce, Cooldown!ReservationIsHeld, Cooldown!Recorded,
         Cooldown!Init, Cooldown!NoState,
         Cooldown!NoProbe, Cooldown!Keys
<1>3. ProbesObserve
  <2>1. ASSUME NEW l \in Lanes
        PROVE  /\ probe[l].key \in Cooldown!KeysOf(probe[l].ref)
               /\ probe[l].generation <= began[l] /\ began[l] <= nextGeneration
               /\ probe[l].reservation <= nextReservation /\ probe[l].reservation = 0
               /\ MayEnd(probe[l].ref, probe[l].key)
    BY DEF Cooldown!Init, Cooldown!NoProbe, Cooldown!KeysOf, MayEnd
  <2> QED
    BY <2>1 DEF ProbesObserve
<1> QED
  BY <1>1, <1>2, <1>3 DEF CooldownInv

-----------------------------------------------------------------------------
(* What a step does to a cooldown: it stays, perhaps reserved or due, it goes  *)
(* away, or it is recorded anew.                                               *)

Reserved(k) ==
    /\ nextReservation' = nextReservation + 1
    /\ states'[k].reservation = nextReservation'

Kept(k) ==
    /\ states'[k] \in Deferrals
    /\ states'[k].generation = states[k].generation
    /\ states'[k].by = states[k].by
    /\ states[k].generation = 0 => states'[k] = states[k]
    /\ states'[k].reservation \in {0, states[k].reservation} \/ Reserved(k)

KeptOrGone ==
    /\ nextGeneration' = nextGeneration
    /\ nextReservation' \in {nextReservation, nextReservation + 1}
    /\ states' = [k \in Cooldown!Keys |-> states'[k]]
    /\ \A k \in Cooldown!Keys : Kept(k) \/ states'[k] = Cooldown!NoState

Renewal(r) ==
    /\ nextGeneration' = nextGeneration + 1
    /\ nextReservation' = nextReservation
    /\ states' = [k \in Cooldown!Keys |->
         IF k \in Cooldown!KeysOf(r)
           THEN [generation |-> nextGeneration + 1, reservation |-> 0, due |-> FALSE, by |-> r]
           ELSE states[k]]

\* A step that leaves the cooldowns alone keeps them.
LEMMA SameIsKept ==
    ASSUME CooldownTypes, states' = states, UNCHANGED Cooldown!counters
    PROVE  KeptOrGone
  BY DEF CooldownTypes, KeptOrGone, Kept, Cooldown!counters

\* So does one that takes reservations back.
LEMMA FreedIsKept ==
    ASSUME CooldownTypes, Numbered, NEW k \in Cooldown!Keys, states[k].reservation # 0,
           states' = [states EXCEPT ![k].reservation = 0], UNCHANGED Cooldown!counters
    PROVE  KeptOrGone
<1>1. \A j \in Cooldown!Keys : states[j] \in Deferrals
  BY DEF CooldownTypes
<1>2. states[k].generation # 0
  BY DEF Numbered, Cooldown!NoState
<1>3. Kept(k)
  BY <1>1, <1>2 DEF CooldownTypes, Kept, Deferrals
<1>4. \A j \in Cooldown!Keys \ {k} : Kept(j)
  BY <1>1 DEF CooldownTypes, Kept
<1> QED
  BY <1>3, <1>4 DEF KeptOrGone, Cooldown!counters, CooldownTypes

\* And one that clears some of them.
LEMMA ClearedIsKept ==
    ASSUME CooldownTypes, NEW p \in Probes, UNCHANGED Cooldown!counters,
           \/ states' = Cooldown!Cleared(p)
           \/ states' = [states EXCEPT ![p.key] = Cooldown!NoState]
    PROVE  KeptOrGone
<1>1. \A j \in Cooldown!Keys : states[j] \in Deferrals
  BY DEF CooldownTypes
<1>2. states' = [j \in Cooldown!Keys |-> states'[j]] /\
      \A j \in Cooldown!Keys : states'[j] \in {states[j], Cooldown!NoState}
  BY DEF Cooldown!Cleared, CooldownTypes
<1> QED
  BY <1>1, <1>2 DEF KeptOrGone, Kept, Cooldown!counters

LEMMA ReleasedIsKept ==
    ASSUME CooldownTypes, NEW p \in Probes, UNCHANGED Cooldown!counters,
          states' = Cooldown!Released(p)
    PROVE  KeptOrGone
<1>1. CASE p.bypass \/ Cooldown!Holds(p)
  BY <1>1, ClearedIsKept DEF Cooldown!Released
<1>2. CASE ~p.bypass /\ ~Cooldown!Holds(p)
  BY <1>2, SameIsKept DEF Cooldown!Released
<1> QED
  BY <1>1, <1>2

LEMMA CooldownKinds ==
    ASSUME CooldownTypes, Numbered, [Cooldown!Next]_(Cooldown!vars)
    PROVE  KeptOrGone \/ \E r \in Cooldown!Refs : Renewal(r)
<1>1. ASSUME NEW l \in Lanes, NEW r \in Cooldown!Refs, Cooldown!BeginProbe(l, r)
      PROVE  KeptOrGone
  <2> DEFINE k == Cooldown!KeyFor(r)
  <2>1. k \in Cooldown!Keys
    BY KeyForIsKey
  <2>2. \A j \in Cooldown!Keys : states[j] \in Deferrals
    BY DEF CooldownTypes
  <2>3. CASE ~Cooldown!Recorded(k)
    BY <1>1, <2>3, SameIsKept DEF Cooldown!BeginProbe, Cooldown!Probing, Cooldown!counters
  <2>4. CASE Cooldown!Recorded(k)
    <3>1. /\ nextReservation' = nextReservation + 1
          /\ states' = [states EXCEPT ![k].reservation = nextReservation']
          /\ nextGeneration' = nextGeneration
      BY <1>1, <2>4 DEF Cooldown!BeginProbe, Cooldown!Probing
    <3>2. states[k].generation # 0
      BY <2>1, <2>4 DEF Numbered, Cooldown!Recorded
    <3>3. Kept(k)
      BY <2>1, <2>2, <3>1, <3>2 DEF CooldownTypes, Kept, Deferrals, Reserved
    <3>4. \A j \in Cooldown!Keys \ {k} : Kept(j)
      BY <2>2, <3>1 DEF CooldownTypes, Kept
    <3> QED
      BY <3>1, <3>3, <3>4 DEF KeptOrGone, CooldownTypes
  <2> QED
    BY <2>3, <2>4
<1>2. ASSUME NEW l \in Lanes, Cooldown!Abandon(l)
      PROVE  KeptOrGone
  <2>1. probe[l] \in Probes
    BY DEF CooldownTypes
  <2>2. CASE Cooldown!Holds(probe[l])
    BY <1>2, <2>1, <2>2, FreedIsKept DEF Cooldown!Abandon, Cooldown!Holds, Probes
  <2>3. CASE ~Cooldown!Holds(probe[l])
    BY <1>2, <2>3, SameIsKept DEF Cooldown!Abandon
  <2> QED
    BY <2>2, <2>3
<1>3. ASSUME NEW l \in Lanes, Cooldown!Release(l) \/ Cooldown!Clear(l)
      PROVE  KeptOrGone
  <2>1. probe[l] \in Probes
    BY DEF CooldownTypes
  <2> QED
    BY <1>3, <2>1, ReleasedIsKept, ClearedIsKept DEF Cooldown!Release, Cooldown!Clear
<1>4. ASSUME NEW l \in Lanes, Cooldown!Defer(l)
      PROVE  \E r \in Cooldown!Refs : Renewal(r)
  BY <1>4 DEF Cooldown!Defer, Renewal, CooldownTypes, Probes
<1>5. ASSUME NEW g \in 1 .. nextGeneration, Cooldown!Elapse(g)
      PROVE  KeptOrGone
  <2>1. \A j \in Cooldown!Keys : states[j] \in Deferrals
    BY DEF CooldownTypes
  <2>2. \A j \in Cooldown!Keys : states'[j] = states[j]
                        \/ /\ states[j].generation = g
                           /\ states'[j] = [states[j] EXCEPT !.due = TRUE]
    BY <1>5 DEF Cooldown!Elapse
  <2>3. \A j \in Cooldown!Keys : Kept(j)
    <3> SUFFICES ASSUME NEW j \in Cooldown!Keys PROVE Kept(j)
      OBVIOUS
    <3>1. g # 0
      BY <1>5 DEF Cooldown!Elapse
    <3> QED
      BY <2>1, <2>2, <3>1 DEF Kept, Deferrals
  <2> QED
    BY <1>5, <2>3 DEF KeptOrGone, Cooldown!Elapse, Cooldown!counters
<1>6. ASSUME NEW l \in Lanes, NEW r \in Cooldown!Refs, Cooldown!BeginBypass(l, r)
      PROVE  KeptOrGone
  BY <1>6, SameIsKept DEF Cooldown!BeginBypass, Cooldown!Probing, Cooldown!counters
<1>7. ASSUME NEW l \in Lanes, Cooldown!BeginRun(l) \/ Cooldown!AdmitFails(l)
      PROVE  KeptOrGone
  BY <1>7, SameIsKept DEF Cooldown!BeginRun, Cooldown!AdmitFails
<1>8. CASE UNCHANGED Cooldown!vars
  BY <1>8, SameIsKept DEF Cooldown!vars, Cooldown!counters
<1> QED
  BY <1>1, <1>2, <1>3, <1>4, <1>5, <1>6, <1>7, <1>8 DEF Cooldown!Next

\* The numbers stay in order, and a generation stays one repository's.
LEMMA RecordsStep ==
    ASSUME Cooldown!CooldownConstants, CooldownTypes, Numbered, RecordedByOne,
          [Cooldown!Next]_(Cooldown!vars)
    PROVE  /\ states' \in [Cooldown!Keys -> Deferrals]
           /\ nextGeneration' \in Nat /\ nextReservation' \in Nat
           /\ Numbered'
           /\ RecordedByOne'
<1>1. Cooldown!NoState \in Deferrals
  BY DEF Cooldown!NoState, Deferrals, Cooldown!Refs
<1>2. CASE KeptOrGone
  <2>1. \A k \in Cooldown!Keys : states'[k] \in Deferrals
    BY <1>1, <1>2 DEF KeptOrGone, Kept
  <2>2. nextGeneration' \in Nat /\ nextReservation' \in Nat
    BY <1>2 DEF KeptOrGone, CooldownTypes
  <2>3. Numbered'
    <3> SUFFICES ASSUME NEW k \in Cooldown!Keys
                 PROVE  /\ states'[k].generation <= nextGeneration'
                        /\ states'[k].reservation <= nextReservation'
                        /\ states'[k].generation = 0 => states'[k] = Cooldown!NoState
      BY DEF Numbered
    <3>1. CASE Kept(k)
      BY <1>2, <3>1 DEF KeptOrGone, Kept, Reserved, Numbered, CooldownTypes, Deferrals
    <3>2. CASE states'[k] = Cooldown!NoState
      BY <1>2, <2>2, <3>2 DEF Cooldown!NoState
    <3> QED
      BY <1>2, <3>1, <3>2 DEF KeptOrGone
  <2>4. \A k \in Cooldown!Keys : Cooldown!Recorded(k)' => Kept(k) /\ Cooldown!Recorded(k)
    <3> SUFFICES ASSUME NEW k \in Cooldown!Keys, states'[k] # Cooldown!NoState PROVE Kept(k) /\
          states[k] # Cooldown!NoState
      BY DEF Cooldown!Recorded
    <3>1. Kept(k)
      BY <1>2 DEF KeptOrGone
    <3>2. states[k] = Cooldown!NoState => states[k].generation = 0
      BY DEF Cooldown!NoState
    <3> QED
      BY <3>1, <3>2 DEF Kept
  <2>5. RecordedByOne'
    <3>1. \A k \in Repos : Cooldown!Recorded(k)' => states'[k].by = k
      BY <2>4 DEF RecordedByOne, Kept, Cooldown!Keys
    <3>2. ASSUME NEW j \in Cooldown!Keys, NEW k \in Cooldown!Keys, Cooldown!Recorded(j)',
                 states'[j].generation = states'[k].generation
          PROVE  states'[j].by = states'[k].by
      <4>1. Cooldown!Recorded(k)'
        <5>1. states'[j].generation # 0
          BY <2>3, <3>2 DEF Numbered, Cooldown!Recorded
        <5> QED
          BY <3>2, <5>1 DEF Cooldown!Recorded, Cooldown!NoState
      <4> QED
        BY <2>4, <3>2, <4>1 DEF RecordedByOne, Kept
    <3> QED
      BY <3>1, <3>2 DEF RecordedByOne
  <2>6. states' \in [Cooldown!Keys -> Deferrals]
    BY <1>2, <2>1 DEF KeptOrGone
  <2> QED
    BY <2>2, <2>3, <2>5, <2>6
<1>3. ASSUME NEW r \in Cooldown!Refs, Renewal(r)
      PROVE  /\ states' \in [Cooldown!Keys -> Deferrals]
             /\ nextGeneration' \in Nat /\ nextReservation' \in Nat
             /\ Numbered'
             /\ RecordedByOne'
  <2>1. states' \in [Cooldown!Keys -> Deferrals]
    BY <1>3 DEF Renewal, CooldownTypes, Deferrals
  <2>2. nextGeneration' \in Nat /\ nextReservation' \in Nat
    BY <1>3 DEF Renewal, CooldownTypes
  <2>3. Numbered'
    BY <1>3 DEF Renewal, CooldownTypes, Numbered, Deferrals
  <2>4. \A k \in Repos : Cooldown!Recorded(k)' => states'[k].by = k
    BY <1>3
       DEF Renewal, RecordedByOne, Cooldown!Recorded, Cooldown!KeysOf, Cooldown!Keys,
           Cooldown!Refs, Cooldown!CooldownConstants
  <2>5. ASSUME NEW j \in Cooldown!Keys, NEW k \in Cooldown!Keys, Cooldown!Recorded(j)',
               states'[j].generation = states'[k].generation
        PROVE  states'[j].by = states'[k].by
    <3>1. \A i \in Cooldown!Keys : states[i].generation # nextGeneration + 1
      BY DEF Numbered, CooldownTypes, Deferrals
    <3>2. CASE j \in Cooldown!KeysOf(r) \/ k \in Cooldown!KeysOf(r)
      BY <1>3, <2>5, <3>1, <3>2 DEF Renewal
    <3>3. CASE j \notin Cooldown!KeysOf(r) /\ k \notin Cooldown!KeysOf(r)
      BY <1>3, <2>5, <3>3 DEF Renewal, RecordedByOne, Cooldown!Recorded
    <3> QED
      BY <3>2, <3>3
  <2> QED
    BY <2>1, <2>2, <2>3, <2>4, <2>5 DEF RecordedByOne
<1> QED
  BY <1>2, <1>3, CooldownKinds

-----------------------------------------------------------------------------
(* What a step does to the probes. *)

\* A probe of ref r that begins in this step, reserved or not.
Begins(l, r) ==
    LET k == Cooldown!KeyFor(r) IN
    /\ KeptOrGone
    /\ nextGeneration' = nextGeneration
    /\ Kept(k)
    /\ probe'[l].ref = r /\ probe'[l].key = k
    /\ probe'[l].generation = states[k].generation
    /\ \/ probe'[l].reservation = 0
       \/ probe'[l].reservation = nextReservation' /\ ~probe'[l].bypass
    /\ began'[l] = nextGeneration

LEMMA ProbeKinds ==
    ASSUME CooldownTypes, Numbered, [Cooldown!Next]_(Cooldown!vars), NEW l \in Lanes
    PROVE  \/ probe'[l] = probe[l] /\ began'[l] = began[l]
           \/ probe'[l] = Cooldown!NoProbe /\ began'[l] = 0
           \/ \E r \in Cooldown!Refs : Begins(l, r)
<1>1. \A k \in Cooldown!Keys : states[k] \in Deferrals
  BY DEF CooldownTypes
<1>2. ASSUME NEW m \in Lanes, NEW r \in Cooldown!Refs, Cooldown!BeginBypass(m, r)
      PROVE  \/ probe'[l] = probe[l] /\ began'[l] = began[l]
             \/ Begins(l, r)
  <2>1. Cooldown!KeyFor(r) \in Cooldown!Keys
    BY KeyForIsKey
  <2>2. KeptOrGone
    BY <1>2, SameIsKept DEF Cooldown!BeginBypass, Cooldown!Probing, Cooldown!counters
  <2>3. Kept(Cooldown!KeyFor(r))
    BY <1>1, <1>2, <2>1 DEF Cooldown!BeginBypass, Kept
  <2>4. CASE m = l
    BY <1>2, <2>2, <2>3, <2>4 DEF Cooldown!BeginBypass, Cooldown!Probing, Begins, CooldownTypes
  <2>5. CASE m # l
    BY <1>2, <2>5 DEF Cooldown!BeginBypass, Cooldown!Probing, CooldownTypes
  <2> QED
    BY <2>4, <2>5
<1>3. ASSUME NEW m \in Lanes, NEW r \in Cooldown!Refs, Cooldown!BeginProbe(m, r)
      PROVE  \/ probe'[l] = probe[l] /\ began'[l] = began[l]
             \/ Begins(l, r)
  <2> DEFINE k == Cooldown!KeyFor(r)
  <2>1. k \in Cooldown!Keys
    BY KeyForIsKey
  <2>2. KeptOrGone /\ nextGeneration' = nextGeneration
    <3>1. ~ \E q \in Cooldown!Refs : Renewal(q)
      BY <1>3 DEF Cooldown!BeginProbe, Cooldown!Probing, Renewal, CooldownTypes
    <3> QED
      BY <1>3, <3>1, CooldownKinds DEF KeptOrGone
  <2>3. Kept(k)
    <3>1. CASE ~Cooldown!Recorded(k)
      BY <1>1, <1>3, <2>1, <3>1 DEF Cooldown!BeginProbe, Kept
    <3>2. CASE Cooldown!Recorded(k)
      <4>1. states'[k] # Cooldown!NoState
        <5>1. states'[k].generation = states[k].generation /\ states[k].generation # 0
          BY <1>1, <1>3, <2>1, <3>2
             DEF Cooldown!BeginProbe, Numbered, Cooldown!Recorded, CooldownTypes, Deferrals
        <5> QED
          BY <5>1 DEF Cooldown!NoState
      <4> QED
        BY <2>1, <2>2, <4>1 DEF KeptOrGone
    <3> QED
      BY <3>1, <3>2
  <2>4. CASE m = l
    <3>1. probe'[l].ref = r /\ probe'[l].key = k /\ began'[l] = nextGeneration
      BY <1>3, <2>4 DEF Cooldown!BeginProbe, Cooldown!Probing, CooldownTypes
    <3>2. ~Cooldown!Recorded(k) => states[k].generation = 0
      BY DEF Cooldown!Recorded, Cooldown!NoState
    <3>3. /\ probe'[l].generation = states[k].generation
          /\ \/ probe'[l].reservation = 0
             \/ probe'[l].reservation = nextReservation' /\ ~probe'[l].bypass
      BY <1>3, <2>4, <3>2 DEF Cooldown!BeginProbe, Cooldown!Probing, CooldownTypes
    <3> QED
      BY <2>2, <2>3, <3>1, <3>3 DEF Begins
  <2>5. CASE m # l
    BY <1>3, <2>5 DEF Cooldown!BeginProbe, Cooldown!Probing, CooldownTypes
  <2> QED
    BY <2>4, <2>5
<1>4. ASSUME NEW m \in Lanes,
             \/ Cooldown!BeginRun(m) \/ Cooldown!Abandon(m) \/ Cooldown!AdmitFails(m) \/
                   Cooldown!Release(m) \/ Cooldown!Clear(m) \/ Cooldown!Defer(m)
      PROVE  \/ probe'[l] = probe[l] /\ began'[l] = began[l]
             \/ probe'[l] = Cooldown!NoProbe /\ began'[l] = 0
  BY <1>4
     DEF Cooldown!BeginRun, Cooldown!Abandon, Cooldown!AdmitFails, Cooldown!Release,
         Cooldown!Clear, Cooldown!Defer, Cooldown!Finished, CooldownTypes
<1>5. CASE (\E g \in 1 .. nextGeneration : Cooldown!Elapse(g)) \/ UNCHANGED Cooldown!vars
  BY <1>5 DEF Cooldown!Elapse, Cooldown!vars
<1> QED
  BY <1>2, <1>3, <1>4, <1>5 DEF Cooldown!Next

\* The lanes keep their types.
LEMMA LaneTypesStep ==
    ASSUME CooldownTypes, Numbered, [Cooldown!Next]_(Cooldown!vars)
    PROVE  /\ lanePc' \in [Lanes -> {"idle", "probing", "deferred"}]
           /\ probe' \in [Lanes -> Probes]
           /\ began' \in [Lanes -> Nat]
<1>1. Cooldown!NoProbe \in Probes
  BY DEF Cooldown!NoProbe, Probes, Cooldown!Refs, Cooldown!Keys
<1>2. \A k \in Cooldown!Keys : states[k] \in Deferrals
  BY DEF CooldownTypes
<1>3. ASSUME NEW l \in Lanes, NEW r \in Cooldown!Refs, Cooldown!BeginBypass(l, r) \/
      Cooldown!BeginProbe(l, r)
      PROVE  /\ lanePc' \in [Lanes -> {"idle", "probing", "deferred"}]
             /\ probe' \in [Lanes -> Probes]
             /\ began' \in [Lanes -> Nat]
  <2>1. Cooldown!KeyFor(r) \in Cooldown!Keys /\ states[Cooldown!KeyFor(r)].generation \in Nat
    BY <1>2, KeyForIsKey DEF Deferrals
  <2>2. ASSUME NEW g \in Nat, NEW n \in Nat, NEW b \in BOOLEAN, Cooldown!Probing(l, r, g, n, b)
        PROVE  /\ lanePc' \in [Lanes -> {"idle", "probing", "deferred"}]
               /\ probe' \in [Lanes -> Probes]
               /\ began' \in [Lanes -> Nat]
    <3>1. [ref |-> r, key |-> Cooldown!KeyFor(r), generation |-> g, reservation |-> n, bypass |-> b]
            \in Probes
      BY <2>1 DEF Probes
    <3> QED
      BY <2>2, <3>1 DEF Cooldown!Probing, CooldownTypes
  <2>3. nextReservation + 1 \in Nat
    BY DEF CooldownTypes
  <2> QED
    BY <1>3, <2>1, <2>2, <2>3 DEF Cooldown!BeginBypass, Cooldown!BeginProbe
<1>4. ASSUME NEW l \in Lanes,
             \/ Cooldown!BeginRun(l) \/ Cooldown!Abandon(l) \/ Cooldown!AdmitFails(l) \/
                   Cooldown!Release(l) \/ Cooldown!Clear(l) \/ Cooldown!Defer(l)
      PROVE  /\ lanePc' \in [Lanes -> {"idle", "probing", "deferred"}]
             /\ probe' \in [Lanes -> Probes]
             /\ began' \in [Lanes -> Nat]
  BY <1>1, <1>4
     DEF Cooldown!BeginRun, Cooldown!Abandon, Cooldown!AdmitFails, Cooldown!Release,
         Cooldown!Clear, Cooldown!Defer, Cooldown!Finished, CooldownTypes
<1>5. CASE (\E g \in 1 .. nextGeneration : Cooldown!Elapse(g)) \/ UNCHANGED Cooldown!vars
  BY <1>5 DEF Cooldown!Elapse, Cooldown!vars, CooldownTypes
<1> QED
  BY <1>3, <1>4, <1>5 DEF Cooldown!Next

\* A probe keeps looking at what it may end: what is recorded after it began
\* has a later generation.
LEMMA ProbesObserveStep ==
    ASSUME Cooldown!CooldownConstants, CooldownTypes, Numbered, RecordedByOne, ProbesObserve,
          [Cooldown!Next]_(Cooldown!vars)
    PROVE  ProbesObserve'
<1> SUFFICES ASSUME NEW l \in Lanes
             PROVE  /\ probe'[l].key \in Cooldown!KeysOf(probe'[l].ref)
                    /\ probe'[l].generation <= began'[l]
                    /\ began'[l] <= nextGeneration'
                    /\ probe'[l].reservation <= nextReservation'
                    /\ probe'[l].bypass => probe'[l].reservation = 0
                    /\ /\ Cooldown!Recorded(probe[l].key)'
                       /\ states'[probe'[l].key].generation = probe'[l].generation
                       => MayEnd(probe[l].ref, probe[l].key)'
  BY DEF ProbesObserve
<1>1. nextGeneration' \in Nat /\ nextReservation' \in Nat
  BY RecordsStep
<1>2. probe[l] \in Probes /\ began[l] \in Nat
  BY DEF CooldownTypes
<1>3. nextGeneration <= nextGeneration' /\ nextReservation <= nextReservation'
  BY CooldownKinds DEF KeptOrGone, Renewal, CooldownTypes
<1>4. CASE probe'[l] = probe[l] /\ began'[l] = began[l]
  <2> DEFINE k == probe[l].key
  <2>1. /\ k \in Cooldown!KeysOf(probe[l].ref) /\ k \in Cooldown!Keys
        /\ probe[l].generation <= began[l] /\ began[l] <= nextGeneration
        /\ probe[l].reservation <= nextReservation
        /\ probe[l].bypass => probe[l].reservation = 0
        /\ Cooldown!Recorded(k) /\ states[k].generation = probe[l].generation =>
              MayEnd(probe[l].ref, k)
    BY <1>2 DEF ProbesObserve, Probes
  <2>2. ASSUME states'[k] # Cooldown!NoState, states'[k].generation = probe[l].generation
        PROVE  probe[l].ref \in {Bare, states'[k].by} \/ states'[k].by = Bare
    <3>1. CASE KeptOrGone
      <4>1. Kept(k)
        BY <2>1, <2>2, <3>1 DEF KeptOrGone
      <4>2. Cooldown!Recorded(k)
        <5>1. states[k] = Cooldown!NoState => states[k].generation = 0
          BY DEF Cooldown!NoState
        <5> QED
          BY <2>2, <4>1, <5>1 DEF Kept, Cooldown!Recorded
      <4> QED
        BY <2>1, <2>2, <4>1, <4>2 DEF Kept, MayEnd
    <3>2. ASSUME NEW r \in Cooldown!Refs, Renewal(r)
          PROVE  probe[l].ref \in {Bare, states'[k].by} \/ states'[k].by = Bare
      <4>1. k \notin Cooldown!KeysOf(r)
        <5>1. SUFFICES ASSUME k \in Cooldown!KeysOf(r) PROVE FALSE
          OBVIOUS
        <5>2. states'[k].generation = nextGeneration + 1
          BY <2>1, <3>2, <5>1 DEF Renewal
        <5> QED
          BY <1>2, <2>1, <2>2, <5>2 DEF CooldownTypes, Probes
      <4>2. states'[k] = states[k]
        BY <2>1, <3>2, <4>1 DEF Renewal
      <4> QED
        BY <2>1, <2>2, <4>2 DEF MayEnd, Cooldown!Recorded
    <3> QED
      BY <3>1, <3>2, CooldownKinds
  <2>3. /\ began[l] <= nextGeneration'
        /\ probe[l].reservation <= nextReservation'
    BY <1>1, <1>2, <1>3, <2>1 DEF Probes, CooldownTypes
  <2> QED
    BY <1>4, <2>1, <2>2, <2>3 DEF MayEnd, Cooldown!Recorded
<1>5. CASE probe'[l] = Cooldown!NoProbe /\ began'[l] = 0
  BY <1>1, <1>5 DEF Cooldown!NoProbe, Cooldown!KeysOf, MayEnd
<1>6. ASSUME NEW r \in Cooldown!Refs, Begins(l, r)
      PROVE  /\ probe'[l].key \in Cooldown!KeysOf(probe'[l].ref)
             /\ probe'[l].generation <= began'[l]
             /\ began'[l] <= nextGeneration'
             /\ probe'[l].reservation <= nextReservation'
             /\ probe'[l].bypass => probe'[l].reservation = 0
             /\ /\ Cooldown!Recorded(probe[l].key)'
                /\ states'[probe'[l].key].generation = probe'[l].generation
                => MayEnd(probe[l].ref, probe[l].key)'
  <2> DEFINE k == Cooldown!KeyFor(r)
  <2>1. k \in Cooldown!Keys /\ k \in Cooldown!KeysOf(r)
    BY KeyForIsKey
  <2>2. /\ probe'[l].key \in Cooldown!KeysOf(probe'[l].ref)
        /\ probe'[l].generation <= began'[l]
    BY <1>6, <2>1 DEF Begins, Numbered
  <2>3. began'[l] <= nextGeneration'
    BY <1>1, <1>3, <1>6 DEF Begins
  <2>4. /\ probe'[l].reservation <= nextReservation'
        /\ probe'[l].bypass => probe'[l].reservation = 0
    BY <1>1, <1>6 DEF Begins
  <2>5. ASSUME states'[k] # Cooldown!NoState
        PROVE  r \in {Bare, states'[k].by} \/ states'[k].by = Bare
    <3>1. Kept(k)
      BY <1>6 DEF Begins
    <3>2. Cooldown!Recorded(k)
      <4>1. states[k] = Cooldown!NoState => states[k].generation = 0
        BY DEF Cooldown!NoState
      <4> QED
        BY <2>5, <3>1, <4>1 DEF Kept, Cooldown!Recorded
    <3>3. MayEnd(r, k)
      BY <3>2, KeyForMayEnd
    <3> QED
      BY <3>1, <3>3 DEF Kept, MayEnd
  <2>6. probe'[l].ref = r /\ probe'[l].key = k
    BY <1>6 DEF Begins
  <2> QED
    BY <2>2, <2>3, <2>4, <2>5, <2>6 DEF MayEnd, Cooldown!Recorded
<1> QED
  BY <1>4, <1>5, <1>6, ProbeKinds

LEMMA ReservedOnceStep ==
    ASSUME CooldownTypes, Numbered, ProbesObserve, ReservedOnce, [Cooldown!Next]_(Cooldown!vars)
    PROVE  ReservedOnce'
<1> SUFFICES ASSUME NEW l \in Lanes, probe'[l].reservation # 0,
                    states'[probe'[l].key].reservation = probe'[l].reservation
             PROVE  states'[probe'[l].key].generation = probe'[l].generation
  BY DEF ReservedOnce
<1>1. CASE probe'[l] = probe[l]
  <2> DEFINE k == probe[l].key
  <2>1. k \in Cooldown!Keys /\ probe[l].reservation \in Nat /\
        probe[l].reservation <= nextReservation
    BY DEF CooldownTypes, Probes, ProbesObserve
  <2>2. CASE KeptOrGone
    <3>1. Kept(k)
      BY <1>1, <2>1, <2>2 DEF KeptOrGone, Cooldown!NoState
    <3>2. ~Reserved(k)
      BY <1>1, <2>1 DEF Reserved, CooldownTypes
    <3> QED
      BY <1>1, <3>1, <3>2 DEF Kept, ReservedOnce
  <2>3. ASSUME NEW r \in Cooldown!Refs, Renewal(r)
        PROVE  states'[k].generation = probe[l].generation
    <3>1. k \notin Cooldown!KeysOf(r)
      BY <1>1, <2>1, <2>3 DEF Renewal
    <3> QED
      BY <1>1, <2>1, <2>3, <3>1 DEF Renewal, ReservedOnce
  <2> QED
    BY <1>1, <2>2, <2>3, CooldownKinds
<1>2. CASE probe'[l] = Cooldown!NoProbe
  BY <1>2 DEF Cooldown!NoProbe
<1>3. ASSUME NEW r \in Cooldown!Refs, Begins(l, r)
      PROVE  states'[probe'[l].key].generation = probe'[l].generation
  BY <1>3 DEF Begins, Kept
<1> QED
  BY <1>1, <1>2, <1>3, ProbeKinds

-----------------------------------------------------------------------------
(* No reservation outlives its probe. *)

LEMMA ReservationIsHeldStep ==
    ASSUME CooldownInv, [Cooldown!Next]_(Cooldown!vars)
    PROVE  Cooldown!ReservationIsHeld'
<1> SUFFICES ASSUME NEW k \in Cooldown!Keys, states'[k].reservation # 0
             PROVE  \/ states'[k].reservation \in leaked'
                    \/ \E m \in Lanes :
                        /\ lanePc'[m] = "probing"
                        /\ probe'[m].reservation = states'[k].reservation
                        /\ probe'[m].key = k
  BY DEF Cooldown!ReservationIsHeld
<1> USE DEF CooldownInv
<1> DEFINE Held(m) == /\ lanePc[m] = "probing"
                      /\ probe[m].reservation = states[k].reservation
                      /\ probe[m].key = k
<1>1. states[k].reservation \in {0} \union leaked \/ \E m \in Lanes : Held(m)
  BY DEF Cooldown!ReservationIsHeld
<1>2. ASSUME NEW l \in Lanes, NEW r \in Cooldown!Refs, Cooldown!BeginProbe(l, r),
      k = Cooldown!KeyFor(r), Cooldown!Recorded(k)
      PROVE  /\ lanePc'[l] = "probing"
             /\ probe'[l].reservation = states'[k].reservation
             /\ probe'[l].key = k
  BY <1>2 DEF Cooldown!BeginProbe, Cooldown!Probing, CooldownTypes, Deferrals
<1>3. ASSUME NEW l \in Lanes, NEW r \in Cooldown!Refs,
             \/ Cooldown!BeginBypass(l, r)
             \/ Cooldown!BeginProbe(l, r) /\ ~(k = Cooldown!KeyFor(r) /\ Cooldown!Recorded(k))
      PROVE  /\ states'[k] = states[k] /\ leaked' = leaked
             /\ \A m \in Lanes : Held(m) => lanePc'[m] = lanePc[m] /\ probe'[m] = probe[m]
  <2>1. Cooldown!KeyFor(r) \in Cooldown!Keys
    BY KeyForIsKey
  <2>2. leaked' = leaked /\ lanePc[l] = "idle"
    BY <1>3 DEF Cooldown!BeginBypass, Cooldown!BeginProbe, Cooldown!Probing
  <2>3. states'[k] = states[k]
    BY <1>3, <2>1 DEF Cooldown!BeginBypass, Cooldown!BeginProbe, CooldownTypes
  <2>4. \A m \in Lanes \ {l} : lanePc'[m] = lanePc[m] /\ probe'[m] = probe[m]
    BY <1>3 DEF Cooldown!BeginBypass, Cooldown!BeginProbe, Cooldown!Probing, CooldownTypes
  <2> QED
    BY <2>2, <2>3, <2>4
\* The lane that finishes leaves no reservation of its own behind.
<1>4. ASSUME NEW l \in Lanes, Cooldown!Abandon(l) \/ Cooldown!AdmitFails(l) \/
      Cooldown!Release(l) \/ Cooldown!Clear(l), Held(l),
             states[k].reservation # 0
      PROVE  states'[k].reservation \in {0} \union leaked'
  <2> DEFINE p == probe[l]
  <2>1. p.reservation # 0 /\ p.key = k /\ p \in Probes
    BY <1>4 DEF CooldownTypes
  <2>2. Cooldown!Holds(p)
    BY <1>4, <2>1 DEF Cooldown!Holds, ReservedOnce
  <2>3. Cooldown!Recorded(k)
    BY <1>4 DEF Cooldown!Recorded, Cooldown!NoState
  <2>4. ~p.bypass /\ k \in Cooldown!KeysOf(p.ref)
    BY <2>1 DEF ProbesObserve
  <2>5. states \in [Cooldown!Keys -> Deferrals]
    BY DEF CooldownTypes
  <2>6. CASE Cooldown!Abandon(l)
    BY <2>1, <2>2, <2>5, <2>6 DEF Cooldown!Abandon, Deferrals
  <2>7. CASE Cooldown!AdmitFails(l)
    BY <1>4, <2>2, <2>7 DEF Cooldown!AdmitFails
  <2>8. CASE Cooldown!Release(l)
    BY <2>1, <2>2, <2>4, <2>5, <2>8 DEF Cooldown!Release, Cooldown!Released, Cooldown!NoState
  <2>9. CASE Cooldown!Clear(l)
    BY <1>4, <2>1, <2>2, <2>3, <2>4, <2>5, <2>9
       DEF Cooldown!Clear, Cooldown!Cleared, Cooldown!Holds, Cooldown!NoState
  <2> QED
    BY <1>4, <2>6, <2>7, <2>8, <2>9
<1>5. ASSUME NEW l \in Lanes,
             \/ Cooldown!BeginRun(l) \/ Cooldown!Abandon(l) \/ Cooldown!AdmitFails(l) \/
                   Cooldown!Release(l) \/ Cooldown!Clear(l) \/ Cooldown!Defer(l)
      PROVE  /\ states'[k].reservation = states[k].reservation /\ leaked \subseteq leaked'
             /\ \A m \in Lanes \ {l} : lanePc'[m] = lanePc[m] /\ probe'[m] = probe[m]
  <2>1. KeptOrGone \/ \E r \in Cooldown!Refs : Renewal(r)
    BY CooldownKinds
  <2>2. UNCHANGED nextReservation
    BY <1>5
       DEF Cooldown!BeginRun, Cooldown!Abandon, Cooldown!AdmitFails, Cooldown!Release,
           Cooldown!Clear, Cooldown!Defer, Cooldown!counters
  <2>3. states'[k].reservation = states[k].reservation
    BY <2>1, <2>2 DEF KeptOrGone, Renewal, Kept, Reserved, Cooldown!NoState, CooldownTypes
  <2> QED
    BY <1>5, <2>3
       DEF Cooldown!BeginRun, Cooldown!Abandon, Cooldown!AdmitFails, Cooldown!Release,
           Cooldown!Clear, Cooldown!Defer, Cooldown!Finished, CooldownTypes
\* A recorded renewal is free.
<1>6. ASSUME NEW l \in Lanes, Cooldown!Defer(l), Held(l)
      PROVE  FALSE
  <2>1. k \in Cooldown!KeysOf(probe[l].ref)
    BY <1>6 DEF ProbesObserve
  <2> QED
    BY <1>6, <2>1 DEF Cooldown!Defer
<1>7. ASSUME NEW l \in Lanes, Cooldown!BeginRun(l), Held(l)
      PROVE  FALSE
  BY <1>7 DEF Cooldown!BeginRun
<1>8. CASE (\E g \in 1 .. nextGeneration : Cooldown!Elapse(g)) \/ UNCHANGED Cooldown!vars
  <2>1. states'[k].reservation = states[k].reservation
    BY <1>8 DEF Cooldown!Elapse, Cooldown!vars, CooldownTypes, Deferrals
  <2> QED
    BY <1>1, <1>8, <2>1 DEF Cooldown!Elapse, Cooldown!vars
<1>9. ASSUME NEW l \in Lanes,
             \/ Cooldown!BeginRun(l) \/ Cooldown!Abandon(l) \/ Cooldown!AdmitFails(l) \/
                   Cooldown!Release(l) \/ Cooldown!Clear(l) \/ Cooldown!Defer(l)
      PROVE  \/ states'[k].reservation \in leaked'
             \/ \E m \in Lanes :
                 /\ lanePc'[m] = "probing"
                 /\ probe'[m].reservation = states'[k].reservation
                 /\ probe'[m].key = k
  BY <1>1, <1>4, <1>5, <1>6, <1>7, <1>9
<1>10. ASSUME NEW l \in Lanes, NEW r \in Cooldown!Refs, Cooldown!BeginBypass(l, r) \/
      Cooldown!BeginProbe(l, r)
       PROVE  \/ states'[k].reservation \in leaked'
              \/ \E m \in Lanes :
                  /\ lanePc'[m] = "probing"
                  /\ probe'[m].reservation = states'[k].reservation
                  /\ probe'[m].key = k
  BY <1>1, <1>2, <1>3, <1>10
<1> QED
  BY <1>8, <1>9, <1>10 DEF Cooldown!Next

LEMMA CooldownInvStep ==
    ASSUME Cooldown!CooldownConstants, CooldownInv, [Cooldown!Next]_(Cooldown!vars)
    PROVE  CooldownInv'
<1> USE DEF CooldownInv
<1>1. CooldownTypes'
  BY RecordsStep, LaneTypesStep DEF CooldownTypes
<1> QED
  BY <1>1, RecordsStep, ProbesObserveStep, ReservedOnceStep, ReservationIsHeldStep

-----------------------------------------------------------------------------
(* Theorems. *)

\* A step that takes a cooldown away is a probe that finishes, that began after
\* the cooldown was recorded, of a ref that may end it.
LEMMA EndedByItsProbe ==
    ASSUME CooldownInv, [Cooldown!Next]_(Cooldown!vars), NEW k \in Cooldown!Keys,
          Cooldown!Recorded(k), ~Cooldown!Recorded(k)'
    PROVE  \E l \in Lanes :
             /\ lanePc'[l] # lanePc[l]
             /\ began[l] >= states[k].generation
             /\ probe[l].ref \in {Bare, states[k].by} \/ states[k].by = Bare
<1> USE DEF CooldownInv
<1>1. states[k].generation # 0 /\ states'[k] = Cooldown!NoState /\ states'[k].generation = 0
  <2>1. Cooldown!NoState.generation = 0
    BY DEF Cooldown!NoState
  <2> QED
    BY <2>1 DEF Cooldown!Recorded, Numbered
<1>2. \A j \in Cooldown!Keys : states[j] \in Deferrals
  BY DEF CooldownTypes
\* A lane that finishes and matches what is recorded.
<1>3. ASSUME NEW l \in Lanes, NEW j \in Cooldown!Keys, lanePc'[l] # lanePc[l],
      probe[l].key = j, Cooldown!Recorded(j),
             states[j].generation = probe[l].generation,
             states[k].generation = probe[l].generation
      PROVE  /\ began[l] >= states[k].generation
             /\ probe[l].ref \in {Bare, states[k].by} \/ states[k].by = Bare
  <2>1. states[j].by = states[k].by
    BY <1>3 DEF RecordedByOne
  <2>2. MayEnd(probe[l].ref, j)
    BY <1>3 DEF ProbesObserve
  <2>3. began[l] >= probe[l].generation
    BY DEF ProbesObserve, CooldownTypes, Probes
  <2> QED
    BY <1>3, <2>1, <2>2, <2>3 DEF MayEnd
<1>4. ASSUME NEW l \in Lanes, NEW p, p = probe[l], states' = Cooldown!Cleared(p)
      PROVE  /\ Cooldown!Recorded(p.key) /\ states[p.key].generation = p.generation
             /\ states[k].generation = p.generation /\ p.key \in Cooldown!Keys
  BY <1>1, <1>4 DEF Cooldown!Cleared, CooldownTypes, Probes
<1>5. ASSUME NEW l \in Lanes, Cooldown!Release(l) \/ Cooldown!Clear(l)
      PROVE  \E m \in Lanes :
               /\ lanePc'[m] # lanePc[m]
               /\ began[m] >= states[k].generation
               /\ probe[m].ref \in {Bare, states[k].by} \/ states[k].by = Bare
  <2> DEFINE p == probe[l]
  <2>1. lanePc'[l] # lanePc[l]
    BY <1>5 DEF Cooldown!Release, Cooldown!Clear, Cooldown!Finished, CooldownTypes
  <2>2. p \in Probes
    BY DEF CooldownTypes
  <2>3. CASE states' = Cooldown!Cleared(p)
    BY <1>3, <1>4, <2>1, <2>3
  <2>4. CASE Cooldown!Holds(p) /\ states' = [states EXCEPT ![p.key] = Cooldown!NoState]
    <3>1. k = p.key
      BY <1>1, <2>4
    <3> QED
      BY <1>3, <2>1, <2>4, <3>1 DEF Cooldown!Holds
  <2>5. states' # states
    BY <1>1 DEF Cooldown!Recorded
  <2> QED
    BY <1>5, <2>3, <2>4, <2>5 DEF Cooldown!Release, Cooldown!Released, Cooldown!Clear
<1>6. ASSUME NEW l \in Lanes,
             \/ Cooldown!BeginRun(l) \/ Cooldown!Abandon(l) \/ Cooldown!AdmitFails(l) \/
                   Cooldown!Defer(l)
             \/ \E r \in Cooldown!Refs : Cooldown!BeginBypass(l, r) \/ Cooldown!BeginProbe(l, r)
      PROVE  FALSE
  <2>1. CASE Cooldown!Abandon(l)
    BY <1>1, <1>2, <2>1 DEF Cooldown!Abandon, Cooldown!Holds, CooldownTypes, Deferrals
  <2>2. CASE Cooldown!Defer(l)
    BY <1>1, <1>2, <2>2 DEF Cooldown!Defer, CooldownTypes, Deferrals
  <2>3. ASSUME NEW r \in Cooldown!Refs, Cooldown!BeginProbe(l, r)
        PROVE  FALSE
    <3>1. \/ states' = states
          \/ states' = [states EXCEPT ![Cooldown!KeyFor(r)].reservation = nextReservation']
      BY <2>3 DEF Cooldown!BeginProbe
    <3>2. states'[k].generation = states[k].generation
      BY <1>2, <3>1 DEF CooldownTypes, Deferrals
    <3> QED
      BY <1>1, <3>2
  <2> QED
    BY <1>1, <1>6, <2>1, <2>2, <2>3 DEF Cooldown!BeginRun, Cooldown!AdmitFails, Cooldown!BeginBypass
<1>7. ASSUME NEW g \in 1 .. nextGeneration, Cooldown!Elapse(g)
      PROVE  FALSE
  BY <1>1, <1>2, <1>7 DEF Cooldown!Elapse, Deferrals
<1>8. CASE UNCHANGED Cooldown!vars
  BY <1>1, <1>8 DEF Cooldown!vars
<1> QED
  BY <1>5, <1>6, <1>7, <1>8 DEF Cooldown!Next

\* The inductive invariant holds throughout.
LEMMA CooldownInvAlways == ASSUME Cooldown!CooldownConstants PROVE Cooldown!Spec => []CooldownInv
<1>1. Cooldown!Init => CooldownInv
  BY CooldownInit
<1>2. CooldownInv /\ [Cooldown!Next]_(Cooldown!vars) => CooldownInv'
  BY CooldownInvStep
<1> QED
  BY <1>1, <1>2, PTL DEF Cooldown!Spec

\* A feature silenced for one reserved probe has that probe still running, but
\* for the reservations Admit loses with its error (beginProbe, abandon, clear,
\* release): for any lanes, repositories and number of cooldowns.
THEOREM CooldownReservationIsHeld == Cooldown!Spec => []ReservationIsHeld
<1>1. CooldownInv => ReservationIsHeld
  BY DEF CooldownInv, ReservationIsHeld
<1> QED
  BY <1>1, CooldownInvAlways, CooldownAssumption, PTL

\* A cooldown goes away only with a probe that began after it was recorded, and
\* never with one of another identified repository (probe.clear, probe.release).
THEOREM CooldownRenewalStands == Cooldown!Spec => RenewalStands
<1>1. CooldownInv /\ [Cooldown!Next]_(Cooldown!vars) =>
        [\A k \in Cooldown!Keys :
            Cooldown!Recorded(k) /\ ~Cooldown!Recorded(k)' =>
                \E l \in Lanes :
                    /\ lanePc'[l] # lanePc[l]
                    /\ began[l] >= states[k].generation
                    /\ probe[l].ref \in {Bare, states[k].by} \/ states[k].by = Bare]_(Cooldown!vars)
  BY EndedByItsProbe, CooldownAssumption
<1> QED
  BY <1>1, CooldownInvAlways, CooldownAssumption, PTL
     DEF Cooldown!Spec, RenewalStands, Cooldown!RenewalStands

-----------------------------------------------------------------------------
(* The token of a candidate. *)

\* A caller in resolve without a mint refers to no entry, and the entries that
\* are referred to hold something.
References ==
    /\ cached # Token!NoEntry => entry[cached] # "unused"
    /\ \A c \in Callers :
        /\ phase[c] \in {"idle", "resolving"} => on[c] = Token!NoEntry
        /\ phase[c] \in {"minting", "waiting", "token"} => on[c] # Token!NoEntry
        /\ on[c] # Token!NoEntry => entry[on[c]] # "unused"

\* One mint at a time, into the cached entry, by one caller.
OneMint ==
    /\ \A e \in Token!Entries : entry[e] = "minting" => cached = e
    /\ \A c \in Callers : phase[c] = "minting" => entry[on[c]] = "minting"
    /\ \A c, d \in Callers : phase[c] = "minting" /\ phase[d] = "minting" => c = d

\* A caller keeps the token it was given.
TokensStay == \A c \in Callers : phase[c] = "token" => entry[on[c]] = "token"

\* An entry nobody may take an answer from is marked: a canceled mint's, a
\* refused token's, and every usable token's that left the map.
MarksAreComplete ==
    /\ cached \notin invalidated
    /\ refused \subseteq invalidated
    /\ \A e \in Token!Entries : entry[e] = "canceled" => e \in invalidated
    /\ \A e \in Token!Entries : entry[e] = "token" /\ e # cached => e \in over \union invalidated

TokenInv == Token!TypeOK /\ References /\ OneMint /\ TokensStay /\ MarksAreComplete

\* The instance's operators on finite sets are the library's.
LEMMA FiniteCallers ==
    /\ IsFiniteSet(Callers)
    /\ Token!Entries = 1 .. Cardinality(Callers) + 1
<1>1. IsFiniteSet(Callers)
  BY TokenAssumption DEF Token!TokenConstants, Token!IsFiniteSet, IsFiniteSet
<1>2. Token!Cardinality(Callers) = Cardinality(Callers)
  BY Zenon DEF Token!Cardinality, Cardinality
<1> QED
  BY <1>1, <1>2 DEF Token!Entries

LEMMA EntriesAreNumbers == Token!Entries \subseteq Nat \ {0} /\ Token!NoEntry \notin Token!Entries
<1>1. Cardinality(Callers) \in Nat
  BY FiniteCallers, FS_CardinalityType
<1> QED
  BY <1>1, FiniteCallers DEF Token!NoEntry

\* There is an entry for a new mint: the caller that mints refers to none.
LEMMA SomeUnreferenced ==
    ASSUME NEW c \in Callers, on[c] = Token!NoEntry
    PROVE  \E e \in Token!Entries : Token!Unreferenced(e)
<1> SUFFICES ASSUME \A e \in Token!Entries : e = cached \/ \E d \in Callers : on[d] = e
             PROVE  FALSE
  BY DEF Token!Unreferenced
<1> DEFINE user == [x \in Token!Entries |-> IF x = cached THEN c ELSE CHOOSE d \in Callers : on[d] = x]
<1>1. Cardinality(Callers) \in Nat
  BY FiniteCallers, FS_CardinalityType
<1>2. IsFiniteSet(Token!Entries) /\ Cardinality(Token!Entries) = Cardinality(Callers) + 1
  BY <1>1, FiniteCallers, FS_Interval
<1>3. \A e \in Token!Entries : e # cached => user[e] \in Callers /\ on[user[e]] = e
  OBVIOUS
<1>4. user \in [Token!Entries -> Callers]
  BY <1>3
<1>5. PICK e, f \in Token!Entries : e # f /\ user[e] = user[f]
  <2> HIDE DEF user
  <2> QED
    BY <1>1, <1>2, <1>4, FiniteCallers, FS_PigeonHole
<1>6. \A x \in Token!Entries : x # cached => user[x] # c
  BY <1>3, EntriesAreNumbers
<1>7. user[cached] = c \/ cached \notin Token!Entries
  OBVIOUS
<1> HIDE DEF user
<1> QED
  BY <1>3, <1>5, <1>6, <1>7

LEMMA TokenInit == Token!Init => TokenInv
<1> SUFFICES ASSUME Token!Init PROVE TokenInv
  OBVIOUS
<1> USE EntriesAreNumbers DEF Token!Init
<1>1. Token!TypeOK
  BY DEF Token!TypeOK, Token!Answers
<1>2. References /\ OneMint /\ TokensStay
  BY DEF References, OneMint, TokensStay
<1>3. MarksAreComplete
  BY DEF MarksAreComplete
<1> QED
  BY <1>1, <1>2, <1>3 DEF TokenInv

\* A mint goes into an entry nobody refers to, and finds none in flight.
LEMMA MintIsNew ==
    ASSUME TokenInv, NEW c \in Callers, Token!BeginMint(c)
    PROVE  /\ \A e \in Token!Entries : entry[e] # "minting"
           /\ \A d \in Callers : phase[d] # "minting"
           /\ \E e \in Token!Entries :
                /\ Token!Unreferenced(e)
                /\ cached' = e
                /\ entry' = [entry EXCEPT ![e] = "minting"]
                /\ over' = over \ {e}
                /\ invalidated' = invalidated \ {e}
                /\ refused' = refused \ {e}
                /\ Token!Goto(c, "minting", e)
<1> USE DEF TokenInv
<1>1. \A e \in Token!Entries : entry[e] # "minting"
  BY EntriesAreNumbers DEF Token!BeginMint, OneMint, Token!Usable
<1>2. \A d \in Callers : phase[d] # "minting"
  BY <1>1 DEF OneMint, References, Token!TypeOK
<1>3. on[c] = Token!NoEntry
  BY DEF Token!BeginMint, References
<1>4. PICK e \in Token!Entries : Token!Unreferenced(e) /\
      e = CHOOSE f \in Token!Entries : Token!Unreferenced(f)
  BY <1>3, SomeUnreferenced
<1> QED
  BY <1>1, <1>2, <1>4 DEF Token!BeginMint

LEMMA TokenTypesStep == ASSUME TokenInv, [Token!Next]_(Token!vars) PROVE Token!TypeOK'
<1> USE DEF TokenInv
<1>1. ASSUME NEW c \in Callers, Token!BeginMint(c) PROVE Token!TypeOK'
  BY <1>1, MintIsNew DEF Token!TypeOK, Token!Goto, Token!BeginMint
<1>2. ASSUME NEW c \in Callers, Token!Wake(c) PROVE Token!TypeOK'
  <2>1. on[c] \in Token!Entries /\ entry[on[c]] \in Token!Answers
    BY <1>2 DEF Token!Wake, Token!TypeOK, References
  <2> QED
    BY <1>2, <2>1 DEF Token!Wake, Token!TypeOK, Token!Goto, Token!entries
<1>3. ASSUME NEW c \in Callers, Token!EndMint(c) PROVE Token!TypeOK'
  <2>1. on[c] \in Token!Entries
    BY <1>3 DEF Token!EndMint, Token!TypeOK, References
  <2> QED
    BY <1>3, <2>1 DEF Token!EndMint, Token!TypeOK, Token!Goto
<1>4. ASSUME NEW c \in Callers, Token!Refuse(c) PROVE Token!TypeOK'
  <2>1. on[c] \in Token!Entries
    BY <1>4 DEF Token!Refuse, Token!TypeOK, References
  <2> QED
    BY <1>4, <2>1 DEF Token!Refuse, Token!TypeOK
<1>5. ASSUME NEW c \in Callers, Token!LookUp(c) PROVE Token!TypeOK'
  BY <1>5 DEF Token!LookUp, Token!TypeOK, Token!Goto, Token!entries, Token!Answers
<1>6. ASSUME NEW c \in Callers, Token!Ask(c) \/ Token!EndContext(c) \/
      Token!StopWaiting(c) PROVE Token!TypeOK'
  BY <1>6
     DEF Token!Ask, Token!EndContext, Token!StopWaiting, Token!TypeOK, Token!Goto, Token!entries,
         Token!Answers
<1>7. CASE Token!Elapse \/ Token!EvictCompleted
  BY <1>7 DEF Token!Elapse, Token!EvictCompleted, Token!TypeOK
<1>8. CASE UNCHANGED Token!vars
  BY <1>8 DEF Token!vars, Token!TypeOK
<1> QED
  BY <1>1, <1>2, <1>3, <1>4, <1>5, <1>6, <1>7, <1>8 DEF Token!Next

\* A caller comes back from an entry, or goes to one, that is not being minted.
LEMMA ReferencesStep == ASSUME TokenInv, [Token!Next]_(Token!vars) PROVE References'
<1> USE EntriesAreNumbers DEF TokenInv
<1>1. ASSUME NEW c \in Callers, Token!BeginMint(c) PROVE References'
  <2>1. PICK e \in Token!Entries :
          /\ Token!Unreferenced(e) /\ cached' = e
          /\ entry' = [entry EXCEPT ![e] = "minting"] /\ Token!Goto(c, "minting", e)
    BY <1>1, MintIsNew
  <2> QED
    BY <2>1 DEF References, Token!TypeOK, Token!Goto, Token!Unreferenced
<1>2. ASSUME NEW c \in Callers, Token!EndMint(c) PROVE References'
  <2>1. on[c] \in Token!Entries
    BY <1>2 DEF Token!EndMint, Token!TypeOK, References
  <2>2. PICK a \in Token!Answers :
          /\ entry' = [entry EXCEPT ![on[c]] = a]
          /\ cached' \in {cached, Token!NoEntry}
          /\ Token!Goto(c, a, on[c])
    BY <1>2 DEF Token!EndMint
  <2> QED
    BY <2>1, <2>2 DEF References, Token!TypeOK, Token!Goto, Token!Answers
<1>3. ASSUME NEW c \in Callers, Token!Wake(c) PROVE References'
  <2>1. on[c] \in Token!Entries /\ entry[on[c]] \in Token!Answers
    BY <1>3 DEF Token!Wake, Token!TypeOK, References
  <2> QED
    BY <1>3, <2>1 DEF Token!Wake, References, Token!TypeOK, Token!Goto, Token!entries, Token!Answers
<1>4. ASSUME NEW c \in Callers, Token!LookUp(c) PROVE References'
  BY <1>4 DEF Token!LookUp, References, Token!TypeOK, Token!Goto, Token!entries
<1>5. ASSUME NEW c \in Callers, Token!Ask(c) \/ Token!EndContext(c) \/
      Token!StopWaiting(c) PROVE References'
  BY <1>5
     DEF Token!Ask, Token!EndContext, Token!StopWaiting, References, Token!TypeOK, Token!Goto,
         Token!entries
<1>6. ASSUME NEW c \in Callers, Token!Refuse(c) PROVE References'
  BY <1>6 DEF Token!Refuse, References
<1>7. CASE Token!Elapse \/ Token!EvictCompleted \/ UNCHANGED Token!vars
  BY <1>7 DEF Token!Elapse, Token!EvictCompleted, Token!vars, References
<1> QED
  BY <1>1, <1>2, <1>3, <1>4, <1>5, <1>6, <1>7 DEF Token!Next

LEMMA OneMintStep == ASSUME TokenInv, [Token!Next]_(Token!vars) PROVE OneMint'
<1> USE EntriesAreNumbers DEF TokenInv
<1>1. ASSUME NEW c \in Callers, Token!BeginMint(c) PROVE OneMint'
  <2>1. PICK e \in Token!Entries :
          /\ cached' = e
          /\ entry' = [entry EXCEPT ![e] = "minting"] /\ Token!Goto(c, "minting", e)
    BY <1>1, MintIsNew
  <2>2. \A d \in Callers : phase'[d] = "minting" <=> d = c
    BY <1>1, <2>1, MintIsNew DEF Token!Goto, Token!TypeOK
  <2>3. \A f \in Token!Entries : entry'[f] = "minting" <=> f = e
    BY <1>1, <2>1, MintIsNew DEF Token!TypeOK
  <2> QED
    BY <2>1, <2>2, <2>3 DEF OneMint, Token!Goto, Token!TypeOK
<1>2. ASSUME NEW c \in Callers, Token!EndMint(c) PROVE OneMint'
  <2>1. on[c] \in Token!Entries /\ cached = on[c] /\ phase[c] = "minting"
    BY <1>2 DEF Token!EndMint, Token!TypeOK, References, OneMint
  <2>2. PICK a \in Token!Answers : entry' = [entry EXCEPT ![on[c]] = a] /\ Token!Goto(c, a, on[c])
    BY <1>2 DEF Token!EndMint
  <2>3. \A e \in Token!Entries : entry'[e] # "minting"
    BY <2>1, <2>2 DEF OneMint, Token!TypeOK, Token!Answers
  <2>4. \A d \in Callers : phase'[d] # "minting"
    BY <2>1, <2>2 DEF OneMint, Token!TypeOK, Token!Answers, Token!Goto
  <2> QED
    BY <2>3, <2>4 DEF OneMint
<1>3. ASSUME NEW c \in Callers,
             Token!Ask(c) \/ Token!EndContext(c) \/ Token!LookUp(c) \/ Token!StopWaiting(c)
      PROVE  OneMint'
  BY <1>3
     DEF Token!Ask, Token!EndContext, Token!LookUp, Token!StopWaiting, OneMint, Token!TypeOK,
         Token!Goto, Token!entries
<1>4. ASSUME NEW c \in Callers, Token!Wake(c) PROVE OneMint'
  BY <1>4 DEF Token!Wake, OneMint, Token!TypeOK, Token!Goto, Token!entries
<1>5. ASSUME NEW c \in Callers, Token!Refuse(c) PROVE OneMint'
  BY <1>5 DEF Token!Refuse, OneMint, TokensStay, Token!TypeOK
<1>6. CASE Token!Elapse \/ Token!EvictCompleted \/ UNCHANGED Token!vars
  BY <1>6 DEF Token!Elapse, Token!EvictCompleted, Token!vars, OneMint
<1> QED
  BY <1>1, <1>2, <1>3, <1>4, <1>5, <1>6 DEF Token!Next

LEMMA TokensStayStep == ASSUME TokenInv, [Token!Next]_(Token!vars) PROVE TokensStay'
<1> USE EntriesAreNumbers DEF TokenInv
<1>1. ASSUME NEW c \in Callers, Token!BeginMint(c) PROVE TokensStay'
  <2>1. PICK e \in Token!Entries :
          /\ Token!Unreferenced(e)
          /\ entry' = [entry EXCEPT ![e] = "minting"] /\ Token!Goto(c, "minting", e)
    BY <1>1, MintIsNew
  <2> QED
    BY <2>1 DEF TokensStay, Token!TypeOK, Token!Goto, Token!Unreferenced, References
<1>2. ASSUME NEW c \in Callers, Token!EndMint(c) PROVE TokensStay'
  <2>1. on[c] \in Token!Entries /\ entry[on[c]] = "minting"
    BY <1>2 DEF Token!EndMint, Token!TypeOK, References, OneMint
  <2>2. PICK a \in Token!Answers : entry' = [entry EXCEPT ![on[c]] = a] /\ Token!Goto(c, a, on[c])
    BY <1>2 DEF Token!EndMint
  <2> QED
    BY <2>1, <2>2 DEF TokensStay, Token!TypeOK, Token!Goto
<1>3. ASSUME NEW c \in Callers,
             Token!Ask(c) \/ Token!EndContext(c) \/ Token!StopWaiting(c) \/ Token!Wake(c)
      PROVE  TokensStay'
  BY <1>3
     DEF Token!Ask, Token!EndContext, Token!StopWaiting, Token!Wake, TokensStay, Token!TypeOK,
         Token!Goto, Token!entries
<1>4. ASSUME NEW c \in Callers, Token!LookUp(c) PROVE TokensStay'
  BY <1>4 DEF Token!LookUp, Token!Fresh, TokensStay, Token!TypeOK, Token!Goto, Token!entries
<1>5. ASSUME NEW c \in Callers, Token!Refuse(c) PROVE TokensStay'
  BY <1>5 DEF Token!Refuse, TokensStay
<1>6. CASE Token!Elapse \/ Token!EvictCompleted \/ UNCHANGED Token!vars
  BY <1>6 DEF Token!Elapse, Token!EvictCompleted, Token!vars, TokensStay
<1> QED
  BY <1>1, <1>2, <1>3, <1>4, <1>5, <1>6 DEF Token!Next

LEMMA MarksStep == ASSUME TokenInv, [Token!Next]_(Token!vars) PROVE MarksAreComplete'
<1> USE EntriesAreNumbers DEF TokenInv
<1>1. ASSUME NEW c \in Callers, Token!BeginMint(c) PROVE MarksAreComplete'
  <2>1. PICK e \in Token!Entries :
          /\ cached' = e
          /\ entry' = [entry EXCEPT ![e] = "minting"]
          /\ over' = over \ {e}
          /\ invalidated' = invalidated \ {e}
          /\ refused' = refused \ {e}
    BY <1>1, MintIsNew
  <2>2. cached \in Token!Entries /\ entry[cached] = "token" => cached \in over
    BY <1>1 DEF Token!BeginMint, Token!Usable, Token!Fresh
  <2> QED
    BY <2>1, <2>2 DEF MarksAreComplete, Token!TypeOK
<1>2. ASSUME NEW c \in Callers, Token!EndMint(c) PROVE MarksAreComplete'
  <2> DEFINE e == on[c]
  <2>1. e \in Token!Entries /\ cached = e
    BY <1>2 DEF Token!EndMint, Token!TypeOK, References, OneMint
  <2>2. PICK a \in Token!Answers :
          /\ entry' = [entry EXCEPT ![e] = a]
          /\ invalidated' = IF a = "canceled" THEN invalidated \union {e} ELSE invalidated
          /\ cached' = IF cached = e /\ a = "canceled" THEN Token!NoEntry ELSE cached
          /\ over' = over /\ refused' = refused
    BY <1>2 DEF Token!EndMint
  <2> QED
    BY <2>1, <2>2 DEF MarksAreComplete, Token!TypeOK
<1>3. ASSUME NEW c \in Callers, Token!Refuse(c) PROVE MarksAreComplete'
  <2>1. on[c] \in Token!Entries /\ entry[on[c]] = "token"
    BY <1>3 DEF Token!Refuse, Token!TypeOK, References, TokensStay
  <2>2. CASE cached = on[c]
    <3>1. /\ cached' = Token!NoEntry /\ invalidated' = invalidated \union {on[c]}
          /\ refused' \subseteq refused \union {on[c]}
          /\ entry' = entry /\ over' = over
      BY <1>3, <2>2 DEF Token!Refuse
    <3> QED
      BY <2>1, <2>2, <3>1 DEF MarksAreComplete, Token!TypeOK
  <2>3. CASE cached # on[c]
    <3>1. /\ cached' = cached /\ invalidated' = invalidated
          /\ entry' = entry /\ over' = over
          /\ on[c] \in over => refused' = refused
          /\ refused' \subseteq refused \union {on[c]}
      BY <1>3, <2>3 DEF Token!Refuse
    <3>2. on[c] \in over \union invalidated
      BY <2>1, <2>3 DEF MarksAreComplete
    <3> QED
      BY <3>1, <3>2 DEF MarksAreComplete
  <2> QED
    BY <2>2, <2>3
<1>4. ASSUME NEW c \in Callers,
             Token!Ask(c) \/ Token!EndContext(c) \/ Token!LookUp(c) \/ Token!StopWaiting(c) \/
                   Token!Wake(c)
      PROVE  MarksAreComplete'
  BY <1>4
     DEF Token!Ask, Token!EndContext, Token!LookUp, Token!StopWaiting, Token!Wake, Token!entries,
         MarksAreComplete
<1>5. CASE Token!Elapse \/ Token!EvictCompleted \/ UNCHANGED Token!vars
  BY <1>5 DEF Token!Elapse, Token!EvictCompleted, Token!vars, MarksAreComplete, Token!TypeOK
<1> QED
  BY <1>1, <1>2, <1>3, <1>4, <1>5 DEF Token!Next

\* The inductive invariant holds throughout.
LEMMA TokenInvAlways == Token!Spec => []TokenInv
<1>1. TokenInv /\ [Token!Next]_(Token!vars) => TokenInv'
  BY TokenTypesStep, ReferencesStep, OneMintStep, TokensStayStep, MarksStep DEF TokenInv
<1> QED
  BY <1>1, TokenInit, PTL DEF Token!Spec

\* Variables keep their types: above all there is an entry for every mint, so
\* that one nobody refers to can always be had for the next (resolve).
THEOREM TokenTypeOK == Token!Spec => []Token!TypeOK
<1>1. TokenInv => Token!TypeOK
  BY DEF TokenInv
<1> QED
  BY <1>1, TokenInvAlways, PTL

\* However many callers ask at once, are canceled, ask again or refuse what they
\* were given, one of them at a time mints (resolve, evictCompleted).
THEOREM TokenMintsAlone == Token!Spec => []Token!MintsAlone
<1>1. TokenInv => Token!MintsAlone
  BY DEF TokenInv, OneMint, Token!MintsAlone
<1> QED
  BY <1>1, TokenInvAlways, PTL

\* Whoever is told canceled was canceled, and no token is handed out refused.
LEMMA AnswersStep ==
    ASSUME TokenInv, [Token!Next]_(Token!vars), NEW c \in Callers, phase'[c] # phase[c]
    PROVE  /\ phase'[c] = "canceled" => c \in ended
           /\ phase'[c] = "token" => on'[c] \notin refused
<1> USE EntriesAreNumbers DEF TokenInv
<1>1. ASSUME NEW d \in Callers, Token!EndMint(d)
      PROVE  /\ phase'[c] = "canceled" => c \in ended
             /\ phase'[c] = "token" => on'[c] \notin refused
  <2>1. on[d] = cached
    BY <1>1 DEF Token!EndMint, Token!TypeOK, References, OneMint
  <2>2. on[d] \notin refused
    BY <2>1 DEF MarksAreComplete
  <2> QED
    BY <1>1, <2>2 DEF Token!EndMint, Token!Goto, Token!TypeOK
<1>2. ASSUME NEW d \in Callers, Token!Wake(d)
      PROVE  /\ phase'[c] = "canceled" => c \in ended
             /\ phase'[c] = "token" => on'[c] \notin refused
  <2>1. on[d] \in Token!Entries
    BY <1>2 DEF Token!Wake, Token!TypeOK, References
  <2> QED
    BY <1>2, <2>1 DEF Token!Wake, Token!Goto, Token!TypeOK, MarksAreComplete
<1>3. ASSUME NEW d \in Callers, Token!LookUp(d)
      PROVE  /\ phase'[c] = "canceled" => c \in ended
             /\ phase'[c] = "token" => on'[c] \notin refused
  BY <1>3 DEF Token!LookUp, Token!Goto, Token!TypeOK, MarksAreComplete
<1>4. ASSUME NEW d \in Callers,
             Token!Ask(d) \/ Token!EndContext(d) \/ Token!BeginMint(d) \/
                   Token!StopWaiting(d) \/ Token!Refuse(d)
      PROVE  /\ phase'[c] = "canceled" => c \in ended
             /\ phase'[c] = "token" => on'[c] \notin refused
  BY <1>4
     DEF Token!Ask, Token!EndContext, Token!BeginMint, Token!StopWaiting, Token!Refuse, Token!Goto,
         Token!TypeOK
<1>5. CASE Token!Elapse \/ Token!EvictCompleted \/ UNCHANGED Token!vars
  BY <1>5 DEF Token!Elapse, Token!EvictCompleted, Token!vars
<1> QED
  BY <1>1, <1>2, <1>3, <1>4, <1>5 DEF Token!Next

\* Only a caller whose own context ended is told so, though it waited for a mint
\* that ran under another's, and no caller is handed a token that was refused
\* before (resolve, evictCompleted, invalidateToken), for any finite set of callers.
THEOREM TokenAnswersAreOwn == Token!Spec => AnswersAreOwn
<1>1. TokenInv /\ [Token!Next]_(Token!vars) =>
        [\A c \in Callers :
            phase'[c] # phase[c] =>
                /\ phase'[c] = "canceled" => c \in ended
                /\ phase'[c] = "token" => on'[c] \notin refused]_(Token!vars)
  BY AnswersStep
<1> QED
  BY <1>1, TokenInvAlways, PTL DEF Token!Spec, AnswersAreOwn, Token!AnswersAreOwn

-----------------------------------------------------------------------------
(* The acknowledgement of a notification. *)

AckTypes ==
    /\ thread \in Ack!Thread
    /\ row \in Ack!Row
    /\ queued \in 0 .. MaxQueued
    /\ poll \in Ack!Thread \union {Ack!Nothing}
    /\ ackPc \in Ack!States
    /\ job \in [queue : 0 .. MaxQueued, version : 0 .. MaxVersion]
    /\ fetched \in Ack!Thread \union {Ack!Nothing}

\* What was read of the thread at some time: it has moved on since, or is as
\* read now as it was then.
Earlier(t) ==
    /\ t.version <= thread.version
    /\ ~t.unread => ~thread.unread \/ thread.version > t.version

\* A list, a refetch, an acknowledgement and the row are of the thread's past,
\* and a row is read up to what is covered, which is what it shows.
OfThePast ==
    /\ poll # Ack!Nothing => Earlier(poll)
    /\ ackPc \in {"refresh", "reconcile"} => fetched # Ack!Nothing /\ Earlier(fetched)
    /\ job.version <= thread.version
    /\ row.version <= thread.version
    /\ IF row.covered = 0 THEN row.unread ELSE ~row.unread /\ row.covered = row.version

\* After the mark-read the thread is read, or has moved on from what the
\* acknowledgement is about.
MarkedRead ==
    ackPc \in {"verify", "reconcile", "settle"} =>
        ~thread.unread \/ thread.version > job.version

AckInv == AckTypes /\ OfThePast /\ MarkedRead /\ Ack!ReadIsPropagated

\* What holds of the row whatever it was written from: it shows a version the
\* thread has had, and is read up to it when it covers it; a read that left the
\* queue is propagated.
Faithful(r) ==
    /\ r.version <= thread.version
    /\ IF r.covered = 0 THEN r.unread ELSE ~r.unread /\ r.covered = r.version
    /\ ~r.unread /\ r.queue = 0 => ~thread.unread \/ thread.version > r.version

\* The row with what an acknowledgement or a list says of it.
WrittenAs(r, u, q, s, c, g) ==
    [r EXCEPT !.unread = u, !.queue = q, !.synced = s, !.covered = c, !.givenUp = g]

LEMMA WrittenIsRow ==
    ASSUME NEW r \in Ack!Row, NEW u \in BOOLEAN, NEW q \in 0 .. MaxQueued,
           NEW s \in BOOLEAN, NEW c \in 0 .. MaxVersion, NEW g \in BOOLEAN
    PROVE  /\ WrittenAs(r, u, q, s, c, g) \in Ack!Row
           /\ WrittenAs(r, u, q, s, c, g).version = r.version
           /\ WrittenAs(r, u, q, s, c, g).unread = u
           /\ WrittenAs(r, u, q, s, c, g).queue = q
           /\ WrittenAs(r, u, q, s, c, g).covered = c
  BY DEF WrittenAs, Ack!Row

LEMMA UpsertedIsRow ==
    ASSUME NEW r \in Ack!Row, NEW t \in Ack!Thread
    PROVE  Ack!Upserted(r, t) \in Ack!Row
<1> DEFINE news == r.covered # 0 /\ t.version > r.covered
           at == [r EXCEPT !.version = t.version]
           u == r.covered = 0 \/ news
           q == IF news /\ ~r.synced THEN 0 ELSE r.queue
           s == r.synced /\ ~news
           c == IF news THEN 0 ELSE r.covered
           g == r.givenUp /\ ~news
<1>1. at \in Ack!Row
  BY DEF Ack!Row, Ack!Thread
<1>2. /\ u \in BOOLEAN /\ s \in BOOLEAN /\ g \in BOOLEAN
      /\ q \in 0 .. MaxQueued /\ c \in 0 .. MaxVersion /\ t.version \in 0 .. MaxVersion
      /\ 0 \in 0 .. MaxQueued
  BY AckAssumption DEF Ack!Row, Ack!Thread, Ack!AckConstants
<1>3. /\ WrittenAs(at, FALSE, 0, TRUE, t.version, FALSE) \in Ack!Row
      /\ WrittenAs(at, u, q, s, c, g) \in Ack!Row
  BY <1>1, <1>2, WrittenIsRow
<1>4. Ack!Upserted(r, t) \in
        {r, WrittenAs(at, FALSE, 0, TRUE, t.version, FALSE), WrittenAs(at, u, q, s, c, g)}
  BY Zenon DEF Ack!Upserted, WrittenAs
<1> QED
  BY <1>3, <1>4

LEMMA UpsertedIsFaithful ==
    ASSUME NEW r \in Ack!Row, NEW t \in Ack!Thread, thread \in Ack!Thread,
           Faithful(r), Earlier(t)
    PROVE  Faithful(Ack!Upserted(r, t))
<1> DEFINE news == r.covered # 0 /\ t.version > r.covered
<1>1. CASE t.version < r.version
  BY <1>1 DEF Ack!Upserted, Ack!Row, Ack!Thread
<1>2. CASE t.version >= r.version /\ ~t.unread
  <2>1. /\ Ack!Upserted(r, t).version = t.version /\ Ack!Upserted(r, t).covered = t.version
        /\ ~Ack!Upserted(r, t).unread
    BY <1>2 DEF Ack!Upserted, Ack!Row, Ack!Thread
  <2> QED
    BY <1>2, <2>1 DEF Faithful, Earlier, Ack!Thread
<1>3. CASE t.version >= r.version /\ t.unread
  <2>1. /\ Ack!Upserted(r, t).version = t.version
        /\ Ack!Upserted(r, t).unread = (r.covered = 0 \/ news)
        /\ Ack!Upserted(r, t).covered = IF news THEN 0 ELSE r.covered
        /\ ~news => Ack!Upserted(r, t).queue = r.queue
    BY <1>3 DEF Ack!Upserted, Ack!Row, Ack!Thread
  <2>2. CASE r.covered = 0 \/ news
    BY <2>1, <2>2 DEF Faithful, Earlier
  <2>3. CASE r.covered # 0 /\ ~news
    <3>1. t.version = r.version /\ r.covered = r.version
      BY <1>3, <2>3 DEF Faithful, Ack!Row, Ack!Thread
    <3> QED
      BY <2>1, <2>3, <3>1 DEF Faithful, Earlier
  <2> QED
    BY <2>2, <2>3
<1> QED
  BY <1>1, <1>2, <1>3 DEF Ack!Row, Ack!Thread

\* Unread or not, what was read earlier may be shown as unread.
LEMMA EarlierUnread ==
    ASSUME NEW t \in Ack!Thread, Earlier(t), NEW b \in BOOLEAN
    PROVE  /\ [t EXCEPT !.unread = @ \/ b] \in Ack!Thread
           /\ Earlier([t EXCEPT !.unread = @ \/ b])
  BY DEF Earlier, Ack!Thread

\* The thread is read, or moves on.
ThreadAdvances ==
    \/ thread'.version = thread.version /\ (thread'.unread => thread.unread)
    \/ thread'.version > thread.version

LEMMA AckInit == Ack!Init => AckInv
<1> SUFFICES ASSUME Ack!Init PROVE AckInv
  OBVIOUS
<1>1. AckTypes
  BY AckAssumption
     DEF Ack!Init, AckTypes, Ack!Thread, Ack!Row, Ack!Nothing, Ack!NoJob, Ack!States,
       Ack!AckConstants
<1>2. OfThePast /\ MarkedRead /\ Ack!ReadIsPropagated
  BY DEF Ack!Init, OfThePast, MarkedRead, Ack!ReadIsPropagated, Ack!Nothing, Ack!NoJob
<1> QED
  BY <1>1, <1>2 DEF AckInv

\* The steps that write the row.
LEMMA ReopenedIsFaithful ==
    ASSUME AckTypes, Faithful(row)
    PROVE  Ack!Reopened \in Ack!Row /\ Faithful(Ack!Reopened)
<1>1. row \in Ack!Row /\ thread \in Ack!Thread
  BY DEF AckTypes
<1>2. CASE Ack!RowIsJobs
  <2>1. Ack!Reopened = WrittenAs(row, TRUE, 0, FALSE, 0, FALSE)
    BY <1>2, Zenon DEF Ack!Reopened, WrittenAs
  <2>2. 0 \in 0 .. MaxQueued /\ 0 \in 0 .. MaxVersion
    BY AckAssumption DEF Ack!AckConstants
  <2> DEFINE w == WrittenAs(row, TRUE, 0, FALSE, 0, FALSE)
  <2>3. w \in Ack!Row /\ w.version = row.version /\ w.unread /\ w.covered = 0
    <3> DEFINE yes == TRUE  no == FALSE
    <3>1. yes \in BOOLEAN /\ no \in BOOLEAN
      OBVIOUS
    <3> HIDE DEF yes, no
    <3>2. LET v == WrittenAs(row, yes, 0, no, 0, no) IN
            v \in Ack!Row /\ v.version = row.version /\ v.unread = yes /\ v.covered = 0
      BY <1>1, <2>2, <3>1, WrittenIsRow
    <3> QED
      BY <3>2 DEF yes, no
  <2>4. Ack!Reopened = w
    BY <2>1
  <2> HIDE DEF w
  <2>5. w.version <= thread.version /\ w.unread
    BY <2>3 DEF Faithful
  <2>6. Faithful(w)
    BY <2>3, <2>5 DEF Faithful
  <2> QED
    BY <2>3, <2>4, <2>6
<1>3. CASE ~Ack!RowIsJobs
  BY <1>1, <1>3 DEF Ack!Reopened
<1> QED
  BY <1>2, <1>3

LEMMA AckTypesStep ==
    ASSUME AckInv, [Ack!Next]_(Ack!vars)
    PROVE  AckTypes'
<1> USE AckAssumption DEF Ack!AckConstants
<1>1. AckTypes /\ OfThePast
  BY DEF AckInv
<1>17. Faithful(row)
  BY DEF AckInv, OfThePast, Faithful, Ack!ReadIsPropagated
<1>2. Ack!NoJob \in [queue : 0 .. MaxQueued, version : 0 .. MaxVersion]
  BY DEF Ack!NoJob
<1>3. CASE Ack!Activity
  BY <1>1, <1>3 DEF Ack!Activity, AckTypes, Ack!Thread, Ack!worker
<1>4. CASE Ack!ReadAtProvider \/ Ack!MarkRead
  BY <1>1, <1>4 DEF Ack!ReadAtProvider, Ack!MarkRead, Ack!Goto, AckTypes, Ack!Thread,
    Ack!worker, Ack!States
<1>5. CASE Ack!QueueRead
  <2>1. queued + 1 \in 0 .. MaxQueued /\ queued' = queued + 1
    BY <1>1, <1>5 DEF Ack!QueueRead, AckTypes
  <2>2. row' \in Ack!Row
    <3>1. row' = WrittenAs(row, FALSE, queued', FALSE, row.version, FALSE)
      BY <1>5, Zenon DEF Ack!QueueRead, WrittenAs
    <3>2. row.version \in 0 .. MaxVersion /\ row \in Ack!Row
      BY <1>1 DEF AckTypes, Ack!Row
    <3> QED
      BY <2>1, <3>1, <3>2, WrittenIsRow
  <2> QED
    BY <1>1, <1>5, <2>1, <2>2 DEF Ack!QueueRead, AckTypes, Ack!worker
<1>6. CASE Ack!PollList
  BY <1>1, <1>6 DEF Ack!PollList, AckTypes, Ack!worker
<1>7. CASE Ack!PollWrite
  BY <1>1, <1>7, UpsertedIsRow DEF Ack!PollWrite, AckTypes, Ack!worker
<1>8. CASE Ack!List
  <2>1. job' \in [queue : 0 .. MaxQueued, version : 0 .. MaxVersion]
    BY <1>1, <1>8 DEF Ack!List, AckTypes, Ack!Row
  <2> QED
    BY <1>1, <1>8, <2>1 DEF Ack!List, AckTypes, Ack!world, Ack!States
<1>9. CASE Ack!Check
  BY <1>1, <1>2, <1>9 DEF Ack!Check, Ack!Goto, Ack!Done, AckTypes, Ack!world, Ack!States
<1>10. CASE Ack!FetchBefore \/ Ack!FetchAfter
  BY <1>1, <1>10 DEF Ack!FetchBefore, Ack!FetchAfter, Ack!Fetch, Ack!Goto, AckTypes, Ack!world,
    Ack!States
<1>11. CASE Ack!Persist
  <2>1. fetched \in Ack!Thread
    BY <1>1, <1>11 DEF Ack!Persist, AckTypes, OfThePast
  <2>2. Ack!Upserted(row, [fetched EXCEPT !.unread = @ \/ ackPc = "reconcile"]) \in Ack!Row
    BY <1>1, <1>11, <2>1, UpsertedIsRow, EarlierUnread DEF Ack!Persist, AckTypes, OfThePast
  <2>3. Ack!Reopened \in Ack!Row
    BY <1>1, <1>17, ReopenedIsFaithful
  <2>4. row' \in Ack!Row
    BY <1>11, <2>2, <2>3 DEF Ack!Persist
  <2> QED
    BY <1>1, <1>2, <1>11, <2>4 DEF Ack!Persist, Ack!Done, AckTypes, Ack!world, Ack!States
<1>12. CASE Ack!Settle
  <2>1. row' \in Ack!Row
    <3>1. row' \in {row, WrittenAs(row, FALSE, 0, TRUE, job.version, FALSE)}
      BY <1>12, Zenon DEF Ack!Settle, WrittenAs
    <3>2. job.version \in 0 .. MaxVersion /\ 0 \in 0 .. MaxQueued /\ row \in Ack!Row
      BY <1>1 DEF AckTypes
    <3>3. WrittenAs(row, FALSE, 0, TRUE, job.version, FALSE) \in Ack!Row
      BY <3>2, WrittenIsRow
    <3> QED
      BY <3>1, <3>2, <3>3
  <2> QED
    BY <1>1, <1>2, <1>12, <2>1 DEF Ack!Settle, Ack!Done, AckTypes, Ack!world, Ack!States
<1>13. CASE Ack!RequestFails
  <2>1. thread' \in Ack!Thread
    BY <1>1, <1>13 DEF Ack!RequestFails, AckTypes, Ack!Thread
  <2>2. row' \in Ack!Row
    BY <1>1, <1>13 DEF Ack!RequestFails, AckTypes, Ack!Row
  <2> QED
    BY <1>1, <1>2, <1>13, <2>1, <2>2 DEF Ack!RequestFails, Ack!Done, AckTypes, Ack!States
<1>14. CASE Ack!FetchAfterFails
  <2>1. row' \in Ack!Row
    BY <1>1, <1>14, <1>17, ReopenedIsFaithful DEF Ack!FetchAfterFails
  <2> QED
    BY <1>1, <1>2, <1>14, <2>1 DEF Ack!FetchAfterFails, Ack!Done, AckTypes, Ack!world, Ack!States
<1>15. CASE Ack!Restart
  BY <1>1, <1>2, <1>15 DEF Ack!Restart, Ack!Done, AckTypes, Ack!States
<1>16. CASE UNCHANGED Ack!vars
  BY <1>1, <1>16 DEF Ack!vars, AckTypes
<1> QED
  BY <1>3, <1>4, <1>5, <1>6, <1>7, <1>8, <1>9, <1>10, <1>11, <1>12, <1>13, <1>14, <1>15, <1>16
     DEF Ack!Next

\* No step takes the thread back.
LEMMA AckThreadStep ==
    ASSUME AckTypes, [Ack!Next]_(Ack!vars)
    PROVE  ThreadAdvances
<1>1. thread \in Ack!Thread
  BY DEF AckTypes
<1>2. CASE Ack!Activity
  BY <1>1, <1>2 DEF Ack!Activity, Ack!Thread, ThreadAdvances
<1>3. CASE Ack!ReadAtProvider \/ Ack!MarkRead \/ Ack!RequestFails
  BY <1>1, <1>3 DEF Ack!ReadAtProvider, Ack!MarkRead, Ack!RequestFails, Ack!Thread, ThreadAdvances
<1>4. CASE thread' = thread
  BY <1>1, <1>4 DEF ThreadAdvances
<1> QED
  BY <1>2, <1>3, <1>4
     DEF Ack!Next, Ack!QueueRead, Ack!PollList, Ack!PollWrite, Ack!List, Ack!Check, Ack!FetchBefore,
         Ack!FetchAfter, Ack!Fetch, Ack!Persist, Ack!Settle, Ack!FetchAfterFails, Ack!Restart,
         Ack!world, Ack!vars

\* What was read of the thread earlier stays of its past.
LEMMA EarlierStays ==
    ASSUME NEW t \in Ack!Thread, thread \in Ack!Thread, thread' \in Ack!Thread,
           Earlier(t), ThreadAdvances
    PROVE  t.version <= thread'.version /\ (~t.unread
             => ~thread'.unread \/ thread'.version > t.version)
  BY DEF Earlier, ThreadAdvances, Ack!Thread

LEMMA FaithfulStays ==
    ASSUME NEW r \in Ack!Row, thread \in Ack!Thread, thread' \in Ack!Thread,
           Faithful(r), ThreadAdvances
    PROVE  /\ r.version <= thread'.version
           /\ IF r.covered = 0 THEN r.unread ELSE ~r.unread /\ r.covered = r.version
           /\ ~r.unread /\ r.queue = 0 => ~thread'.unread \/ thread'.version > r.version
  BY DEF Faithful, ThreadAdvances, Ack!Thread, Ack!Row

\* The row is written from what is of the past, by every writer.
LEMMA RowStep ==
    ASSUME AckInv, [Ack!Next]_(Ack!vars)
    PROVE  Faithful(row')
<1>1. AckTypes /\ OfThePast /\ MarkedRead /\ Faithful(row)
  BY DEF AckInv, OfThePast, Faithful, Ack!ReadIsPropagated
<1>2. row \in Ack!Row /\ thread \in Ack!Thread
  BY <1>1 DEF AckTypes
<1>3. CASE Ack!QueueRead
  <2>1. queued + 1 # 0
    BY <1>1 DEF AckTypes
  <2> QED
    BY <1>1, <1>2, <1>3, <2>1 DEF Ack!QueueRead, Ack!Row, Faithful
<1>4. CASE Ack!PollWrite
  BY <1>1, <1>2, <1>4, UpsertedIsFaithful DEF Ack!PollWrite, AckTypes, OfThePast
<1>5. CASE Ack!Persist
  <2>1. fetched \in Ack!Thread /\ Earlier(fetched)
    BY <1>1, <1>5 DEF Ack!Persist, AckTypes, OfThePast
  <2>2. Faithful(Ack!Upserted(row, [fetched EXCEPT !.unread = @ \/ ackPc = "reconcile"]))
    BY <1>1, <1>2, <2>1, EarlierUnread, UpsertedIsFaithful
  <2> QED
    BY <1>1, <1>5, <2>2, ReopenedIsFaithful DEF Ack!Persist
<1>6. CASE Ack!Settle
  <2>1. CASE Ack!RowIsJobs
    <3>1. /\ row'.version = job.version /\ row'.covered = job.version /\ ~row'.unread
          /\ job.version # 0
      BY <1>2, <1>6, <2>1 DEF Ack!Settle, Ack!RowIsJobs, Ack!Row
    <3> QED
      BY <1>1, <1>6, <3>1 DEF Ack!Settle, MarkedRead, OfThePast, Faithful
  <2> QED
    BY <1>1, <1>6, <2>1 DEF Ack!Settle
<1>7. CASE Ack!RequestFails
  BY <1>1, <1>2, <1>7 DEF Ack!RequestFails, Ack!Row, Faithful
<1>8. CASE Ack!FetchAfterFails
  BY <1>1, <1>8, ReopenedIsFaithful DEF Ack!FetchAfterFails
<1>9. CASE row' = row
  BY <1>1, <1>9
<1> QED
  BY <1>3, <1>4, <1>5, <1>6, <1>7, <1>8, <1>9
     DEF Ack!Next, Ack!Activity, Ack!ReadAtProvider, Ack!PollList, Ack!List, Ack!Check,
         Ack!FetchBefore, Ack!MarkRead, Ack!FetchAfter, Ack!Fetch, Ack!Restart, Ack!world, Ack!vars

\* So do the list, the refetch and the acknowledgement.
LEMMA CopiesStep ==
    ASSUME AckInv, AckTypes', [Ack!Next]_(Ack!vars)
    PROVE  /\ poll' # Ack!Nothing => poll' \in {poll, thread}
           /\ ackPc' \in {"refresh", "reconcile"} =>
                \/ fetched' = thread
                \/ fetched' = fetched /\ ackPc \in {"refresh", "reconcile"}
           /\ job'.version \in {0, job.version, row.version}
           /\ ackPc' \in {"verify", "reconcile", "settle"} =>
                \/ ackPc \in {"verify", "reconcile", "settle"} /\ job' = job
                \/ ~thread'.unread /\ thread'.version = thread.version /\ job' = job
<1>1. AckTypes
  BY DEF AckInv
<1>2. CASE Ack!Activity \/ Ack!ReadAtProvider \/ Ack!QueueRead
  BY <1>1, <1>2 DEF Ack!Activity, Ack!ReadAtProvider, Ack!QueueRead, Ack!worker, AckTypes
<1>3. CASE Ack!PollList \/ Ack!PollWrite
  BY <1>1, <1>3 DEF Ack!PollList, Ack!PollWrite, Ack!worker
<1>4. CASE Ack!List \/ Ack!Check
  BY <1>1, <1>4 DEF Ack!List, Ack!Check, Ack!Goto, Ack!Done, Ack!NoJob, Ack!world
<1>5. CASE Ack!FetchBefore \/ Ack!FetchAfter
  BY <1>1, <1>5 DEF Ack!FetchBefore, Ack!FetchAfter, Ack!Fetch, Ack!Goto, Ack!world
<1>6. CASE Ack!MarkRead
  BY <1>1, <1>6 DEF Ack!MarkRead, Ack!Goto, AckTypes, Ack!Thread
<1>7. CASE Ack!Persist \/ Ack!Settle \/ Ack!RequestFails \/ Ack!FetchAfterFails \/ Ack!Restart
  BY <1>1, <1>7
     DEF Ack!Persist, Ack!Settle, Ack!RequestFails, Ack!FetchAfterFails, Ack!Restart, Ack!Done,
         Ack!NoJob, Ack!world
<1>8. CASE UNCHANGED Ack!vars
  BY <1>8 DEF Ack!vars
<1> QED
  BY <1>2, <1>3, <1>4, <1>5, <1>6, <1>7, <1>8 DEF Ack!Next

LEMMA AckStep ==
    ASSUME AckInv, [Ack!Next]_(Ack!vars)
    PROVE  AckInv'
<1>1. AckTypes /\ AckTypes' /\ OfThePast /\ MarkedRead
  BY AckTypesStep DEF AckInv
<1>2. thread \in Ack!Thread /\ thread' \in Ack!Thread /\ row \in Ack!Row /\ row' \in Ack!Row
  BY <1>1 DEF AckTypes
<1>3. ThreadAdvances
  BY <1>1, AckThreadStep
<1>4. /\ row'.version <= thread'.version
      /\ IF row'.covered = 0 THEN row'.unread ELSE ~row'.unread /\ row'.covered = row'.version
      /\ ~row'.unread /\ row'.queue = 0 => ~thread'.unread \/ thread'.version > row'.version
  BY <1>2, <1>3, RowStep, FaithfulStays
<1>5. Earlier(thread)
  BY <1>2 DEF Earlier, Ack!Thread
<1>6. poll' # Ack!Nothing => Earlier(poll)' 
  <2>1. poll' # Ack!Nothing => poll' \in Ack!Thread /\ Earlier(poll')
    BY <1>1, <1>5, CopiesStep DEF AckTypes, OfThePast
  <2> QED
    BY <1>2, <1>3, <2>1, EarlierStays DEF Earlier
<1>7. ackPc' \in {"refresh", "reconcile"} => fetched' # Ack!Nothing /\ Earlier(fetched)'
  <2>1. thread # Ack!Nothing
    BY <1>2 DEF Ack!Thread, Ack!Nothing
  <2>2. ackPc' \in {"refresh", "reconcile"} =>
          fetched' # Ack!Nothing /\ fetched' \in Ack!Thread /\ Earlier(fetched')
    BY <1>1, <1>5, <2>1, CopiesStep DEF AckTypes, OfThePast
  <2> QED
    BY <1>2, <1>3, <2>2, EarlierStays DEF Earlier
<1>8. job'.version <= thread'.version
  <2>1. job'.version <= thread.version
    BY <1>1, <1>2, CopiesStep DEF AckTypes, OfThePast, Ack!Thread
  <2> QED
    BY <1>1, <1>2, <1>3, <2>1 DEF AckTypes, ThreadAdvances, Ack!Thread
<1>9. MarkedRead'
  <2>1. SUFFICES ASSUME ackPc' \in {"verify", "reconcile", "settle"}
                 PROVE  ~thread'.unread \/ thread'.version > job'.version
    BY DEF MarkedRead
  <2>2. CASE ackPc \in {"verify", "reconcile", "settle"} /\ job' = job
    <3>1. ~thread.unread \/ thread.version > job.version
      BY <1>1, <2>2 DEF MarkedRead
    <3>2. /\ job.version \in Int /\ thread.version \in Int /\ thread'.version \in Int
          /\ job.version <= thread.version
      BY <1>1, <1>2 DEF AckTypes, OfThePast, Ack!Thread
    <3> QED
      BY <1>3, <2>2, <3>1, <3>2 DEF ThreadAdvances
  <2> QED
    BY <1>1, <2>1, <2>2, CopiesStep
<1> QED
  BY <1>1, <1>4, <1>6, <1>7, <1>8, <1>9 DEF AckInv, OfThePast, Ack!ReadIsPropagated

\* Variables keep their types.
THEOREM AckTypeOK == Ack!Spec => []Ack!TypeOK
<1> DEFINE Watched == seen \in 0 .. MaxVersion /\ faults \in 0 .. MaxFaults
<1>1. Ack!Init => AckInv /\ Watched
  BY AckInit, AckAssumption DEF Ack!Init, Ack!AckConstants
<1>2. (AckInv /\ Watched) /\ [Ack!Next]_(Ack!vars) => (AckInv /\ Watched)'
  <2> SUFFICES ASSUME AckInv, Watched, [Ack!Next]_(Ack!vars)
               PROVE  AckInv' /\ Watched'
    OBVIOUS
  <2>1. /\ thread.version \in 0 .. MaxVersion /\ row.version \in 0 .. MaxVersion
        /\ MaxFaults \in Nat
    BY AckAssumption DEF AckInv, AckTypes, Ack!Thread, Ack!Row, Ack!AckConstants
  <2>2. seen' \in {seen, thread.version, row.version}
    <3>1. CASE Ack!QueueRead
      <4>1. seen \in Int /\ row.version \in Int
        BY <2>1
      <4>2. PICK m \in {seen, row.version} : \A n \in {seen, row.version} : m >= n
        BY <4>1
      <4>3. Ack!Max({seen, row.version}) \in {seen, row.version}
        BY <4>2 DEF Ack!Max
      <4> QED
        BY <3>1, <4>3 DEF Ack!QueueRead
    <3>2. CASE ~Ack!QueueRead
      BY <3>2
         DEF Ack!Next, Ack!Activity, Ack!ReadAtProvider, Ack!PollList, Ack!PollWrite, Ack!List,
           Ack!Check, Ack!FetchBefore, Ack!MarkRead, Ack!FetchAfter, Ack!Fetch, Ack!Persist,
           Ack!Settle, Ack!RequestFails, Ack!FetchAfterFails, Ack!Restart, Ack!world, Ack!vars
    <3> QED
      BY <3>1, <3>2
  <2>3. faults' = faults \/ Ack!Fault
    BY DEF Ack!Next, Ack!Activity, Ack!ReadAtProvider, Ack!QueueRead, Ack!PollList,
      Ack!PollWrite, Ack!List, Ack!Check, Ack!FetchBefore, Ack!MarkRead, Ack!FetchAfter,
      Ack!Fetch, Ack!Persist, Ack!Settle, Ack!RequestFails, Ack!FetchAfterFails, Ack!Restart,
      Ack!vars
  <2> QED
    BY <2>1, <2>2, <2>3, AckStep DEF Ack!Fault
<1>3. AckInv /\ Watched => Ack!TypeOK
  BY DEF AckInv, AckTypes, Ack!TypeOK
<1> QED
  BY <1>1, <1>2, <1>3, PTL DEF Ack!Spec

\* A local read that left the queue has reached the provider, or the thread has
\* activity the row does not show, for any number of users' reads, failures and
\* restarts (upsertNotificationsTx, persistOrReopenNotificationAck,
\* MarkNotificationAckPropagationResult).
THEOREM AckReadIsPropagated == Ack!Spec => []ReadIsPropagated
<1>1. AckInv => ReadIsPropagated
  BY DEF AckInv, ReadIsPropagated
<1> QED
  BY <1>1, AckInit, AckStep, PTL DEF Ack!Spec

-----------------------------------------------------------------------------
(* The composition. *)

\* Every behaviour MCProviderAnswers explores is one of each part, so what is
\* proved of a part is true of it.
LEMMA PartsAreKept == MCSpec => Spec /\ Token!Spec /\ Cooldown!Spec /\ Ack!Spec
<1>1. MCInit => Init /\ Token!Init /\ Cooldown!Init /\ Ack!Init
  BY DEF MCInit
<1>2. [MCNext]_MCVars =>
        /\ [Next]_vars /\ [Token!Next]_(Token!vars) /\ [Cooldown!Next]_(Cooldown!vars)
        /\ [Ack!Next]_(Ack!vars)
  BY DEF MCNext, MCVars, vars, tokenVars, cooldownVars, ackVars, Token!vars, Cooldown!vars, Ack!vars
<1> QED
  BY <1>1, <1>2, PTL DEF MCSpec, Spec, Token!Spec, Cooldown!Spec, Ack!Spec
=============================================================================
