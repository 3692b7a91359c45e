----------------------------- MODULE SyncBudget -----------------------------
(***************************************************************************)
(* The hourly request budget of one credential (internal/github/budget.go) *)
(* as operators on its record.  Every method holds the budget's mutex from *)
(* start to end, so each use of an operator is one step.                   *)
(*                                                                         *)
(* Time is the single fact the code asks of it: whether the hour since     *)
(* windowStart has elapsed.  A transport spends and refunds one request at *)
(* a time, so n is 1.                                                      *)
(***************************************************************************)
EXTENDS Naturals

CONSTANT EssentialReserveDenominator

ASSUME DenominatorAssumption == EssentialReserveDenominator \in Nat \ {0}

Budgets == [limit : Nat, reserve : Nat, spent : Nat, archiveSpent : Nat,
            window : Nat, elapsed : BOOLEAN]

EssentialReserve(limit) == limit \div EssentialReserveDenominator

NewSyncBudgetWithEssentialReserve(limit) ==
    [limit |-> limit, reserve |-> EssentialReserve(limit), spent |-> 0,
     archiveSpent |-> 0, window |-> 0, elapsed |-> FALSE]

\* Spend already recorded stands, even above a lowered limit.
SetLimit(b, limit) == [b EXCEPT !.limit = limit, !.reserve = EssentialReserve(limit)]

ResetBudget(b) ==
    [b EXCEPT !.spent = 0, !.archiveSpent = 0, !.window = @ + 1, !.elapsed = FALSE]

RollLocked(b) == IF b.elapsed THEN ResetBudget(b) ELSE b

OptionalLimit(b) == b.limit - b.reserve

Ceiling(b, essential) == IF essential THEN b.limit ELSE OptionalLimit(b)

SpendsUnreserved(b, essential) == RollLocked(b).spent + 1 =< b.limit           \* mutant

Spends(b, essential) == RollLocked(b).spent + 1 =< Ceiling(b, essential)

\* The first half of trySpendForTransport happens to a refused request too:
\* the window rolls.
SpendOne(b, archive) ==
    LET rolled == RollLocked(b) IN
    [rolled EXCEPT !.spent = @ + 1,
                   !.archiveSpent = IF archive THEN @ + 1 ELSE @]

LessOne(n) == IF n = 0 THEN 0 ELSE n - 1

RefundAnyWindow(b, window, archive) ==                                      \* mutant
    [b EXCEPT !.spent = LessOne(@),
              !.archiveSpent = IF archive THEN LessOne(@) ELSE @]

\* Refund and RefundArchive do not roll: a refund for a window the budget has
\* left is dropped, one for an hour that has elapsed unnoticed is taken.
RefundOne(b, window, archive) ==
    IF window # b.window
      THEN b
      ELSE [b EXCEPT !.spent = LessOne(@),
                     !.archiveSpent = IF archive THEN LessOne(@) ELSE @]

\* LocalArchiveSpendAvailable, which does not roll either.
LocalArchiveSpendAvailable(b, liveFloor) ==
    IF OptionalLimit(b) > liveFloor + b.spent
      THEN OptionalLimit(b) - liveFloor - b.spent
      ELSE 0
=============================================================================
