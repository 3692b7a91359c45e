-------------------------- MODULE NotificationAck ---------------------------
(***************************************************************************)
(* One notification: the thread at the provider, its row in the local      *)
(* database and the two tickers between them                               *)
(* (internal/github/notifications_sync.go, internal/db/                    *)
(* queries_notifications.go).  A user reads the row; the propagation       *)
(* ticker then marks the thread read, with a refetch before and after, so  *)
(* that it never acknowledges activity the user has not seen.  The sync    *)
(* ticker lists threads and upserts their rows at the same time.           *)
(*                                                                         *)
(* Versions stand for updated_at.  A queued acknowledgement is known by    *)
(* the time it was queued, here a number; 0 is NULL for it and for the     *)
(* acknowledged generation.                                                *)
(***************************************************************************)
EXTENDS Integers, FiniteSetsExt

CONSTANTS
    MaxVersion,   \* bound: activity on the thread
    MaxQueued,    \* bound: times the user reads the row
    MaxFaults     \* bound: failed or lost requests, and restarts

\* What a module that instantiates this one has to assume.
AckConstants == MaxVersion \in Nat \ {0} /\ MaxQueued \in Nat /\ MaxFaults \in Nat

VARIABLES
    thread,   \* the provider's thread: its version, and whether it is unread
    row,      \* its row
    queued,   \* acknowledgements queued so far
    poll,     \* what the sync ticker listed and has not written, or Nothing
    pc,       \* where the propagation ticker is with the row
    job,      \* the row as ListQueuedNotificationAcks returned it
    fetched,  \* the thread the last refetch returned
    seen,     \* newest version the user has read, here or at the provider
    faults

vars == << thread, row, queued, poll, pc, job, fetched, seen, faults >>

Thread == [version : 1 .. MaxVersion, unread : BOOLEAN]

Nothing == [version |-> 0, unread |-> FALSE]

\* queue    - source_ack_queued_at
\* synced   - source_ack_synced_at is set
\* covered  - source_ack_generation_at
\* givenUp  - source_ack_error is max_attempts_exceeded
Row == [version : 1 .. MaxVersion, unread : BOOLEAN, queue : 0 .. MaxQueued,
        synced : BOOLEAN, covered : 0 .. MaxVersion, givenUp : BOOLEAN]

NoJob == [queue |-> 0, version |-> 0]

\* refresh: the thread moved on before the mark-read; reconcile: before the
\* second refetch; settle: it did not.
States == {"idle", "check", "fetch", "refresh", "mark", "verify", "reconcile", "settle"}

TypeOK ==
    /\ thread \in Thread
    /\ row \in Row
    /\ queued \in 0 .. MaxQueued
    /\ poll \in Thread \union {Nothing}
    /\ pc \in States
    /\ job \in [queue : 0 .. MaxQueued, version : 0 .. MaxVersion]
    /\ fetched \in Thread \union {Nothing}
    /\ seen \in 0 .. MaxVersion
    /\ faults \in 0 .. MaxFaults

\* The thread was just synced.
Init ==
    /\ thread = [version |-> 1, unread |-> TRUE]
    /\ row = [version |-> 1, unread |-> TRUE, queue |-> 0, synced |-> FALSE,
              covered |-> 0, givenUp |-> FALSE]
    /\ queued = 0
    /\ poll = Nothing
    /\ pc = "idle"
    /\ job = NoJob
    /\ fetched = Nothing
    /\ seen = 0
    /\ faults = 0

worker == << pc, job, fetched >>

-----------------------------------------------------------------------------
(* The provider, and the user. *)

Activity ==
    /\ thread.version < MaxVersion
    /\ thread' = [version |-> thread.version + 1, unread |-> TRUE]
    /\ UNCHANGED << row, queued, poll, worker, seen, faults >>

ReadAtProvider ==
    /\ thread.unread
    /\ thread' = [thread EXCEPT !.unread = FALSE]
    /\ seen' = thread.version
    /\ UNCHANGED << row, queued, poll, worker, faults >>

\* QueueNotificationIDsRead, and MarkNotificationsDone with mark_read.
QueueRead ==
    /\ queued < MaxQueued
    /\ queued' = queued + 1
    /\ row' = [row EXCEPT !.unread = FALSE, !.queue = queued', !.synced = FALSE,
                          !.covered = row.version, !.givenUp = FALSE]
    /\ seen' = Max({seen, row.version})
    /\ UNCHANGED << thread, poll, worker, faults >>

-----------------------------------------------------------------------------
(* upsertNotificationsTx: an older version writes nothing; a read thread   *)
(* settles the acknowledgement; an unread one is news only when it is      *)
(* newer than what is covered.                                             *)

UpsertAsListed(r, t) ==                                            \* mutant
    IF t.version < r.version THEN r
    ELSE [r EXCEPT !.version = t.version, !.unread = t.unread, !.queue = 0,
                   !.synced = ~t.unread, !.covered = t.version, !.givenUp = FALSE]

Upserted(r, t) ==
    LET news == r.covered # 0 /\ t.version > r.covered IN
    IF t.version < r.version THEN r
    ELSE IF ~t.unread
    THEN [r EXCEPT !.version = t.version, !.unread = FALSE, !.queue = 0,
                   !.synced = TRUE, !.covered = t.version, !.givenUp = FALSE]
    ELSE [r EXCEPT !.version = t.version,
                   !.unread  = r.covered = 0 \/ news,
                   !.queue   = IF news /\ ~r.synced THEN 0 ELSE @,
                   !.synced  = @ /\ ~news,
                   !.covered = IF news THEN 0 ELSE @,
                   !.givenUp = @ /\ ~news]

\* The sync ticker: one run at a time lists, and writes what it listed.
PollList ==
    /\ poll = Nothing
    /\ poll' = thread
    /\ UNCHANGED << thread, row, queued, worker, seen, faults >>

PollWrite ==
    /\ poll # Nothing
    /\ row' = Upserted(row, poll)
    /\ poll' = Nothing
    /\ UNCHANGED << thread, queued, worker, seen, faults >>

-----------------------------------------------------------------------------
(* ProcessQueuedNotificationReads, for the row. *)

Goto(next) == pc' = next /\ UNCHANGED job

Done == pc' = "idle" /\ job' = NoJob /\ fetched' = Nothing

world == << thread, queued, poll, seen >>

List ==
    /\ pc = "idle"
    /\ row.queue # 0 /\ ~row.synced /\ ~row.givenUp
    /\ pc' = "check"
    /\ job' = [queue |-> row.queue, version |-> row.version]
    /\ UNCHANGED << world, row, fetched, faults >>

\* The writes to the row below carry this condition in their WHERE clause.
RowIsJobs == row.queue = job.queue /\ row.version = job.version

\* NotificationAckPropagationCurrent.
Check ==
    /\ pc = "check"
    /\ IF RowIsJobs /\ ~row.synced /\ ~row.givenUp
         THEN Goto("fetch") /\ UNCHANGED fetched
         ELSE Done
    /\ UNCHANGED << world, row, faults >>

\* The refetches, before and after the mark-read.
Fetch(at, moved, still) ==
    /\ pc = at
    /\ IF thread.version > job.version
         THEN fetched' = thread /\ Goto(moved)
         ELSE UNCHANGED fetched /\ Goto(still)
    /\ UNCHANGED << world, row, faults >>

FetchBefore == Fetch("fetch", "refresh", "mark")

FetchAfter == Fetch("verify", "reconcile", "settle")

MarkRead ==
    /\ pc = "mark"
    /\ thread' = [thread EXCEPT !.unread = FALSE]
    /\ Goto("verify")
    /\ UNCHANGED << row, queued, poll, seen, fetched, faults >>

\* ReopenNotificationAckPropagation (and Reactivate, which also clears the
\* local completion that is not modelled).
Reopened ==
    IF RowIsJobs
      THEN [row EXCEPT !.unread = TRUE, !.queue = 0, !.synced = FALSE,
                       !.covered = 0, !.givenUp = FALSE]
      ELSE row

\* persistOrReopenNotificationAck: the row is refreshed from the thread, as
\* unread if our own mark-read may have hidden that; a row without a known
\* repository is reopened instead.
Persist ==
    /\ pc \in {"refresh", "reconcile"}
    /\ LET t == [fetched EXCEPT !.unread = @ \/ pc = "reconcile"] IN
        row' \in {Upserted(row, t), Reopened}
    /\ Done
    /\ UNCHANGED << world, faults >>

SettleAnyRow ==                                                    \* mutant
    /\ pc = "settle"
    /\ row' = [row EXCEPT !.unread = FALSE, !.queue = 0, !.synced = TRUE,
                          !.covered = job.version, !.givenUp = FALSE]
    /\ Done
    /\ UNCHANGED << world, faults >>

\* MarkNotificationAckPropagationResult with success.
Settle ==
    /\ pc = "settle"
    /\ row' = IF RowIsJobs
                THEN [row EXCEPT !.unread = FALSE, !.queue = 0, !.synced = TRUE,
                                 !.covered = job.version, !.givenUp = FALSE]
                ELSE row
    /\ Done
    /\ UNCHANGED << world, faults >>

Fault == faults < MaxFaults /\ faults' = faults + 1

\* A request fails, or the answer to a mark-read that was applied is lost:
\* the acknowledgement stays queued, or was tried too often.
RequestFails ==
    /\ Fault
    /\ pc \in {"fetch", "mark"}
    /\ \E applied \in {FALSE, pc = "mark"} :
        thread' = [thread EXCEPT !.unread = @ /\ ~applied]
    /\ \E cap \in BOOLEAN :
        row' = [row EXCEPT !.givenUp = @ \/ (cap /\ RowIsJobs)]
    /\ Done
    /\ UNCHANGED << queued, poll, seen >>

\* The second refetch fails: nobody knows what the mark-read acknowledged.
FetchAfterFails ==
    /\ Fault
    /\ pc = "verify"
    /\ row' = Reopened
    /\ Done
    /\ UNCHANGED world

\* The daemon restarts; its tickers begin anew.
Restart ==
    /\ Fault
    /\ pc # "idle" \/ poll # Nothing
    /\ poll' = Nothing
    /\ Done
    /\ UNCHANGED << thread, row, queued, seen >>

Next ==
    \/ Activity \/ ReadAtProvider \/ QueueRead
    \/ PollList \/ PollWrite
    \/ List \/ Check \/ FetchBefore \/ MarkRead \/ FetchAfter \/ Persist \/ Settle
    \/ RequestFails \/ FetchAfterFails \/ Restart

Spec == Init /\ [][Next]_vars

-----------------------------------------------------------------------------
(* Properties. *)

\* A read that is no longer queued was propagated: the provider's thread is
\* read, or has newer activity than the row shows, through stale lists,
\* stale acknowledgements, lost answers and restarts.
ReadIsPropagated ==
    ~row.unread /\ row.queue = 0 => ~thread.unread \/ thread.version > row.version

\* Unseen activity is never acknowledged silently: a row shows as read only
\* up to what the user has read, except while the mark-read that may have
\* gone too far is being reconciled.
UnseenIsShown ==
    ~row.unread /\ row.version > seen => pc \in {"verify", "reconcile", "settle"}
=============================================================================
