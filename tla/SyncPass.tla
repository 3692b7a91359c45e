------------------------------ MODULE SyncPass ------------------------------
(***************************************************************************)
(* The inside of one sync pass (internal/github/sync.go, runOnceWithSlot   *)
(* and runWorker): a dispatcher hands repositories to a pool of workers    *)
(* over an unbuffered channel while the pass's context may end at any      *)
(* moment.  The run slot around it is SyncRun's subject.                   *)
(*                                                                         *)
(* Which repositories are eligible, what a provider answers and when a     *)
(* credential crosses its reserve are choices of the environment.          *)
(***************************************************************************)
EXTENDS Integers, FiniteSets

CONSTANTS
    Total,        \* repositories of the pass, in dispatch order
    Workers,      \* the pool: min(max(parallelism, 1), total) goroutines
    Dispatcher,   \* the goroutine of the pass itself
    NoItem        \* a worker that waits for work

Items == 1 .. Total

\* What a pass is given; the module that runs this one assumes it.
PassConstants ==
    /\ Total \in Nat
    /\ IsFiniteSet(Workers)
    /\ Dispatcher \notin Workers
    /\ NoItem \notin Items

Procs == Workers \union {Dispatcher}

VARIABLES
    ctxDone,     \* the pass's context ended
    pc,          \* where the dispatcher and each worker are
    item,        \* repository in each worker's hands
    next,        \* dispatcher's position in the list
    closed,      \* close(work)
    completed,   \* state.completed
    maxShown,    \* state.maxShown
    done,        \* value of completed each goroutine reports
    canceled,    \* state.canceled
    result,      \* what is known of each repository
    lastErr,     \* state.lastErrorCode
    progress,    \* last published count
    outcome,     \* how the pass ended
    (* Observation only. *)
    ceilingSeen  \* some repository hit the local ceiling

vars == << ctxDone, pc, item, next, closed, completed, maxShown, done, canceled,
           result, lastErr, progress, outcome, ceilingSeen >>

(* dispatch, send, close, wait, drain, over                - the dispatcher *)
(* receive, check, backoff, sync, synced, exited            - a worker      *)
(* counted, showing                                         - either        *)
PCs == {"dispatch", "send", "close", "wait", "drain", "over", "receive", "check",
        "backoff", "sync", "synced", "exited", "counted", "showing"}

TypeOK ==
    /\ ctxDone \in BOOLEAN
    /\ pc \in [Procs -> PCs]
    /\ item \in [Workers -> Items \union {NoItem}]
    /\ next \in 1 .. Total + 1
    /\ closed \in BOOLEAN
    /\ completed \in 0 .. Total
    /\ maxShown \in 0 .. Total
    /\ done \in [Procs -> 0 .. Total]
    /\ canceled \in BOOLEAN
    /\ result \in [Items -> {"none", "synced", "failed", "skipped"}]
    /\ lastErr \in {"none", "other", "ceiling"}
    /\ progress \in 0 .. Total
    /\ outcome \in {"none", "canceled", "completed"}
    /\ ceilingSeen \in BOOLEAN

Init ==
    /\ ctxDone \in BOOLEAN
    /\ pc = [p \in Procs |-> IF p = Dispatcher THEN "dispatch" ELSE "receive"]
    /\ item = [w \in Workers |-> NoItem]
    /\ next = 1
    /\ closed = FALSE
    /\ completed = 0
    /\ maxShown = 0
    /\ done = [p \in Procs |-> 0]
    /\ canceled = FALSE
    /\ result = [i \in Items |-> "none"]
    /\ lastErr = "none"
    /\ progress = 0
    /\ outcome = "none"
    /\ ceilingSeen = FALSE

Goto(p, l) == pc' = [pc EXCEPT ![p] = l]

-----------------------------------------------------------------------------
(* publishMonotonicProgress: count, raise maxShown, publish. *)

\* Where a goroutine goes on after it reported its repository.
Resume(p) == IF p = Dispatcher THEN "dispatch" ELSE "receive"

\* state.completed.Add(1)
Count(p) ==
    /\ completed' = completed + 1
    /\ done' = [done EXCEPT ![p] = completed + 1]
    /\ Goto(p, "counted")

\* The compare-and-swap loop, up to the swap that wins or the early return.
Raise(p) ==
    /\ pc[p] = "counted"
    /\ IF done[p] >= Total \/ done[p] <= maxShown
         THEN /\ Goto(p, Resume(p))
              /\ UNCHANGED maxShown
         ELSE /\ maxShown' = done[p]
              /\ Goto(p, "showing")
    /\ UNCHANGED << ctxDone, item, next, closed, completed, done, canceled, result,
                    lastErr, progress, outcome, ceilingSeen >>

\* publishStatus, after the swap and outside it.
Show(p) ==
    /\ pc[p] = "showing"
    /\ progress' = done[p]
    /\ Goto(p, Resume(p))
    /\ UNCHANGED << ctxDone, item, next, closed, completed, maxShown, done, canceled,
                    result, lastErr, outcome, ceilingSeen >>

-----------------------------------------------------------------------------
(* The dispatch loop. *)

\* The credential route cannot be resolved, or the bucket is not eligible.
DispatchSkip ==
    /\ pc[Dispatcher] = "dispatch"
    /\ next <= Total
    /\ \E r \in {"failed", "skipped"} : result' = [result EXCEPT ![next] = r]
    /\ next' = next + 1
    /\ Count(Dispatcher)
    /\ UNCHANGED << ctxDone, item, closed, maxShown, canceled, lastErr, progress,
                    outcome, ceilingSeen >>

\* An eligible repository: the context is checked before the select.
DispatchNext ==
    /\ pc[Dispatcher] = "dispatch"
    /\ next <= Total
    /\ IF ctxDone
         THEN Goto(Dispatcher, "close") /\ canceled' = TRUE
         ELSE Goto(Dispatcher, "send") /\ UNCHANGED canceled
    /\ UNCHANGED << ctxDone, item, next, closed, completed, maxShown, done, result,
                    lastErr, progress, outcome, ceilingSeen >>

\* select: a worker takes the item ...
Send(w) ==
    /\ pc[Dispatcher] = "send"
    /\ pc[w] = "receive"
    /\ item' = [item EXCEPT ![w] = next]
    /\ next' = next + 1
    /\ pc' = [pc EXCEPT ![Dispatcher] = "dispatch", ![w] = "check"]
    /\ UNCHANGED << ctxDone, closed, completed, maxShown, done, canceled, result,
                    lastErr, progress, outcome, ceilingSeen >>

SendWaits ==                                                       \* mutant
    /\ pc[Dispatcher] = "send"
    /\ \E w \in Workers : Send(w)

\* ... or the context is done.
SendCanceled ==
    /\ pc[Dispatcher] = "send"
    /\ ctxDone
    /\ canceled' = TRUE
    /\ Goto(Dispatcher, "close")
    /\ UNCHANGED << ctxDone, item, next, closed, completed, maxShown, done, result,
                    lastErr, progress, outcome, ceilingSeen >>

DispatchDone ==
    /\ pc[Dispatcher] = "dispatch"
    /\ next > Total
    /\ Goto(Dispatcher, "close")
    /\ UNCHANGED << ctxDone, item, next, closed, completed, maxShown, done, canceled,
                    result, lastErr, progress, outcome, ceilingSeen >>

CloseWork ==
    /\ pc[Dispatcher] = "close"
    /\ closed' = TRUE
    /\ Goto(Dispatcher, "wait")
    /\ UNCHANGED << ctxDone, item, next, completed, maxShown, done, canceled, result,
                    lastErr, progress, outcome, ceilingSeen >>

\* wg.Wait; the two drains run only while nothing was canceled, and leave
\* this state alone.
WaitWorkers ==
    /\ pc[Dispatcher] = "wait"
    /\ \A w \in Workers : pc[w] = "exited"
    /\ Goto(Dispatcher, "drain")
    /\ UNCHANGED << ctxDone, item, next, closed, completed, maxShown, done, canceled,
                    result, lastErr, progress, outcome, ceilingSeen >>

\* onSyncCompleted fires unless somebody latched the cancellation.
Conclude ==
    /\ pc[Dispatcher] = "drain"
    /\ outcome' = IF canceled THEN "canceled" ELSE "completed"
    /\ Goto(Dispatcher, "over")
    /\ UNCHANGED << ctxDone, item, next, closed, completed, maxShown, done, canceled,
                    result, lastErr, progress, ceilingSeen >>

-----------------------------------------------------------------------------
(* runWorker. *)

\* recordRunError: an exhausted local ceiling is not overwritten.
RecordError(code) ==
    /\ lastErr' = IF lastErr = "ceiling" THEN lastErr ELSE code
    /\ ceilingSeen' = (ceilingSeen \/ code = "ceiling")

QuitUnlatched(w) ==                                                \* mutant
    /\ Goto(w, "exited")
    /\ item' = [item EXCEPT ![w] = NoItem]
    /\ UNCHANGED canceled

\* The worker observed the end of the context with work outstanding.
Quit(w) ==
    /\ canceled' = TRUE
    /\ Goto(w, "exited")
    /\ item' = [item EXCEPT ![w] = NoItem]

Finished(w, r) ==
    /\ result' = [result EXCEPT ![item[w]] = r]
    /\ item' = [item EXCEPT ![w] = NoItem]

WorkClosed(w) ==
    /\ pc[w] = "receive"
    /\ closed
    /\ Goto(w, "exited")
    /\ UNCHANGED << ctxDone, item, next, closed, completed, maxShown, done, canceled,
                    result, lastErr, progress, outcome, ceilingSeen >>

\* A canceled context wins; otherwise the route may be gone, the reserve
\* exhausted, the tracker in backoff, or the repository is synced.
Check(w) ==
    /\ pc[w] = "check"
    /\ \/ /\ ctxDone
          /\ Quit(w)
          /\ UNCHANGED << completed, done, result, lastErr, ceilingSeen >>
       \/ /\ ~ctxDone
          /\ Finished(w, "failed")
          /\ RecordError("other")
          /\ Goto(w, "receive")
          /\ UNCHANGED << completed, done, canceled >>
       \/ /\ ~ctxDone
          /\ Finished(w, "skipped")
          /\ Count(w)
          /\ UNCHANGED << canceled, lastErr, ceilingSeen >>
       \/ /\ ~ctxDone
          /\ \E l \in {"backoff", "sync"} : Goto(w, l)
          /\ UNCHANGED << item, completed, done, canceled, result, lastErr, ceilingSeen >>
    /\ UNCHANGED << ctxDone, next, closed, maxShown, progress, outcome >>

\* The backoff timer fires, or the context ends first.
Backoff(w) ==
    /\ pc[w] = "backoff"
    /\ \/ /\ Goto(w, "sync")
          /\ UNCHANGED << item, canceled >>
       \/ /\ ctxDone
          /\ Quit(w)
    /\ UNCHANGED << ctxDone, next, closed, completed, maxShown, done, result, lastErr,
                    progress, outcome, ceilingSeen >>

\* syncRepo returns: nil, an error, or an error of the ended context.
SyncRepo(w) ==
    /\ pc[w] = "sync"
    /\ \/ /\ result' = [result EXCEPT ![item[w]] = "synced"]
          /\ Goto(w, "synced")
          /\ UNCHANGED << item, canceled, lastErr, ceilingSeen >>
       \/ /\ \E code \in {"other", "ceiling"} : RecordError(code)
          /\ result' = [result EXCEPT ![item[w]] = "failed"]
          /\ Goto(w, "synced")
          /\ UNCHANGED << item, canceled >>
       \/ /\ ctxDone
          /\ Quit(w)
          /\ UNCHANGED << result, lastErr, ceilingSeen >>
    /\ UNCHANGED << ctxDone, next, closed, completed, maxShown, done, progress, outcome >>

\* A client that ignored the context does not hide its end.
Synced(w) ==
    /\ pc[w] = "synced"
    /\ IF ctxDone
         THEN /\ Quit(w)
              /\ UNCHANGED << completed, done >>
         ELSE /\ item' = [item EXCEPT ![w] = NoItem]
              /\ Count(w)
              /\ UNCHANGED canceled
    /\ UNCHANGED << ctxDone, next, closed, maxShown, result, lastErr, progress, outcome,
                    ceilingSeen >>

-----------------------------------------------------------------------------

CancelContext ==
    /\ ~ctxDone
    /\ ctxDone' = TRUE
    /\ UNCHANGED << pc, item, next, closed, completed, maxShown, done, canceled, result,
                    lastErr, progress, outcome, ceilingSeen >>

Dispatch ==
    \/ DispatchSkip \/ DispatchNext \/ SendCanceled \/ DispatchDone
    \/ CloseWork \/ WaitWorkers \/ Conclude
    \/ \E w \in Workers : Send(w)

Work(w) == WorkClosed(w) \/ Check(w) \/ Backoff(w) \/ SyncRepo(w) \/ Synced(w)

Report(p) == Raise(p) \/ Show(p)

Next ==
    \/ Dispatch \/ CancelContext
    \/ \E w \in Workers : Work(w)
    \/ \E p \in Procs : Report(p)

Spec == Init /\ [][Next]_vars

(* Goroutines are scheduled, provider requests and backoff timers end.     *)
FairSpec ==
    /\ Spec
    /\ WF_vars(Dispatch)
    /\ \A w \in Workers : WF_vars(Work(w))
    /\ \A p \in Procs : WF_vars(Report(p))

-----------------------------------------------------------------------------
(* Properties. *)

\* onSyncCompleted is only told of a pass that accounted for every repository: a
\* cancellation that left work undone never passes for success, wherever it was
\* observed.  It is told of an exhausted local ceiling whatever errors other
\* workers recorded before or after it.
CompletedIsComplete ==
    outcome = "completed" =>
        /\ \A i \in Items : result[i] # "none"
        /\ ceilingSeen => lastErr = "ceiling"

\* A count that was shown is of repositories the pass is done with, each with a
\* result: though a count may be shown late (below), none ever claims more than
\* was done, whatever the workers' reports overtake.
ProgressIsEarned ==
    progress <= Cardinality({i \in Items : result[i] # "none" /\ \A w \in Workers : item[w] # i})

\* "guarantee SSE progress never regresses" (publishMonotonicProgress).
ProgressNeverRegresses == [][progress' >= progress]_vars

\* A pass ends, canceled or not: no dispatcher waits for workers that left,
\* no worker for a channel that stays open.
PassEnds == <>(outcome # "none")
=============================================================================
