---------------------------- MODULE DeferredMerge ----------------------------
(***************************************************************************)
(* Merge-after-CI (internal/server/pullapi/deferred_merge.go) with the     *)
(* immediate merge it races with (mergePRWithBody in routes.go) and the    *)
(* provider write gate both are admitted through.                          *)
(*                                                                         *)
(* A handle stands for one deferred-merge request, and for the worker the  *)
(* request starts; an immediate is one request of the merge endpoint.  The *)
(* pull request lives at the provider (prov) and, as of the last sync, in  *)
(* the local row (row).  Merges are bound to the reviewed head, as for the *)
(* providers with MutationHeadBinding: a request names the head its client *)
(* rendered, the daemon binds the merge to the head of the row, and its    *)
(* preflight compares the two.  The head of the row is the one of its diff *)
(* (DiffHeadSHA); a preflight that finds the diff missing or stale fails.  *)
(***************************************************************************)
EXTENDS ProviderWriteGate, FiniteSets

CONSTANTS
    PRs,          \* pull requests, the keys of deferredMergeInFlight
    Handles,
    Immediates,
    Enrollment,   \* the enrollment the daemon may be preparing
    None,
    MaxHead,      \* bound: head commits of one pull request
    MaxBase       \* bound: commits of its base branch

Actors == Handles \union Immediates

ASSUME MergeAssumption ==
    /\ Handles \intersect Immediates = {}
    /\ None \notin Actors \union PRs /\ "elsewhere" \notin Actors
    /\ IsFiniteSet(Actors) /\ IsFiniteSet(PRs)
    /\ MaxHead \in Nat \ {0} /\ MaxBase \in Nat \ {0}

VARIABLES
    prov,         \* the provider's pull request, and who merged it
    row,          \* the local snapshot of it
    pending,      \* deferredMergeInFlight
    superseded,   \* handles whose superseded channel is closed
    released,     \* handles whose release ran (releaseOnce)
    requests,     \* HTTP requests that hold an admission of the gate
    pc,
    target,       \* what each actor was asked to merge: the head its client
                  \* rendered, and the one the daemon bound the merge to
    event,        \* terminal event each worker published
    shutdown      \* the background context is cancelled

merging == << prov, row, pending, superseded, released, target >>
vars == << gate, prep, prov, row, pending, superseded, released, requests, pc,
           target, event, shutdown >>

States == {"open", "closed", "merged"}
Snapshots == [state : States, head : 1 .. MaxHead, base : 1 .. MaxBase]

(* read, refreshKeys, admit, mark, start                    - the request   *)
(* refresh, ci, wait, ensureRow, ensureProvider, clear,                     *)
(* announce, fail, failClear, failAnnounce, exit            - the worker    *)
(* preflight, merge, sync, supersede                        - either merge  *)
RequestPCs == {"read", "refreshKeys", "admit", "mark", "start"}
MergePCs == {"preflight", "merge", "sync", "supersede"}
WorkerPCs == {"refresh", "ci", "wait", "ensureRow", "ensureProvider", "clear",
              "announce", "fail", "failClear", "failAnnounce", "exit"}
PCs == {"idle", "done"} \union RequestPCs \union MergePCs \union WorkerPCs

TypeOK ==
    /\ gate \in GateTypes
    /\ prep \in [phase : Phases, enrollment : {NoEnrollment, Enrollment},
                 drain : {NoGeneration, 0}, seal : {NoSeal}]
    /\ prov \in [PRs -> [state : States, head : 1 .. MaxHead, base : 1 .. MaxBase,
                         by : Actors \union {None, "elsewhere"}]]
    /\ row \in [PRs -> Snapshots]
    /\ pending \in [PRs -> Handles \union {None}]
    /\ superseded \subseteq Handles
    /\ released \subseteq Handles
    /\ requests \subseteq Actors
    /\ pc \in [Actors -> PCs]
    /\ target \in [Actors -> [pr : PRs \union {None}, head : 0 .. MaxHead, bound : 0 .. MaxHead,
                           base : 0 .. MaxBase]]
    /\ event \in [Handles -> {"none", "merged", "failed"}]
    /\ shutdown \in BOOLEAN

Init ==
    /\ prep = OpenRow
    /\ gate = NewGate(FALSE, TRUE)
    /\ prov = [k \in PRs |-> [state |-> "open", head |-> 1, base |-> 1, by |-> None]]
    /\ row = [k \in PRs |-> [state |-> "open", head |-> 1, base |-> 1]]
    /\ pending = [k \in PRs |-> None]
    /\ superseded = {} /\ released = {} /\ requests = {}
    /\ pc = [a \in Actors |-> "idle"]
    /\ target = [a \in Actors |-> [pr |-> None, head |-> 0, bound |-> 0, base |-> 0]]
    /\ event = [h \in Handles |-> "none"]
    /\ shutdown = FALSE

Goto(a, l) == pc' = [pc EXCEPT ![a] = l]
PR(a) == target[a].pr
Snapshot(k) == [state |-> prov[k].state, head |-> prov[k].head, base |-> prov[k].base]

-----------------------------------------------------------------------------
(* The queue of one handle per pull request. *)

\* handle.finish: the gate's count goes down once per handle.
Finish(h) ==
    /\ released' = released \union {h}
    /\ IF h \in released THEN UNCHANGED gate ELSE ReleaseDeferredMerge

ClearWithoutCompare(h) ==                                            \* mutant
    /\ pending' = [pending EXCEPT ![PR(h)] = None]
    /\ Finish(h)

\* clearDeferredMergeInFlight: compare and delete.
Clear(h) ==
    IF pending[PR(h)] = h
      THEN /\ pending' = [pending EXCEPT ![PR(h)] = None]
           /\ Finish(h)
      ELSE UNCHANGED << pending, released, gate >>

SupersedeLeakingCount(k) ==                                          \* mutant
    IF pending[k] = None
      THEN UNCHANGED << pending, superseded, released, gate >>
      ELSE /\ superseded' = superseded \union {pending[k]}
           /\ pending' = [pending EXCEPT ![k] = None]
           /\ UNCHANGED << released, gate >>

\* supersedeDeferredMerge
SupersedePending(k) ==
    IF pending[k] = None
      THEN UNCHANGED << pending, superseded, released, gate >>
      ELSE /\ superseded' = superseded \union {pending[k]}
           /\ pending' = [pending EXCEPT ![k] = None]
           /\ Finish(pending[k])

-----------------------------------------------------------------------------
(* The request that queues a deferred merge. *)

\* admitProviderWrite, for either kind of request.
Request(a, k, l) ==
    /\ pc[a] = "idle"
    /\ Admit
    /\ requests' = requests \union {a}
    /\ target' = [target EXCEPT ![a] =
         [pr |-> k, head |-> row[k].head, bound |-> 0, base |-> 0]]
    /\ Goto(a, l)
    /\ UNCHANGED << prep, prov, row, pending, superseded, released, event,
                    shutdown >>

\* The handler returned: the gate's release runs.
Respond(a) ==
    /\ a \in requests
    /\ pc[a] \notin RequestPCs
    /\ a \in Immediates => pc[a] = "done"
    /\ requests' = requests \ {a}
    /\ Release
    /\ UNCHANGED << prep, merging, pc, event, shutdown >>

PreflightUnverified(a) == row[PR(a)].state = "open"                  \* mutant

\* preflightMergePR: neither closed nor merged, and what the merge would be
\* bound to is the head the client rendered.
Preflight(a) == row[PR(a)].state = "open" /\ row[PR(a)].head = target[a].head

\* enqueueDeferredMerge reads the row: an open pull request with the reviewed
\* head, and checks that are pending or must be refreshed first.  The row as it
\* is read is the queued target.
DeferRead(h) ==
    /\ pc[h] = "read"
    /\ \/ /\ Preflight(h)
          /\ target' = [target EXCEPT ![h] =
               [@ EXCEPT !.bound = row[PR(h)].head, !.base = row[PR(h)].base]]
          /\ \E l \in {"refreshKeys", "admit"} : Goto(h, l)
       \/ Goto(h, "done") /\ UNCHANGED target
    /\ UNCHANGED << gate, prep, prov, row, pending, superseded, released, requests,
                    event, shutdown >>

\* TargetMatches, against the row or against the provider.
TargetMatches(h, s) == s.head = target[h].bound /\ s.base = target[h].base

\* refreshPendingDeferredMergeCheckKeys
DeferRefresh(h) ==
    /\ pc[h] = "refreshKeys"
    /\ \/ TargetMatches(h, row[PR(h)]) /\ Goto(h, "admit")
       \/ Goto(h, "done")
    /\ UNCHANGED << gate, prep, merging, requests, event, shutdown >>

DeferAdmit(h) ==
    /\ pc[h] = "admit"
    /\ \/ BeginDeferredMerge /\ Goto(h, "mark")
       \/ ~Admits /\ Goto(h, "done") /\ UNCHANGED gate
    /\ UNCHANGED << prep, merging, requests, event, shutdown >>

\* markDeferredMergeInFlight; a second request gives its admission back.
DeferMark(h) ==
    /\ pc[h] = "mark"
    /\ IF pending[PR(h)] = None
         THEN /\ pending' = [pending EXCEPT ![PR(h)] = h]
              /\ Goto(h, "start")
              /\ UNCHANGED gate
         ELSE /\ ReleaseDeferredMerge
              /\ Goto(h, "done")
              /\ UNCHANGED pending
    /\ UNCHANGED << prep, prov, row, superseded, released, requests, target, event, shutdown >>

\* runBackground starts the worker, unless the server is shutting down.
DeferStart(h) ==
    /\ pc[h] = "start"
    /\ IF shutdown
         THEN Clear(h) /\ Goto(h, "done")
         ELSE Goto(h, "refresh") /\ UNCHANGED << pending, released, gate >>
    /\ UNCHANGED << prep, prov, row, superseded, requests, target, event,
                    shutdown >>
-----------------------------------------------------------------------------
(* The worker: poll CI until it passes, check the target, merge. *)

\* TargetMatches and RequireOpen: a merged target ends the worker silently, a
\* changed or closed one fails it.
Check(h, s, l) ==
    IF ~TargetMatches(h, s) THEN "fail"
    ELSE CASE s.state = "merged" -> "exit"
           [] s.state = "closed" -> "fail"
           [] s.state = "open" -> l

Step(h, from, labels) ==
    /\ pc[h] = from
    /\ \E l \in labels : Goto(h, l)
    /\ UNCHANGED << gate, prep, merging, requests, event, shutdown >>

\* refreshDeferredMergeCI: the row before the provider is asked ...
RefreshRow(h) == Step(h, "refresh", {Check(h, row[PR(h)], "ci"), "fail"})

\* ... and after; what the refreshed checks say is the provider's choice.
RefreshCI(h) ==
    Step(h, "ci", {Check(h, row[PR(h)], l) : l \in {"ensureRow", "wait", "fail"}} \union {"fail"})

Tick(h) == Step(h, "wait", {"refresh"})

WaitForever(h) == FALSE                                              \* mutant

WaitTimeout(h) == Step(h, "wait", {"fail"})

WaitDone(h) == (shutdown \/ h \in superseded) /\ Step(h, "wait", {"exit"})

\* ensureDeferredMergeTargetUnchanged: the row, then the provider itself.
EnsureRow(h) == Step(h, "ensureRow", {Check(h, row[PR(h)], "ensureProvider"), "fail"})

EnsureProvider(h) ==
    Step(h, "ensureProvider", {Check(h, Snapshot(PR(h)), "preflight"), "fail"})

\* Pending is cleared, then the success is announced.
ClearMerged(h) ==
    /\ pc[h] = "clear"
    /\ Clear(h)
    /\ Goto(h, "announce")
    /\ UNCHANGED << prep, prov, row, superseded, requests, target, event,
                    shutdown >>

Announce(h, from, e) ==
    /\ pc[h] = from
    /\ event' = [event EXCEPT ![h] = e]
    /\ Goto(h, "exit")
    /\ UNCHANGED << gate, prep, merging, requests, shutdown >>

AnnounceMerged(h) == Announce(h, "announce", "merged")

\* broadcastDeferredMergeFailure: silent when superseded, else pending is
\* cleared and the failure announced.
FailureCheck(h) == Step(h, "fail", {IF h \in superseded THEN "exit" ELSE "failClear"})

FailureClear(h) ==
    /\ pc[h] = "failClear"
    /\ Clear(h)
    /\ Goto(h, "failAnnounce")
    /\ UNCHANGED << prep, prov, row, superseded, requests, target, event,
                    shutdown >>

AnnounceFailed(h) == Announce(h, "failAnnounce", "failed")

\* The deferred clear of the goroutine.
Exit(h) ==
    /\ pc[h] = "exit"
    /\ Clear(h)
    /\ Goto(h, "done")
    /\ UNCHANGED << prep, prov, row, superseded, requests, target, event,
                    shutdown >>

-----------------------------------------------------------------------------
(* mergePRWithBody, run by a worker or by an immediate request. *)

\* Where an error or merged:false, and where a merge, leaves the caller.
AfterNoMerge(a) == IF a \in Handles THEN "fail" ELSE "done"
AfterMerge(a) == IF a \in Handles THEN "clear" ELSE "done"

\* The row is read again: it may have moved since the request or the queueing.
MergePreflight(a) ==
    /\ pc[a] = "preflight"
    /\ \/ /\ Preflight(a)
          /\ target' = [target EXCEPT ![a].bound = row[PR(a)].head]
          /\ Goto(a, "merge")
       \/ Goto(a, AfterNoMerge(a)) /\ UNCHANGED target
    /\ UNCHANGED << gate, prep, prov, row, pending, superseded, released, requests, event,
                    shutdown >>

\* The provider merges an open pull request that is still at the head the
\* daemon names, whatever the client rendered.
ProviderMerges(a) ==
    prov[PR(a)].state = "open" /\ prov[PR(a)].head = target[a].bound

UnmergedTakenForMerge(a) == IF a \in Handles THEN "sync" ELSE "done"      \* mutant

\* merged:false leaves the queue alone.
Unmerged(a) == AfterNoMerge(a)

\* MergeMergeRequest: the merge lands and is answered, lands and the answer
\* is lost, or does not land.
MergeCall(a) ==
    /\ pc[a] = "merge"
    /\ \/ /\ ProviderMerges(a)
          /\ prov' = [prov EXCEPT ![PR(a)].state = "merged", ![PR(a)].by = a]
          /\ \E l \in {"sync", AfterNoMerge(a)} : Goto(a, l)
       \/ /\ \E l \in {Unmerged(a), AfterNoMerge(a)} : Goto(a, l)
          /\ UNCHANGED prov
    /\ UNCHANGED << gate, prep, row, pending, superseded, released, requests, target,
                    event, shutdown >>

\* SyncClosedMROnProvider: when it fails the row stays as it was.
MergeSync(a) ==
    /\ pc[a] = "sync"
    /\ \/ row' = [row EXCEPT ![PR(a)] = Snapshot(PR(a))]
       \/ UNCHANGED row
    /\ Goto(a, "supersede")
    /\ UNCHANGED << gate, prep, prov, pending, superseded, released, requests, target,
                    event, shutdown >>

MergeSupersede(a) ==
    /\ pc[a] = "supersede"
    /\ SupersedePending(PR(a))
    /\ Goto(a, AfterMerge(a))
    /\ UNCHANGED << prep, prov, row, requests, target, event, shutdown >>

-----------------------------------------------------------------------------
(* The environment: the provider's users, sync, time, the operator. *)

others == << pending, superseded, released, requests, pc, target, event >>

ProviderMoves(k) ==
    /\ \/ /\ prov[k].state = "open" /\ prov[k].head < MaxHead
          /\ prov' = [prov EXCEPT ![k].head = @ + 1]
       \/ /\ prov[k].base < MaxBase
          /\ prov[k].state # "merged"
          /\ prov' = [prov EXCEPT ![k].base = @ + 1]
       \/ /\ prov[k].state = "open"
          /\ prov' = [prov EXCEPT ![k].state = "closed"]
       \/ /\ prov[k].state = "closed"
          /\ prov' = [prov EXCEPT ![k].state = "open"]
       \/ /\ prov[k].state = "open"
          /\ prov' = [prov EXCEPT ![k].state = "merged", ![k].by = "elsewhere"]
    /\ UNCHANGED << gate, prep, row, others, shutdown >>

\* A periodic sync, or the resync after a stale head.
Sync(k) ==
    /\ row' = [row EXCEPT ![k] = Snapshot(k)]
    /\ UNCHANGED << gate, prep, prov, others, shutdown >>

Shutdown ==
    /\ ~shutdown
    /\ shutdown' = TRUE
    /\ UNCHANGED << gate, prep, prov, row, others >>

\* prepare-spoke and abort-preparation, as far as the gate is concerned.
Prepare ==
    /\ BeginQuiesce(Enrollment) \/ Status(0) \/ AbortPreparation
    /\ UNCHANGED << prov, row, others, shutdown >>

-----------------------------------------------------------------------------

Defer(h) ==
    \/ DeferRead(h) \/ DeferRefresh(h) \/ DeferAdmit(h) \/ DeferMark(h) \/ DeferStart(h)

Merge(a) == MergePreflight(a) \/ MergeCall(a) \/ MergeSync(a) \/ MergeSupersede(a)

Work(h) ==
    \/ RefreshRow(h) \/ RefreshCI(h) \/ Tick(h) \/ WaitTimeout(h) \/ WaitDone(h)
    \/ EnsureRow(h) \/ EnsureProvider(h)
    \/ ClearMerged(h) \/ AnnounceMerged(h)
    \/ FailureCheck(h) \/ FailureClear(h) \/ AnnounceFailed(h) \/ Exit(h)

Next ==
    \/ \E h \in Handles : Defer(h) \/ Work(h)
    \/ \E a \in Actors : Merge(a) \/ Respond(a)
    \/ \E h \in Handles, k \in PRs : Request(h, k, "read")
    \/ \E i \in Immediates, k \in PRs : Request(i, k, "preflight")
    \/ \E k \in PRs : ProviderMoves(k) \/ Sync(k)
    \/ Shutdown \/ Prepare

Spec == Init /\ [][Next]_vars

(* Goroutines are scheduled and provider calls end.  The timeout's channel *)
(* stays ready once the timer has fired, as the superseded channel does    *)
(* once it is closed, and select chooses fairly among the ready ones.      *)
FairSpec ==
    /\ Spec
    /\ \A h \in Handles :
         /\ WF_vars(Defer(h)) /\ WF_vars(Work(h))
         /\ SF_vars(WaitTimeout(h)) /\ SF_vars(WaitDone(h))
    /\ \A a \in Actors : WF_vars(Merge(a)) /\ WF_vars(Respond(a))

-----------------------------------------------------------------------------
(* The gate as a barrier, over the merges of the daemon. *)

BarrierState ==
    IF prep.drain # NoGeneration THEN "frozen" ELSE IF Admits THEN "open" ELSE "closed"

\* Requests that were not answered, handles in the queue, and requests between
\* their admission and their place in it.
AdmittedWork ==
    ({"request"} \X requests) \union
    ({"queued"} \X {h \in Handles : pc[h] = "mark" \/ \E k \in PRs : pending[k] = h})

MergedByUs == {k \in PRs : prov[k].by \in Actors}

Barrier == INSTANCE WriteBarrier WITH
    Works <- {"request", "queued"} \X Actors,
    Values <- SUBSET PRs,
    barrier <- BarrierState,
    working <- AdmittedWork,
    written <- MergedByUs

-----------------------------------------------------------------------------
(* Properties. *)

\* The gate counts exactly the admitted work: requests that have not been
\* answered, handles in the queue, and requests between their admission and
\* their place in it.  Nothing leaks and nothing is released twice.
GateCountsWork ==
    /\ gate.inFlight = Cardinality(requests)
    /\ gate.deferredMerges =
         Cardinality({h \in Handles : pc[h] = "mark"})
           + Cardinality({k \in PRs : pending[k] # None})

\* A worker that may still merge or report is the pending one of its pull
\* request, unless a merge superseded it: no other worker's cleanup takes
\* its place away.
LiveWorkerIsPending ==
    \A h \in Handles :
        pc[h] \in {"start", "refresh", "ci", "wait", "ensureRow", "ensureProvider", "fail",
                  "failClear"} \union MergePCs
          => pending[PR(h)] = h \/ h \in superseded

\* What the daemon merged is the head its user reviewed, though the provider is
\* told the head of the row, which a sync moves at any moment between the
\* rendering, the request, the queue and the merge (preflightMergePR,
\* verifyClientReviewedHead).
MergedHeadIsReviewed ==
    \A k \in PRs : prov[k].by \in Actors => prov[k].head = target[prov[k].by].head

\* Success is announced by the worker whose merge landed, never for
\* merged:false or for somebody else's merge.
AnnouncedMergeIsReal ==
    \A h \in Handles : event[h] = "merged" => prov[PR(h)].by = h

\* The acknowledgement generation is frozen only once all admitted work has
\* drained, and nothing is admitted while it is.
FrozenIsDrained ==
    prep.drain # NoGeneration => gate.inFlight = 0 /\ gate.deferredMerges = 0

\* No merge of the daemon lands at the provider once the generation is
\* frozen: not even of a superseded worker, which the gate no longer counts.
FrozenIsQuiet ==
    [][\A k \in PRs : prov[k].by = None /\ prov'[k].by \in Actors
                        => prep.drain = NoGeneration]_vars

\* Admission, queue and freeze implement the barrier: work joins while the gate
\* admits, only admitted work merges, and the generation is frozen when none is
\* left.
IsWriteBarrier == Barrier!Spec

\* A queued merge does not stay queued.
QueueEnds == \A h \in Handles, k \in PRs : pending[k] = h ~> pending[k] # h

\* "A successful immediate merge supersedes the queued worker silently ...
\* and the worker emits no event" (context/deferred-merge.md).
SupersededIsSilent ==
    [][\A h \in superseded : event'[h] = "failed" => event[h] = "failed"]_vars
=============================================================================
