---------------------------- MODULE ArchiveScan -----------------------------
(***************************************************************************)
(* The full archive of one repository (internal/archive, internal/db/      *)
(* queries_archive*.go): the created-order inventories, the prompt         *)
(* maintenance that later walks what was updated since a watermark, and    *)
(* the hydration of the items either of them found.                        *)
(*                                                                         *)
(* One worker serves a repository.  It reads a page or an item from the    *)
(* provider with no lock held and commits the answer in a transaction of   *)
(* its own; meanwhile the operator pauses and resumes the archive, items   *)
(* are updated, another repository's worker reports an item that moved     *)
(* here, and the daemon may die.                                           *)
(*                                                                         *)
(* Left out: discovery mode, a provider that turns a feature off, items    *)
(* that vanish or move away.                                               *)
(*                                                                         *)
(* Times are clock values; 0 is NULL.  The archive was created at time 1.  *)
(* A cursor is opaque, so it stands for what the pages up to it covered:   *)
(* the items of an inventory, which lists by creation and never reorders;  *)
(* the update times of a maintenance scan, which lists newest first, so    *)
(* that an item updated meanwhile moves behind the cursor.                 *)
(***************************************************************************)
EXTENDS Integers, FiniteSets, FiniteSetsExt

CONSTANTS
    Issues,          \* items of the issue streams
    MergeRequests,   \* items of the merge-request streams
    MaxTime,         \* bound: the clock
    MaxScans,        \* bound: maintenance scans begun
    MaxMoves         \* bound: reports of an item that moved here

\* The bounds; the module that runs this one assumes them.
ArchiveConstants == MaxTime \in Nat \ {0} /\ MaxScans \in Nat /\ MaxMoves \in Nat

VARIABLES
    clock,
    updated,   \* provider: when each item was last updated, 0 before it exists
    stored,    \* the update that the last stored content of an item includes
    archive,   \* the row of forge_archive_repos
    scan,      \* the rows of forge_archive_repo_scans
    item,      \* forge_archive_items with their lookup progress
    pc, work,  \* the worker, and the unit of work it holds
    moves,     \* reports of moved items so far
    early      \* one of them came before the first watermark

vars == << clock, updated, stored, archive, scan, item, pc, work, moves, early >>

Items == Issues \union MergeRequests
Streams == {"issues", "merge_requests"}
ItemsOf == [issues |-> Issues, merge_requests |-> MergeRequests]
Scans == {"inventory", "maintenance"} \X Streams
Times == 0 .. MaxTime

\* started and since are prompt_scan_started_at and prompt_since; deferred is
\* archiveRepoDeferred.
Archive == [active : BOOLEAN, deferred : BOOLEAN, completed : Times, watermark : Times,
            succeeded : Times, started : Times, since : Times]
Scan == [generation : Nat, cursor : SUBSET (Items \union Times),
         status : {"pending", "running", "complete", "blocked"}]
Item == [evidence : Times, status : {"absent", "pending", "failed", "complete"},
         generation : Nat]

NoWork == [scan |-> << "", "" >>, generation |-> 0, cursor |-> {}, since |-> 0,
           started |-> 0, page |-> [i \in Items |-> 0], next |-> {},
           exhausted |-> FALSE, item |-> << >>]

\* begin: the prompt boundary; read, commit: one page; complete: the watermark;
\* sync, settle: one item.
PCs == {"idle", "begin", "read", "commit", "complete", "sync", "settle"}

TypeOK ==
    /\ clock \in Times /\ moves \in 0 .. MaxMoves /\ early \in BOOLEAN
    /\ updated \in [Items -> Times] /\ stored \in [Items -> Times]
    /\ archive \in Archive
    /\ DOMAIN scan = Scans /\ \A k \in Scans : scan[k] \in Scan
    /\ item \in [Items -> Item]
    /\ pc \in PCs

\* The archive was just promoted to full; some items exist already.
Init ==
    /\ clock = 1
    /\ updated \in [Items -> {0, 1}]
    /\ stored = [i \in Items |-> 0]
    /\ archive = [active |-> TRUE, deferred |-> FALSE, completed |-> 0, watermark |-> 0,
                  succeeded |-> 0, started |-> 0, since |-> 0]
    /\ scan = [k \in Scans |-> [generation |-> 1, cursor |-> {}, status |-> "pending"]]
    /\ item = [i \in Items |-> [evidence |-> 0, status |-> "absent", generation |-> 2]]
    /\ pc = "idle" /\ work = NoWork
    /\ moves = 0 /\ early = FALSE

world == << clock, updated, stored >>
move == << moves, early >>

Complete(k) == scan[k].status = "complete"
Eligible(k) == scan[k].status \in {"pending", "running"}
Maintenance(s) == << "maintenance", s >>
Inventory(s) == << "inventory", s >>

Goes(p) == pc' = p /\ work' = NoWork

-----------------------------------------------------------------------------
(* The provider and its users. *)

Tick == clock < MaxTime /\ clock' = clock + 1
        /\ UNCHANGED << updated, stored, archive, scan, item, pc, work, move >>

\* An item is created or updated, perhaps again within the same second: then
\* the stored content misses an update its time does not show.
Update(i) ==
    /\ updated[i] # clock \/ stored[i] = clock
    /\ updated' = [updated EXCEPT ![i] = clock]
    /\ stored' = [stored EXCEPT ![i] = IF @ = clock THEN 0 ELSE @]
    /\ UNCHANGED << clock, archive, scan, item, pc, work, move >>

-----------------------------------------------------------------------------
(* The archive row. *)

\* completeArchiveInitialIfReadyTx, with the scans and items of the transaction.
InitialTime(scans, items) ==
    IF /\ archive.completed = 0
       /\ \A s \in Streams : scans[Inventory(s)].status = "complete"
       /\ \A i \in Items : items[i].status \notin {"pending", "failed"}
    THEN clock ELSE archive.completed

Pause ==
    /\ archive.active
    /\ archive' = [archive EXCEPT !.active = FALSE]
    /\ UNCHANGED << world, scan, item, pc, work, move >>

Start ==
    /\ ~archive.active
    /\ archive' = [archive EXCEPT !.active = TRUE, !.completed = InitialTime(scan, item)]
    /\ UNCHANGED << world, scan, item, pc, work, move >>

\* A retry time passes, or the operator retries.
RetryDue ==
    /\ archive.deferred
    /\ archive' = [archive EXCEPT !.deferred = FALSE]
    /\ UNCHANGED << world, scan, item, pc, work, move >>

\* The watermark a move leaves: COALESCE(maintenance_watermark,
\* initial_completed_at, created_at).
Coalesced ==
    CASE archive.watermark # 0 -> archive.watermark
      [] archive.watermark = 0 /\ archive.completed # 0 -> archive.completed
      [] OTHER -> 1

\* Another repository's hydration reports that an item moved here.
QueuePrompt ==
    /\ archive.active /\ moves < MaxMoves
    /\ archive' = [archive EXCEPT !.watermark = Coalesced, !.succeeded = 0]
    /\ moves' = moves + 1
    /\ early' = (early \/ archive.watermark = 0)
    /\ UNCHANGED << world, scan, item, pc, work >>

-----------------------------------------------------------------------------
(* What a pass picks.  A feature deferral makes the pass skip a unit, so any*)
(* eligible one may be next.                                                *)

Runnable == pc = "idle" /\ archive.active /\ ~archive.deferred

\* The worker takes scan k at its durable cursor.
Takes(k) ==
    /\ pc' = "read"
    /\ work' = [work EXCEPT !.scan = k, !.generation = scan[k].generation,
                            !.cursor = scan[k].cursor]

StartInventory(s) ==
    /\ Runnable /\ Eligible(Inventory(s))
    /\ Takes(Inventory(s))
    /\ UNCHANGED << world, archive, scan, item, move >>

Due ==
    /\ archive.completed # 0
    /\ \/ archive.watermark = 0 \/ archive.succeeded = 0
       \/ archive.succeeded < clock

Actionable ==
    \/ \E s \in Streams : Eligible(Maintenance(s))
    \/ \A s \in Streams : Complete(Maintenance(s))

\* since is read from the state the pass began with.
StartPrompt ==
    /\ Runnable
    /\ IF archive.started = 0 THEN Due ELSE Actionable
    /\ pc' = "begin"
    /\ work' = [NoWork EXCEPT !.since = IF archive.watermark # 0 THEN archive.watermark
                                                                 ELSE 1]
    /\ UNCHANGED << world, archive, scan, item, move >>

\* An item whose lookup is pending or failed.
StartHydration(i) ==
    /\ Runnable /\ item[i].status \in {"pending", "failed"}
    /\ pc' = "sync"
    /\ work' = [NoWork EXCEPT !.item = << i >>, !.generation = item[i].generation]
    /\ UNCHANGED << world, archive, scan, item, move >>

\* Live work preempts the request, the daemon dies, or admission refuses the
\* request and defers the repository.
Drop ==
    /\ pc # "idle"
    /\ \E refused \in BOOLEAN :
         /\ refused => pc \in {"read", "sync"}
         /\ archive' = [archive EXCEPT !.deferred = @ \/ refused]
    /\ Goes("idle")
    /\ UNCHANGED << world, scan, item, move >>

-----------------------------------------------------------------------------
(* Prompt maintenance: the boundary, two streams of pages, the watermark. *)

Reset(k) == [generation |-> scan[k].generation + 1, cursor |-> {}, status |-> "pending"]

Fresh == [k \in Scans |-> IF k[1] = "maintenance" THEN Reset(k) ELSE scan[k]]

\* Where promptMaintenance goes on once it is done with the streams in past.
\* Nobody else moves the cursors, so the rows are those Begin returned.
NextStream(past, scans, base) ==
    LET open == {s \in Streams \ past :
                   scans[Maintenance(s)].status \in {"pending", "running"}}
        k == Maintenance(IF "issues" \in open THEN "issues" ELSE "merge_requests")
    IN  IF open = {}
        THEN pc' = "complete" /\ work' = base
        ELSE /\ pc' = "read"
             /\ work' = [base EXCEPT !.scan = k, !.generation = scans[k].generation,
                                     !.cursor = scans[k].cursor]

Boundary(started, since) == [NoWork EXCEPT !.started = started, !.since = since]

\* The boundary is established once and kept until the watermark moves.
Begin ==
    /\ pc = "begin"
    /\ \/ ~archive.active /\ Goes("idle") /\ UNCHANGED << archive, scan >>
       \/ /\ archive.active /\ archive.started # 0
          /\ NextStream({}, scan, Boundary(archive.started, archive.since))
          /\ UNCHANGED << archive, scan >>
       \/ /\ archive.active /\ archive.started = 0
          /\ scan[Maintenance("issues")].generation < 2 * MaxScans
          /\ archive' = [archive EXCEPT !.started = clock, !.since = work.since]
          /\ scan' = Fresh
          /\ NextStream({}, Fresh, Boundary(clock, work.since))
    /\ UNCHANGED << world, item, move >>

StreamEnds(scans) ==
    IF work.scan[1] = "inventory" THEN Goes("idle")
    ELSE NextStream(IF work.scan[2] = "issues" THEN {"issues"} ELSE Streams, scans,
                    Boundary(work.started, work.since))

\* A feature deferral before the request: the other stream may still advance.
SkipStream ==
    /\ pc = "read" /\ work.scan[1] = "maintenance"
    /\ StreamEnds(scan)
    /\ UNCHANGED << world, archive, scan, item, move >>

\* The provider's answer at work.cursor: the next items by creation, or the
\* items updated in the next band of times.
Page(items, next, exhausted) ==
    /\ pc' = "commit"
    /\ work' = [work EXCEPT
                  !.page = [i \in Items |-> IF i \in items THEN updated[i] ELSE 0],
                  !.next = next, !.exhausted = exhausted]

ReadInventory ==
    /\ pc = "read" /\ work.scan[1] = "inventory"
    /\ LET rest == {i \in ItemsOf[work.scan[2]] : updated[i] # 0} \ work.cursor
       IN  \E items \in SUBSET rest :
             \/ items # {} /\ Page(items, work.cursor \union items, FALSE)
             \/ items = rest /\ Page(items, {}, TRUE)
    /\ UNCHANGED << world, archive, scan, item, move >>

ReadUpdated ==
    /\ pc = "read" /\ work.scan[1] = "maintenance"
    /\ LET newest == IF work.cursor = {} THEN clock ELSE Min(work.cursor) - 1
       IN  \E oldest \in work.since .. newest :
             LET items == {i \in ItemsOf[work.scan[2]] : updated[i] \in oldest .. newest}
             IN  IF oldest = work.since
                 THEN Page(items, {}, TRUE)
                 ELSE Page(items, work.cursor \union (oldest .. newest), FALSE)
    /\ UNCHANGED << world, archive, scan, item, move >>

\* Whether the scan is still the one the worker claimed.
Claimed == scan[work.scan].generation = work.generation /\ Eligible(work.scan)

\* The request fails: a page-scoped violation blocks the scan, anything else
\* defers the repository, either only for the claimed scan.
ReadFails ==
    /\ pc = "read"
    /\ \/ /\ scan' = IF Claimed THEN [scan EXCEPT ![work.scan].status = "blocked"] ELSE scan
          /\ StreamEnds(scan')
          /\ UNCHANGED archive
       \/ /\ archive' = [archive EXCEPT !.deferred = @ \/ Claimed]
          /\ Goes("idle")
          /\ UNCHANGED scan
    /\ UNCHANGED << world, item, move >>

\* One observation of an item: a new item is queued; a prompt observation of a
\* known one queues it again unless it is older than the evidence.
Observed(it, seen) ==
    LET reopen == work.scan[1] = "maintenance" /\ seen >= it.evidence
    IN  IF it.status = "absent"
        THEN [it EXCEPT !.evidence = seen, !.status = "pending"]
        ELSE [evidence |-> Max({it.evidence, seen}),
              status |-> IF reopen THEN "pending" ELSE it.status,
              generation |-> IF reopen THEN it.generation + 2 ELSE it.generation]

\* Mutant: a page of the claimed generation is accepted whatever its cursor.
AnyCursor == Claimed

\* checkArchiveScanAdvanceTx.  One worker never replays a page, so the last
\* input cursor is left out.
MayAdvance == Claimed /\ scan[work.scan].cursor = work.cursor

\* A paused archive drops the page without an error, and promptPages goes on to
\* the page after it; a stale one ends the stream.
CommitPage ==
    /\ pc = "commit"
    /\ LET advances == archive.active /\ MayAdvance
           items == [i \in Items |-> IF work.page[i] # 0 THEN Observed(item[i], work.page[i])
                                                         ELSE item[i]]
           scans == [scan EXCEPT ![work.scan].cursor = work.next,
                                 ![work.scan].status = IF work.exhausted THEN "complete"
                                                                         ELSE "running"]
           halted == archive.active /\ ~MayAdvance
       IN  /\ IF advances
              THEN /\ item' = items
                   /\ scan' = scans
                   /\ archive' = [archive EXCEPT !.deferred = FALSE,
                                                 !.completed = InitialTime(scans, items)]
              ELSE UNCHANGED << archive, scan, item >>
           /\ IF halted \/ work.exhausted \/ work.scan[1] = "inventory"
              THEN StreamEnds(scan')
              ELSE /\ pc' = "read"
                   /\ work' = [Boundary(work.started, work.since) EXCEPT
                                 !.scan = work.scan, !.generation = work.generation,
                                 !.cursor = work.next]
    /\ UNCHANGED << world, move >>

\* The watermark moves to the boundary the worker was given by Begin.
CompletePrompt ==
    /\ pc = "complete"
    /\ Goes("idle")
    /\ IF archive.active /\ \A s \in Streams : Complete(Maintenance(s))
       THEN /\ archive' = [archive EXCEPT !.watermark = work.started, !.succeeded = clock,
                                          !.started = 0, !.since = 0, !.deferred = FALSE]
            /\ scan' = Fresh
       ELSE UNCHANGED << archive, scan >>
    /\ UNCHANGED << world, item, move >>

-----------------------------------------------------------------------------
(* Hydration: a sync of the item, then the record of its outcome. *)

SyncItem ==
    /\ pc = "sync"
    /\ stored' = [stored EXCEPT ![work.item[1]] = updated[work.item[1]]]
    /\ pc' = "settle"
    /\ UNCHANGED << clock, updated, archive, scan, item, work, move >>

\* The sync fails, or what a merge request's sync saw changed before its record;
\* some failures defer the whole repository.
SyncFails ==
    /\ pc = "sync" \/ (pc = "settle" /\ work.item[1] \in MergeRequests)
    /\ LET it == item[work.item[1]]
           current == it.generation = work.generation /\ it.status \in {"pending", "failed"}
       IN  /\ item' = IF current THEN [item EXCEPT ![work.item[1]].status = "failed"] ELSE item
           /\ \E all \in BOOLEAN :
                archive' = [archive EXCEPT !.deferred = @ \/ (all /\ current)]
    /\ Goes("idle")
    /\ UNCHANGED << world, scan, move >>

SettleItem ==
    /\ pc = "settle"
    /\ LET it == item[work.item[1]]
           items == [item EXCEPT ![work.item[1]].status = "complete"]
       IN  IF it.generation = work.generation /\ it.status # "complete"
           THEN /\ item' = items
                /\ archive' = [archive EXCEPT !.deferred = FALSE,
                                              !.completed = InitialTime(scan, items)]
           ELSE UNCHANGED << archive, item >>
    /\ Goes("idle")
    /\ UNCHANGED << world, scan, move >>

-----------------------------------------------------------------------------
Next ==
    \/ Tick \/ \E i \in Items : Update(i)
    \/ Pause \/ Start \/ RetryDue \/ QueuePrompt
    \/ \E s \in Streams : StartInventory(s)
    \/ StartPrompt
    \/ \E i \in Items : StartHydration(i)
    \/ Drop
    \/ Begin \/ SkipStream \/ ReadInventory \/ ReadUpdated \/ ReadFails
    \/ CommitPage \/ CompletePrompt
    \/ SyncItem \/ SyncFails \/ SettleItem

Spec == Init /\ [][Next]_vars

-----------------------------------------------------------------------------
(* Properties. *)

\* The last update of i that the next maintenance scan will not list any more:
\* it is in the archive, or the item waits for its hydration.
Kept(i) ==
    updated[i] \in 1 .. (archive.watermark - 1) =>
        stored[i] = updated[i] \/ item[i].status \in {"pending", "failed"}

\* Maintenance resumes at the watermark, so it may only pass updates that were
\* listed, through pauses between the pages of a scan, updates that move items
\* behind its cursor and restarts from the durable cursor.  A move that was
\* queued before the first watermark is the exception FirstBoundaryIsCreation
\* is about (CommitArchiveInventoryPage, CompleteArchivePromptMaintenance).
NoUpdateIsSkipped == early \/ \A i \in Items : Kept(i)

\* "Full-archive promotion keeps the discovery creation time as the first
\* maintenance boundary": the first scan misses no update since the creation
\* (queueArchivePromptByIdentity).
FirstBoundaryIsCreation == \A i \in Items : Kept(i)
=============================================================================
