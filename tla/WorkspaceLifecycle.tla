-------------------------- MODULE WorkspaceLifecycle --------------------------
(***************************************************************************)
(* One workspace from its creation to its deletion: setup and its retries, *)
(* direct and queued deletions, launches of runtime sessions, their stop,  *)
(* exit and recovery, and a restart of the daemon.                         *)
(* (internal/server/workspaceapi, workspace/manager.go, db/queries.go)     *)
(*                                                                         *)
(* Three guards keep these apart: compare-and-swap updates of the row's    *)
(* status, the setup admission under workspaceSetupMu, and the runtime     *)
(* manager's stop markers (RuntimeSessions).  A context that ends and an   *)
(* operation that fails show as one failing step of the deletion, and as   *)
(* the steps with which a setup or a retry gives up; the updates that      *)
(* settle a failed setup or deletion succeed.  The duplicate create of an  *)
(* execution worker (createWorkerWorkspace) is left out.                   *)
(***************************************************************************)
EXTENDS RuntimeSessions

CONSTANTS
    Workers,       \* requests that create or retry, with the setup each starts
    Creator,       \* the one that created the workspace
    Requests,      \* bound: the deletions asked for, each once; they may overlap
    MaxRestarts    \* bound on restarts

VARIABLES
    status,     \* forge_workspaces.status, or "gone"
    rows,       \* forge_workspace_runtime_sessions
    setupDone,  \* workspaceSetupDone: who holds the setup admission
    deletion,   \* workspaceDeleting: how many are active, and whether one succeeded
    retryQueued, retryMu,
    worker,     \* where each create or retry request is
    deleter,    \* where each deletion is
    taken,      \* the sessions the deletion's StopWorkspace took
    stopper,    \* the session an API request stopped and has yet to forget
    recovery,   \* the recovery pass: the session it restores
    pending,    \* runtimeRecoveryPending
    leftBy,     \* history: where a setup gave up, until the next one starts
    restarts

handler == << setupDone, deletion, retryQueued, retryMu, worker, deleter, taken,
              stopper, recovery, pending, leftBy, restarts >>
vars == << manager, status, rows, handler >>

Nobody == "nobody"
Recovery == "recovery"
Retirement == "retirement"   \* the deletion a setup itself asks for
Deleters == Requests \union {Retirement}

ASSUME LifecycleAssumption ==
    /\ Creator \in Workers /\ MaxRestarts \in Nat
    /\ IsFiniteSet(Requests) /\ Retirement \notin Requests
    /\ Nobody \notin Workers \union Launches /\ Recovery \notin Workers

NoDeletion == [active |-> 0, succeeded |-> FALSE]
IdleDeleter == [pc |-> "idle", queued |-> FALSE, admitted |-> FALSE, waits |-> FALSE]
Returned(d) == IF d = Retirement THEN IdleDeleter ELSE [IdleDeleter EXCEPT !.pc = "returned"]

Init ==
    /\ ManagerInit
    /\ status = "creating" /\ rows = {}
    /\ setupDone = Nobody /\ deletion = NoDeletion
    /\ retryQueued = FALSE /\ retryMu = Nobody
    /\ worker = [w \in Workers |-> IF w = Creator THEN "begin" ELSE "idle"]
    /\ deleter = [d \in Deleters |-> IdleDeleter]
    /\ taken = {} /\ stopper = Nobody /\ recovery = Nobody /\ pending = {}
    /\ leftBy = Nobody /\ restarts = 0

-----------------------------------------------------------------------------
(* Setup admission.                                                        *)

\* Closing a channel wakes everyone who waits for it.
CloseSetup ==
    /\ setupDone' = Nobody
    /\ deleter' = [d \in Deleters |-> [deleter[d] EXCEPT !.waits = FALSE]]

\* The record of a deletion outlives it only when one succeeded.
Deleting == deletion.active > 0 \/ deletion.succeeded

Woken(channel) == [w \in Workers |-> IF worker[w] = channel THEN "begin" ELSE worker[w]]

BeginWorkspaceSetup(w) ==
    /\ worker[w] = "begin"
    /\ IF Deleting
         THEN /\ worker' = [worker EXCEPT ![w] =
                   IF deletion.succeeded THEN "idle" ELSE "awaitDeletion"]
              /\ UNCHANGED << setupDone, leftBy >>
         ELSE IF setupDone # Nobody
                THEN /\ worker' = [worker EXCEPT ![w] = "awaitSetup"]
                     /\ UNCHANGED << setupDone, leftBy >>
                ELSE /\ worker' = [worker EXCEPT ![w] = "setup"] /\ setupDone' = w
                     /\ leftBy' = Nobody
    /\ UNCHANGED << manager, status, rows, deletion, retryQueued, retryMu, deleter, taken,
                    stopper, recovery, pending, restarts >>

\* An update of the row finds no row once it is gone.
SetStatus(s) == status' = IF status = "gone" THEN "gone" ELSE s

OnWorker == UNCHANGED << manager, rows, setupDone, deletion, retryMu, taken, stopper,
                         recovery, pending, leftBy, restarts >>

\* SetupWithOptions: its updates of the status are unconditional.
SetupEndsAs(w, s, next) ==
    /\ worker[w] = "setup"
    /\ SetStatus(s)
    /\ worker' = [worker EXCEPT ![w] = next]
    /\ OnWorker /\ UNCHANGED << retryQueued, deleter >>

SetupSucceeds(w) == SetupEndsAs(w, "ready", "after")
SetupFails(w) == SetupEndsAs(w, "error", "after")
SetupUnresolved(w) == SetupEndsAs(w, "error", "retire")

\* queueWorkspaceRetirement, asked by the setup whose repository is unknown.
QueueRetirement(w) ==
    /\ worker[w] = "retire"
    /\ IF status \in {"ready", "error"}
         THEN /\ status' = "deleting"
              /\ deleter' = [deleter EXCEPT ![Retirement] =
                   [pc |-> "mark", queued |-> TRUE, admitted |-> TRUE, waits |-> FALSE]]
         ELSE UNCHANGED << status, deleter >>
    /\ worker' = [worker EXCEPT ![w] = "finish"]
    /\ OnWorker /\ UNCHANGED retryQueued

ConsumeUnlocked(w) ==                                                  \* mutant
    /\ worker[w] = "after"
    /\ retryQueued' = FALSE
    /\ worker' = [worker EXCEPT ![w] = IF retryQueued THEN "restart" ELSE "finish"]
    /\ OnWorker /\ UNCHANGED << status, deleter >>

\* consumeQueuedRetry, and a retry only from "error".
ConsumeQueuedRetry(w) ==
    /\ worker[w] = "after" /\ retryMu = Nobody
    /\ retryQueued' = FALSE
    /\ worker' = [worker EXCEPT ![w] = IF retryQueued THEN "restart" ELSE "finish"]
    /\ OnWorker /\ UNCHANGED << status, deleter >>

StartQueuedRetry(w) ==
    /\ worker[w] = "restart"
    /\ IF status = "error"
         THEN status' = "creating" /\ worker' = [worker EXCEPT ![w] = "restarted"]
         ELSE UNCHANGED status /\ worker' = [worker EXCEPT ![w] = "finish"]
    /\ OnWorker /\ UNCHANGED << retryQueued, deleter >>

\* The summary of the retry is read and announced before it is set up.
ResumeSetup(w) ==
    /\ worker[w] = "restarted"
    /\ worker' = [worker EXCEPT ![w] = "setup"]
    /\ OnWorker /\ UNCHANGED << status, retryQueued, deleter >>

\* What the setup does next fails: a read of the row, queueing the retirement,
\* starting the retry.  It returns, and leaves the rest undone.
SetupGivesUp(w) ==
    /\ worker[w] \in {"after", "retire", "restart", "restarted"}
    /\ leftBy' = worker[w]
    /\ worker' = [worker EXCEPT ![w] = "finish"]
    /\ UNCHANGED << manager, status, rows, setupDone, deletion, retryQueued, retryMu, deleter,
                    taken, stopper, recovery, pending, restarts >>

FinishWorkspaceSetup(w) ==
    /\ worker[w] = "finish"
    /\ CloseSetup
    /\ worker' = [Woken("awaitSetup") EXCEPT ![w] = "idle"]
    /\ UNCHANGED << manager, status, rows, deletion, retryQueued, retryMu, taken,
                    stopper, recovery, pending, leftBy, restarts >>

-----------------------------------------------------------------------------
(* retryWorkspace: start now, or leave a retry for the setup under way.    *)

StartWorkspaceRetry(w) ==
    /\ worker[w] \in {"idle", "again"} /\ status # "gone"
    /\ IF status = "error"
         THEN status' = "creating" /\ worker' = [worker EXCEPT ![w] = "begin"]
         ELSE UNCHANGED status /\ worker' = [worker EXCEPT ![w] = "conflict"]
    /\ OnWorker /\ UNCHANGED << retryQueued, deleter >>

\* queueRetryOrStartErrored reads the status and queues under retryMu.
RereadStatus(w) ==
    /\ worker[w] = "conflict" /\ retryMu = Nobody
    /\ CASE status = "creating" -> /\ retryMu' = w
                                   /\ worker' = [worker EXCEPT ![w] = "queue"]
                                   /\ UNCHANGED retryQueued
         [] status = "error"    -> /\ retryQueued' = FALSE
                                   /\ worker' = [worker EXCEPT ![w] = "again"]
                                   /\ UNCHANGED retryMu
         [] OTHER               -> /\ worker' = [worker EXCEPT ![w] = "idle"]
                                   /\ UNCHANGED << retryQueued, retryMu >>
    /\ UNCHANGED << manager, status, rows, setupDone, deletion, deleter, taken, stopper,
                    recovery, pending, leftBy, restarts >>

QueueRetry(w) ==
    /\ worker[w] = "queue"
    /\ retryQueued' = TRUE /\ retryMu' = Nobody
    /\ worker' = [worker EXCEPT ![w] = "idle"]
    /\ UNCHANGED << manager, status, rows, setupDone, deletion, deleter, taken, stopper,
                    recovery, pending, leftBy, restarts >>

RetryGivesUp(w) ==     \* a read or an update fails, or the workspace is gone
    /\ worker[w] = "again" \/ (worker[w] = "conflict" /\ retryMu = Nobody)
    /\ worker' = [worker EXCEPT ![w] = "idle"]
    /\ OnWorker /\ UNCHANGED << status, retryQueued, deleter >>

WorkerStep(w) ==
    \/ BeginWorkspaceSetup(w) \/ SetupSucceeds(w) \/ SetupFails(w) \/ SetupUnresolved(w)
    \/ QueueRetirement(w) \/ ConsumeQueuedRetry(w) \/ StartQueuedRetry(w)
    \/ ResumeSetup(w) \/ SetupGivesUp(w) \/ FinishWorkspaceSetup(w)
    \/ RereadStatus(w) \/ QueueRetry(w) \/ RetryGivesUp(w)
    \/ worker[w] = "again" /\ StartWorkspaceRetry(w)

-----------------------------------------------------------------------------
(* DeleteWorkspace and queueWorkspaceDeletion.                             *)

At(d, pc) == deleter[d].pc = pc
MoveDeleter(d, pc) == deleter' = [deleter EXCEPT ![d].pc = pc]

DeletesNothing == UNCHANGED << status, rows, alive, sessions, taken >>
KeepsAdmission == UNCHANGED << setupDone, deletion, worker >>
OnDeleter == UNCHANGED << inflight, exited, launch, watch, retryQueued, retryMu,
                          stopper, recovery, pending, leftBy, restarts >>

Admissible == status \in {"ready", "error", "deletion_failed"}

\* A queued deletion admits itself before it marks, a direct one after.
QueueDeletion(d) ==
    /\ At(d, "idle") /\ Admissible
    /\ status' = "deleting"
    /\ deleter' = [deleter EXCEPT ![d] =
         [pc |-> "mark", queued |-> TRUE, admitted |-> TRUE, waits |-> FALSE]]
    /\ KeepsAdmission /\ OnDeleter /\ UNCHANGED << rows, alive, sessions, taken, stopping >>

\* markWorkspaceDeleting; it also says which setup to wait for.
MarkWorkspaceDeleting(d) ==
    /\ At(d, "mark") \/ (At(d, "idle") /\ d # Retirement)
    /\ deletion' = [deletion EXCEPT !.active = @ + 1]
    /\ deleter' = [deleter EXCEPT ![d].pc = IF At(d, "mark") THEN "hold" ELSE "lookup",
                                  ![d].waits = setupDone # Nobody]
    /\ OnDeleter /\ DeletesNothing /\ UNCHANGED << setupDone, worker, stopping >>

\* The status a direct request finds once no setup is running.
LookUp(d) ==
    /\ At(d, "lookup") /\ ~deleter[d].waits
    /\ MoveDeleter(d, CASE status = "gone" -> "succeeded"
                        [] status \in {"creating", "deleting"} -> "failed"
                        [] OTHER -> "hold")
    /\ OnDeleter /\ DeletesNothing /\ KeepsAdmission /\ UNCHANGED stopping

\* runWorkspaceDeletion holds the stop marker until it returns.
HoldStopMarker(d) ==
    /\ At(d, "hold")
    /\ BeginStopping
    /\ MoveDeleter(d, "preflight")
    /\ OnDeleter /\ DeletesNothing /\ KeepsAdmission

\* The setup wait of a queued deletion, then Delete's row and dirty checks.
Preflight(d) ==
    /\ At(d, "preflight") /\ ~deleter[d].waits
    /\ status # "gone"
    /\ MoveDeleter(d, IF deleter[d].queued THEN "stop" ELSE "admit")
    /\ OnDeleter /\ DeletesNothing /\ KeepsAdmission /\ UNCHANGED stopping

BeginWorkspaceDeletion(d) ==
    /\ At(d, "admit") /\ Admissible
    /\ status' = "deleting"
    /\ deleter' = [deleter EXCEPT ![d].pc = "stop", ![d].admitted = TRUE]
    /\ OnDeleter /\ KeepsAdmission /\ UNCHANGED << rows, alive, sessions, taken, stopping >>

\* StopWorkspace: its own marker, the wait for launches, the snapshot, the stop.
StopWorkspace(d) ==
    /\ At(d, "stop")
    /\ BeginStopping
    /\ MoveDeleter(d, "drain")
    /\ OnDeleter /\ DeletesNothing /\ KeepsAdmission

TakeSessions(d) ==
    /\ At(d, "drain") /\ InflightDrained
    /\ taken' = sessions /\ sessions' = {}
    /\ MoveDeleter(d, "kill")
    /\ OnDeleter /\ KeepsAdmission /\ UNCHANGED << status, rows, alive, stopping >>

StopTaken(d) ==
    /\ At(d, "kill")
    /\ alive' = alive \ taken /\ taken' = {}
    /\ EndStopping
    /\ MoveDeleter(d, "clean")
    /\ OnDeleter /\ KeepsAdmission /\ UNCHANGED << status, rows, sessions >>

\* cleanupTmuxSession stops what the rows name and forgets them; what may still
\* fail is the removal of the worktree, and of the row.
CleanUp(d) ==
    /\ At(d, "clean")
    /\ alive' = alive \ rows /\ rows' = {}
    /\ MoveDeleter(d, "drop")
    /\ OnDeleter /\ KeepsAdmission /\ UNCHANGED << status, sessions, taken, stopping >>

\* The session rows go with the workspace's.
DeleteRow(d) ==
    /\ At(d, "drop")
    /\ status' = "gone" /\ rows' = {}
    /\ EndStopping
    /\ MoveDeleter(d, "succeeded")
    /\ OnDeleter /\ KeepsAdmission /\ UNCHANGED << alive, sessions, taken >>

\* An error, a dirty worktree or the end of the context.  A wait for launches
\* that is cut short also releases the inner marker; what follows it fails.
DeletionFails(d) ==
    /\ \/ deleter[d].pc \in {"preflight", "admit", "clean", "drop"} /\ EndStopping
       \/ At(d, "drain") /\ stopping' = IF stopping > 1 THEN stopping - 2 ELSE 0
       \/ At(d, "lookup") /\ UNCHANGED stopping
    /\ MoveDeleter(d, IF deleter[d].admitted THEN "persist" ELSE "failed")
    /\ OnDeleter /\ DeletesNothing /\ KeepsAdmission

FailWorkspaceDeletion(d) ==
    /\ At(d, "persist")
    /\ status' = IF status = "deleting" THEN "deletion_failed" ELSE status
    /\ MoveDeleter(d, "failed")
    /\ OnDeleter /\ KeepsAdmission /\ UNCHANGED << rows, alive, sessions, taken, stopping >>

FinishUnnoticed(d) ==                                                  \* mutant
    /\ deleter[d].pc \in {"succeeded", "failed"}
    /\ deletion' = [active |-> deletion.active - 1,
                    succeeded |-> deletion.succeeded \/ At(d, "succeeded")]
    /\ deleter' = [deleter EXCEPT ![d] = Returned(d)]
    /\ OnDeleter /\ DeletesNothing /\ UNCHANGED << setupDone, worker, stopping >>

FinishReopens(d) ==                                                    \* mutant
    LET ok == At(d, "succeeded") IN
    /\ deleter[d].pc \in {"succeeded", "failed"}
    /\ deletion' = IF ok THEN [deletion EXCEPT !.succeeded = TRUE, !.active = 0] ELSE NoDeletion
    /\ worker' = Woken("awaitDeletion")
    /\ deleter' = [deleter EXCEPT ![d] = Returned(d)]
    /\ OnDeleter /\ DeletesNothing /\ UNCHANGED << setupDone, stopping >>

\* The last deletion to finish reopens setup admission, unless one succeeded.
FinishWorkspaceDeleting(d) ==
    /\ deleter[d].pc \in {"succeeded", "failed"}
    /\ deletion' = [active |-> deletion.active - 1,
                    succeeded |-> deletion.succeeded \/ At(d, "succeeded")]
    /\ worker' = IF deletion.active = 1 THEN Woken("awaitDeletion") ELSE worker
    /\ deleter' = [deleter EXCEPT ![d] = Returned(d)]
    /\ OnDeleter /\ DeletesNothing /\ UNCHANGED << setupDone, stopping >>

DeleterStep(d) ==
    \/ At(d, "mark") /\ MarkWorkspaceDeleting(d)
    \/ LookUp(d) \/ HoldStopMarker(d) \/ Preflight(d) \/ BeginWorkspaceDeletion(d)
    \/ StopWorkspace(d) \/ TakeSessions(d) \/ StopTaken(d) \/ CleanUp(d) \/ DeleteRow(d)
    \/ DeletionFails(d) \/ FailWorkspaceDeletion(d) \/ FinishWorkspaceDeleting(d)

-----------------------------------------------------------------------------
(* Launch requests and the sessions they record.                           *)

OnSessions == UNCHANGED << status, setupDone, deletion, retryQueued, retryMu, worker, deleter,
                           taken, leftBy, restarts >>

\* getReadyRuntimeWorkspace, long before the manager is asked.
CheckReady(l) ==
    /\ launch[l] = "idle" /\ status = "ready"
    /\ MoveLaunch(l, "checked")
    /\ OnSessions /\ UNCHANGED << stopping, inflight, sessions, exited, alive, watch,
                                  rows, stopper, recovery, pending >>

\* The row of a session needs the row of its workspace.
RecordRuntimeSession(l) ==
    /\ launch[l] = "launched"
    /\ \/ status # "gone" /\ rows' = rows \union {l} /\ MoveLaunch(l, "recorded")
       \/ UNCHANGED rows /\ MoveLaunch(l, "rollback")
    /\ OnSessions /\ UNCHANGED << stopping, inflight, sessions, exited, alive, watch,
                                  stopper, recovery, pending >>

RollbackLaunch(l) ==
    /\ launch[l] = "rollback"
    /\ alive' = alive \ {l} /\ sessions' = sessions \ {l}
    /\ MoveLaunch(l, "done")
    /\ OnSessions /\ UNCHANGED << stopping, inflight, exited, watch,
                                  rows, stopper, recovery, pending >>

ForgetNothing(l) ==                                                    \* mutant
    /\ launch[l] = "recorded"
    /\ MoveLaunch(l, "done")
    /\ OnSessions /\ UNCHANGED << stopping, inflight, sessions, exited, alive, watch,
                                  rows, stopper, recovery, pending >>

\* forgetRecordedRuntimeSessionIfExited
ForgetIfExited(l) ==
    /\ launch[l] = "recorded"
    /\ rows' = IF l \in sessions THEN rows ELSE rows \ {l}
    /\ MoveLaunch(l, "done")
    /\ OnSessions /\ UNCHANGED << stopping, inflight, sessions, exited, alive, watch,
                                  stopper, recovery, pending >>

\* HandleRuntimeSessionExit leaves a session recovery has yet to settle alone.
ForgetAfterExit(l) ==
    /\ watch[l] = "forget"
    /\ rows' = IF l \in pending THEN rows ELSE rows \ {l}
    /\ watch' = [watch EXCEPT ![l] = "none"]
    /\ OnSessions /\ UNCHANGED << stopping, inflight, sessions, exited, alive, launch,
                                  stopper, recovery, pending >>

\* stopWorkspaceRuntimeSession, for a session the manager holds or a row names.
Stop(l) ==
    /\ stopper = Nobody /\ recovery = Nobody /\ status # "gone"
    /\ l \in sessions \union rows
    /\ alive' = alive \ {l} /\ sessions' = sessions \ {l}
    /\ IF l \in sessions THEN stopper' = l /\ UNCHANGED << rows, pending >>
                         ELSE rows' = rows \ {l} /\ pending' = pending \ {l} /\ UNCHANGED stopper
    /\ OnSessions /\ UNCHANGED << stopping, inflight, exited, launch, watch, recovery >>

ForgetStopped ==
    /\ stopper # Nobody
    /\ rows' = rows \ {stopper} /\ pending' = pending \ {stopper} /\ stopper' = Nobody
    /\ OnSessions /\ UNCHANGED << manager, recovery >>

-----------------------------------------------------------------------------
(* Restart, and the recovery of the sessions it left.                      *)

\* FailInterruptedWorkspaceSetups and ...Deletions; memory is lost, and a
\* process nobody recorded is nobody's.
Restart ==
    /\ restarts < MaxRestarts
    /\ restarts' = restarts + 1
    /\ status' = CASE status = "creating" -> "error"
                   [] status = "deleting" -> "deletion_failed"
                   [] OTHER -> status
    /\ stopping' = 0 /\ inflight' = {}
    /\ sessions' = {} /\ exited' = {} /\ taken' = {}
    /\ alive' = alive \intersect rows
    /\ launch' = [l \in Launches |-> IF launch[l] = "idle" THEN "idle" ELSE "left"]
    /\ watch' = [l \in Launches |-> "none"]
    /\ setupDone' = Nobody /\ deletion' = NoDeletion
    /\ retryQueued' = FALSE /\ retryMu' = Nobody
    /\ worker' = [w \in Workers |-> "idle"]
    /\ deleter' = [d \in Deleters |-> IF At(d, "idle") THEN IdleDeleter ELSE Returned(d)]
    /\ stopper' = Nobody /\ recovery' = Nobody /\ pending' = rows
    /\ leftBy' = Nobody /\ UNCHANGED rows

OnRecovery == UNCHANGED << stopping, inflight, alive, launch, watch, status, deletion,
                           retryQueued, retryMu, taken, stopper, leftBy, restarts >>

BeginRecovery(l) ==
    /\ recovery = Nobody /\ stopper = Nobody /\ l \in pending \intersect rows
    /\ ~Deleting /\ setupDone = Nobody
    /\ recovery' = l /\ setupDone' = Recovery
    /\ OnRecovery /\ UNCHANGED << sessions, exited, rows, pending, worker, deleter >>

\* restoreRuntimeSession attaches a process that runs.
RestoreRuntimeSession ==
    /\ recovery \in alive \ (exited \union sessions)
    /\ status \in {"ready", "creating", "error"}
    /\ sessions' = sessions \union {recovery}
    /\ OnRecovery /\ UNCHANGED << exited, rows, pending, worker, deleter, recovery, setupDone >>

\* A session that is attached is settled, the row of one that is gone is
\* forgotten, and one that is unavailable is tried again.
EndRecovery ==
    /\ recovery # Nobody
    /\ pending' = IF recovery \in sessions \/ recovery \notin alive \union exited
                    THEN pending \ {recovery} ELSE pending
    /\ rows' = IF recovery \notin sessions \union alive \union exited
                 THEN rows \ {recovery} ELSE rows
    /\ recovery' = Nobody
    /\ CloseSetup /\ worker' = Woken("awaitSetup")
    /\ OnRecovery /\ UNCHANGED << sessions, exited >>

-----------------------------------------------------------------------------

\* PruneMissingTmuxSessions: the workspace's own terminal is gone.
MarkReadyWorkspaceError ==
    /\ status = "ready"
    /\ status' = "error"
    /\ UNCHANGED << manager, rows, handler >>

ManagerStep ==
    /\ \E l \in Launches : LaunchStep(l) \/ Exit(l) \/ RemoveExitedSession(l)
    /\ UNCHANGED << status, rows, handler >>

Next ==
    \/ \E w \in Workers : WorkerStep(w) \/ (worker[w] = "idle" /\ StartWorkspaceRetry(w))
    \/ \E d \in Deleters : DeleterStep(d)
    \/ \E d \in Requests : QueueDeletion(d) \/ (At(d, "idle") /\ MarkWorkspaceDeleting(d))
    \/ ManagerStep
    \/ \E l \in Launches : \/ CheckReady(l) \/ RecordRuntimeSession(l) \/ RollbackLaunch(l)
                           \/ ForgetIfExited(l) \/ ForgetAfterExit(l) \/ Stop(l)
    \/ ForgetStopped \/ Restart \/ MarkReadyWorkspaceError
    \/ \E l \in Launches : BeginRecovery(l)
    \/ RestoreRuntimeSession \/ EndRecovery

Spec == Init /\ [][Next]_vars

\* A step that was begun is finished: setups, deletions, launches and the
\* recovery pass do not stop half-way unless the daemon does.  Recovery passes
\* are workspaceTmuxPruneInterval apart, so a setup that waits gets in between.
Fairness ==
    /\ \A w \in Workers : WF_vars(WorkerStep(w)) /\ SF_vars(BeginWorkspaceSetup(w) /\ setupDone' = w)
    /\ \A d \in Deleters : WF_vars(DeleterStep(d))
    /\ \A l \in Launches : WF_vars(LaunchStep(l) /\ UNCHANGED << status, rows, handler >>)
    /\ WF_vars(EndRecovery)

FairSpec == Spec /\ Fairness

-----------------------------------------------------------------------------
(* Properties.                                                             *)

Tearing == {d \in Deleters : deleter[d].pc \in {"drain", "kill", "clean", "drop"}}

\* While a deletion tears the workspace down no setup builds it, no recovery
\* pass touches its terminals and no second deletion works on it
\* (workspace_deletion.go, routes_handlers.go beginWorkspaceSetup).
TeardownIsAlone ==
    Tearing # {} =>
        /\ Cardinality(Tearing) = 1
        /\ recovery = Nobody
        /\ \A w \in Workers : worker[w] # "setup"
        /\ status = "deleting"

\* "Launched processes do not survive the worktree they were started in": once
\* the workspace is gone, a process that runs belongs to a launch that has yet
\* to find out (localruntime StopWorkspace, RollbackLaunch).
NoProcessOutlivesWorkspace ==
    status = "gone" =>
        \A l \in alive : launch[l] \in {"running", "stored", "launched", "rollback"}

\* A recorded session the manager saw exit is about to be forgotten, whether
\* the record came before or after the exit, unless an earlier daemon started it
\* (forgetRecordedRuntimeSessionIfExited, HandleRuntimeSessionExit).
ExitedIsForgotten ==
    \A l \in rows \intersect exited :
        watch[l] = "forget" \/ launch[l] \in {"recorded", "left"}

\* A retry accepted for a setup under way is not left behind by its failure:
\* while one is queued for a workspace in error, a setup is on its way to consume
\* it, unless a setup gave up before it came to that (runWorkspaceSetup,
\* StartQueuedRetryIfErrored and queueRetryOrStartErrored under retryMu).
QueuedRetryIsServed ==
    retryQueued /\ status = "error" =>
        \/ leftBy \in {"after", "retire"}
        \/ \E w \in Workers : worker[w] \in {"after", "retire", "setup", "begin", "awaitSetup"}

\* The row goes through its life in order, though a setup's last update and the
\* removal of the row ask for no status: none of them comes late, over a deletion
\* or a retry, and only a row that is being deleted goes away
\* (manager.go SetupWithOptions and Delete, queries.go UpdateWorkspaceStatus).
StatusFollows ==
    [][status' # status =>
        \/ status = "creating" /\ status' \in {"ready", "error"}
        \/ status = "ready" /\ status' \in {"error", "deleting"}
        \/ status = "error" /\ status' \in {"creating", "deleting"}
        \/ status = "deleting" /\ status' \in {"gone", "deletion_failed"}
        \/ status = "deletion_failed" /\ status' = "deleting"]_vars

\* Neither setup nor deletion leaves the workspace in its transient status,
\* whatever requests, recovery passes and restarts come between, but for a setup
\* that gives up between the start of a queued retry and its setup
\* (runWorkspaceSetup, runWorkspaceDeletion).
Transient == {"creating", "deleting"}
Settles == status \in Transient ~> (status \notin Transient \/ leftBy = "restarted")
=============================================================================
