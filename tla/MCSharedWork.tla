---------------------------- MODULE MCSharedWork -----------------------------
(* Three places where goroutines of the daemon wait for one another: the    *)
(* worktree lock of a clone (two processes of two goroutines), the worker   *)
(* pool of a pass (two workers, three repositories) and the queue of        *)
(* deferred merges (one of them, and an immediate merge).  They share no    *)
(* state, so a behaviour explores one of them, chosen initially, and the    *)
(* state spaces add up.  The archive of MCQueuedWork rests meanwhile.       *)
EXTENDS MCQueuedWork

CONSTANTS
    p1, p2, g1, g2, g3, g4,
    Processes, Goroutines, ProcessOf, Patient, Nobody, MaxCrashes, MaxUnlockErrors,
    Total, Workers, Dispatcher, NoItem

MCProcesses  == {p1, p2}
MCGoroutines == {g1, g2, g3, g4}
MCProcessOf  == g1 :> p1 @@ g2 :> p1 @@ g3 :> p2 @@ g4 :> p2

VARIABLES
    lockPc, local, waiters, file, osLock, rejected, crashes, unlockErrors,
    passCtxDone, passPc, passItem, passNext, passClosed, completed, maxShown, counts,
    passCanceled, result, lastErr, progress, outcome, ceilingSeen

Repo == INSTANCE RepoLock WITH pc <- lockPc

ASSUME LockAssumption == Repo!LockConstants

Pass == INSTANCE SyncPass WITH
            ctxDone <- passCtxDone, pc <- passPc, item <- passItem, next <- passNext,
            closed <- passClosed, done <- counts, canceled <- passCanceled

ASSUME PassAssumption == Pass!PassConstants

lockVars == << lockPc, local, waiters, file, osLock, rejected, crashes, unlockErrors >>
passVars == << passCtxDone, passPc, passItem, passNext, passClosed, completed, maxShown,
               counts, passCanceled, result, lastErr, progress, outcome, ceilingSeen >>

SharedInit ==
    /\ part \in {"lock", "pass", "merge"}
    /\ Repo!Init /\ Pass!Init /\ Init /\ Arch!Init
    /\ part # "pass" => ~passCtxDone
    /\ \A i \in Issues \union MergeRequests : updated[i] = 0

PartIs(p) == part = p /\ UNCHANGED << part, archiveVars >>

OnlyLock  == PartIs("lock") /\ UNCHANGED << passVars, vars >>
OnlyPass  == PartIs("pass") /\ UNCHANGED << lockVars, vars >>
OnlyMerge == PartIs("merge") /\ UNCHANGED << lockVars, passVars >>

SharedNext ==
    \/ OnlyLock /\ Repo!Next
    \/ OnlyPass /\ Pass!Next
    \/ OnlyMerge /\ Next

sharedVars == << lockVars, passVars, vars, part, archiveVars >>

(* The fairness of the FairSpecs of RepoLock, SyncPass and DeferredMerge.   *)
SharedSpec ==
    /\ SharedInit /\ [][SharedNext]_sharedVars
    /\ \A g \in Goroutines : WF_sharedVars(OnlyLock /\ Repo!Returns(g))
    /\ WF_sharedVars(OnlyPass /\ Pass!Dispatch)
    /\ \A w \in Workers : WF_sharedVars(OnlyPass /\ Pass!Work(w))
    /\ \A p \in Pass!Procs : WF_sharedVars(OnlyPass /\ Pass!Report(p))
    /\ \A h \in Handles :
         /\ WF_sharedVars(OnlyMerge /\ Defer(h))
         /\ WF_sharedVars(OnlyMerge /\ Work(h))
         /\ SF_sharedVars(OnlyMerge /\ WaitTimeout(h))
         /\ SF_sharedVars(OnlyMerge /\ WaitDone(h))
    /\ \A a \in Actors :
         /\ WF_sharedVars(OnlyMerge /\ Merge(a))
         /\ WF_sharedVars(OnlyMerge /\ Respond(a))

-----------------------------------------------------------------------------
(* Properties, besides those of the modules it extends. *)

Mutex == INSTANCE WorktreeLock WITH
             Callers  <- Goroutines,
             mutators <- {g \in Goroutines : lockPc[g] = "holding"}

\* Two levels of locks, handles, failed unlocks and crashes implement one lock:
\* no step of any process hands out a second handle or passes one on directly
\* (FileLockManager.Acquire, fileLockHandle.Unlock).
IsWorktreeLock == Mutex!Spec

\* A caller whose context does not end is never stuck behind a worktree lock
\* that nobody holds, whatever other callers give up in front of it
\* (FileLockManager.Acquire).
LockIsPassedOn == Repo!LockIsPassedOn

\* The completion callback of a pass is only told of a pass that accounted for
\* every repository, and of an exhausted local ceiling whatever other workers
\* recorded (Syncer.runOnceWithSlot, runWorker).
CompletedIsComplete == Pass!CompletedIsComplete

\* A pass ends, canceled or not: no dispatcher waits for workers that left.
PassEnds == part = "pass" => Pass!PassEnds
=============================================================================
