------------------------------ MODULE RepoLock ------------------------------
(***************************************************************************)
(* The worktree lock of one bare clone (internal/workspace/repolock.go).   *)
(* Every worktree mutation of the clone runs between Acquire and Unlock,   *)
(* in any goroutine of any daemon process that shares the clone.           *)
(*                                                                         *)
(* Each process keeps one state per lock path: a semaphore of weight one   *)
(* and one *flock.Flock.  Goroutines of a process exclude each other by    *)
(* the semaphore; processes exclude each other by the operating system's   *)
(* lock behind the Flock.  A Flock that its process has already locked     *)
(* reports success to everyone who asks, which is why both are needed and  *)
(* why their order at release matters.                                     *)
(***************************************************************************)
EXTENDS Integers, Sequences, SequencesExt

CONSTANTS
    Processes,        \* daemon processes
    Goroutines,       \* callers of Acquire, over all processes
    ProcessOf,        \* the process of each goroutine
    Patient,          \* goroutines whose context never ends
    Nobody,           \* no goroutine, no process
    MaxCrashes,       \* bound: process crashes
    MaxUnlockErrors   \* bound: system calls that fail to drop the file lock

\* What a lock is given; the module that runs this one assumes it.
LockConstants ==
    /\ ProcessOf \in [Goroutines -> Processes]
    /\ Patient \subseteq Goroutines
    /\ Nobody \notin Goroutines
    /\ Nobody \notin Processes
    /\ MaxCrashes \in Nat
    /\ MaxUnlockErrors \in Nat

VARIABLES
    pc,          \* where each goroutine is in Acquire or Unlock
    local,       \* holder of each process's semaphore
    waiters,     \* who waits for it, first come first served
    file,        \* processes whose Flock instance is marked locked
    osLock,      \* the process that holds the lock file
    rejected,    \* goroutines whose second Unlock was refused
    crashes, unlockErrors

vars == << pc, local, waiters, file, osLock, rejected, crashes, unlockErrors >>

(* idle      - neither holds nor waits, and has no handle                  *)
(* waiting   - in local.Acquire                                            *)
(* polling   - in file.TryLockContext, with the semaphore                  *)
(* holding   - Acquire returned a handle; the caller mutates worktrees     *)
(* releasing - in Unlock, between file.Unlock and local.Release            *)
(* released  - Unlock returned; the handle is still reachable              *)
States == {"idle", "waiting", "polling", "holding", "releasing", "released"}

TypeOK ==
    /\ pc \in [Goroutines -> States]
    /\ local \in [Processes -> Goroutines \union {Nobody}]
    /\ waiters \in [Processes -> Seq(Goroutines)]
    /\ file \in SUBSET Processes
    /\ osLock \in Processes \union {Nobody}
    /\ rejected \in SUBSET Goroutines
    /\ crashes \in Nat
    /\ unlockErrors \in Nat

Init ==
    /\ pc = [g \in Goroutines |-> "idle"]
    /\ local = [p \in Processes |-> Nobody]
    /\ waiters = [p \in Processes |-> << >>]
    /\ file = {}
    /\ osLock = Nobody
    /\ rejected = {}
    /\ crashes = 0
    /\ unlockErrors = 0

Goto(g, s) == pc' = [pc EXCEPT ![g] = s]

bounds == << crashes, unlockErrors >>

-----------------------------------------------------------------------------
(* Acquire. *)

Acquire(g) ==
    LET p == ProcessOf[g] IN
    /\ pc[g] \in {"idle", "released"}
    /\ waiters' = [waiters EXCEPT ![p] = Append(@, g)]
    /\ Goto(g, "waiting")
    /\ UNCHANGED << local, file, osLock, rejected, bounds >>

\* local.Acquire returns nil.
EnterLocal(g) ==
    LET p == ProcessOf[g] IN
    /\ pc[g] = "waiting"
    /\ local[p] = Nobody
    /\ waiters[p] # << >>
    /\ Head(waiters[p]) = g
    /\ local' = [local EXCEPT ![p] = g]
    /\ waiters' = [waiters EXCEPT ![p] = Tail(@)]
    /\ Goto(g, "polling")
    /\ UNCHANGED << file, osLock, rejected, bounds >>

\* local.Acquire returns the context's error: nothing was taken.
CancelWaiting(g) ==
    LET p == ProcessOf[g] IN
    /\ g \notin Patient
    /\ pc[g] = "waiting"
    /\ \E i \in 1 .. Len(waiters[p]) :
        /\ waiters[p][i] = g
        /\ waiters' = [waiters EXCEPT ![p] = RemoveAt(@, i)]
    /\ Goto(g, "idle")
    /\ UNCHANGED << local, file, osLock, rejected, bounds >>

\* One poll succeeds.  A Flock already marked locked succeeds at once,
\* without asking the operating system.
TryLock(g) ==
    LET p == ProcessOf[g] IN
    /\ pc[g] = "polling"
    /\ \/ /\ p \in file
          /\ UNCHANGED << file, osLock >>
       \/ /\ p \notin file
          /\ osLock = Nobody
          /\ file' = file \union {p}
          /\ osLock' = p
    /\ Goto(g, "holding")
    /\ UNCHANGED << waiters, local, rejected, bounds >>

GiveUpKeepingLocal(g) ==                                           \* mutant
    /\ g \notin Patient
    /\ pc[g] = "polling"
    /\ Goto(g, "idle")
    /\ UNCHANGED << waiters, local, file, osLock, rejected, bounds >>

\* The poll fails, or the context is done: the semaphore is given back.
GiveUp(g) ==
    /\ g \notin Patient
    /\ pc[g] = "polling"
    /\ local' = [local EXCEPT ![ProcessOf[g]] = Nobody]
    /\ Goto(g, "idle")
    /\ UNCHANGED << waiters, file, osLock, rejected, bounds >>

-----------------------------------------------------------------------------
(* Unlock. *)

UnlockLocalFirst(g) ==                                             \* mutant
    LET p == ProcessOf[g] IN
    /\ pc[g] = "holding"
    /\ local' = [local EXCEPT ![p] = Nobody]
    /\ Goto(g, "releasing")
    /\ UNCHANGED << waiters, file, osLock, rejected, bounds >>

UnlockFile(g) ==
    LET p == ProcessOf[g] IN
    /\ pc[g] = "holding"
    /\ file' = file \ {p}
    /\ osLock' = IF p \in file THEN Nobody ELSE osLock
    /\ Goto(g, "releasing")
    /\ UNCHANGED << waiters, local, rejected, bounds >>

\* The system call fails: the Flock stays marked and keeps the lock file,
\* and Unlock goes on to release the semaphore.
UnlockFileFails(g) ==
    /\ pc[g] = "holding"
    /\ unlockErrors < MaxUnlockErrors
    /\ unlockErrors' = unlockErrors + 1
    /\ Goto(g, "releasing")
    /\ UNCHANGED << waiters, local, file, osLock, rejected, crashes >>

ReleaseLocal(g) ==
    /\ pc[g] = "releasing"
    /\ local' = [local EXCEPT ![ProcessOf[g]] = Nobody]
    /\ Goto(g, "released")
    /\ UNCHANGED << waiters, file, osLock, rejected, bounds >>

\* Unlock on a handle that was already released: an error and nothing else.
UnlockAgain(g) ==
    /\ pc[g] = "released"
    /\ rejected' = rejected \union {g}
    /\ UNCHANGED << waiters, pc, local, file, osLock, bounds >>

-----------------------------------------------------------------------------

\* A process dies: its goroutines and its semaphore are gone, and the
\* operating system drops its file lock.
Crash(p) ==
    /\ crashes < MaxCrashes
    /\ crashes' = crashes + 1
    /\ pc' = [g \in Goroutines |-> IF ProcessOf[g] = p THEN "idle" ELSE pc[g]]
    /\ local' = [local EXCEPT ![p] = Nobody]
    /\ waiters' = [waiters EXCEPT ![p] = << >>]
    /\ file' = file \ {p}
    /\ osLock' = IF osLock = p THEN Nobody ELSE osLock
    /\ rejected' = {g \in rejected : ProcessOf[g] # p}
    /\ UNCHANGED unlockErrors

Returns(g) == EnterLocal(g) \/ TryLock(g) \/ UnlockFile(g) \/ ReleaseLocal(g)

Next ==
    \/ \E g \in Goroutines :
        \/ Acquire(g) \/ EnterLocal(g) \/ CancelWaiting(g)
        \/ TryLock(g) \/ GiveUp(g)
        \/ UnlockFile(g) \/ UnlockFileFails(g) \/ ReleaseLocal(g)
        \/ UnlockAgain(g)
    \/ \E p \in Processes : Crash(p)

Spec == Init /\ [][Next]_vars

(* The runtime schedules goroutines, a poll repeats every 25 ms and a      *)
(* holder calls Unlock (every caller defers it).  Contexts need not end.   *)
FairSpec == Spec /\ \A g \in Goroutines : WF_vars(Returns(g))

-----------------------------------------------------------------------------
(* Properties. *)

\* FileLockManager's promise: the clone sees one worktree mutation at a
\* time, over all goroutines of all processes, through failed unlocks,
\* second unlocks, canceled waits and crashes.
OneMutation ==
    \A g, h \in Goroutines : pc[g] = "holding" /\ pc[h] = "holding" => g = h

\* A holder's process really owns the lock file: the Flock's shortcut for
\* an instance already locked never reports a lock the process lost.
HolderOwnsFile ==
    \A g \in Goroutines : pc[g] = "holding" => osLock = ProcessOf[g]

\* The semaphore of a process is taken exactly while one of its goroutines
\* is between local.Acquire and local.Release: no path out of Acquire or
\* Unlock leaks it.
LocalNotLeaked ==
    \A p \in Processes : \A g \in Goroutines :
        local[p] = g <=> /\ ProcessOf[g] = p
                         /\ pc[g] \in {"polling", "holding", "releasing"}

\* A caller whose context does not end is never stuck behind a lock that
\* nobody holds, however many other callers give up in front of it, unless
\* the system failed to drop the file lock of a process.
LockIsPassedOn ==
    \A g \in Patient :
        pc[g] \in {"waiting", "polling"} ~>
            \/ \E h \in Goroutines : pc[h] = "holding"
            \/ pc[g] = "idle"
            \/ unlockErrors > 0
=============================================================================
