-------------------------- MODULE SharedWorkProofs --------------------------
(***************************************************************************)
(* What MCSharedWork and MCQueuedWork explore on a small instance, for any *)
(* instance: the worktree lock excludes, a pass accounts for its           *)
(* repositories, the write gate counts the merges it admitted and a merge  *)
(* is of the reviewed head, and the archive skips no update.               *)
(*                                                                         *)
(* OneMutation is not inductive: what makes it so is that the semaphore    *)
(* holder of a process is the only goroutine past local.Acquire            *)
(* (LocalNotLeaked), that a Flock is marked exactly when its process owns  *)
(* the lock file, and that a holder's Flock is marked.                     *)
(*                                                                         *)
(* CompletedIsComplete needs that what was counted and what workers have   *)
(* in hand never exceeds what was dispatched (Counted), and that each      *)
(* dispatched repository has a result or is in hand unless somebody        *)
(* latched the cancellation (Accounted).                                   *)
(*                                                                         *)
(* The gate's counters are exact since the pending handle of a pull        *)
(* request belongs to it and is released once (Placed) and process and row *)
(* agree on the phase (Phased).  What a merge announces holds since only   *)
(* the actor whose merge landed gets past it (MergedBy, Landed).           *)
(*                                                                         *)
(* NoUpdateIsSkipped ties cursors to what was listed (Listed, Shown), and  *)
(* an item that changed while it was synchronised to the scan that will    *)
(* list it again (Synced, Bounded).                                        *)
(***************************************************************************)
EXTENDS MCSharedWork, Sequences, FiniteSetTheorems, WellFoundedInduction, TLAPS

(* The worktree lock excludes. *)

LEMMA LockFacts ==
    /\ ProcessOf \in [Goroutines -> Processes]
    /\ Patient \subseteq Goroutines
    /\ Nobody \notin Goroutines
    /\ Nobody \notin Processes
    /\ MaxCrashes \in Nat
    /\ MaxUnlockErrors \in Nat
  BY LockAssumption DEF Repo!LockConstants

\* A Flock instance is marked locked exactly when its process owns the file.
FileIsOwned == \A p \in Processes : p \in file <=> osLock = p

\* A handle is only ever given out over a marked Flock.
HolderIsMarked == \A g \in Goroutines : lockPc[g] = "holding" => ProcessOf[g] \in file

LockInv == Repo!TypeOK /\ Repo!LocalNotLeaked /\ FileIsOwned /\ HolderIsMarked

\* Taking one caller out of the semaphore's wait list leaves a wait list.
LEMMA RemoveAtType ==
    ASSUME NEW S, NEW s \in Seq(S), NEW i \in 1 .. Len(s)
    PROVE  Repo!RemoveAt(s, i) \in Seq(S)
  BY DEF Repo!RemoveAt

\* Every goroutine and every crash preserves the shape of the lock's state.
LEMMA LockTypeStep == Repo!TypeOK /\ [Repo!Next]_(Repo!vars) => Repo!TypeOK'
<1> SUFFICES ASSUME Repo!TypeOK, [Repo!Next]_(Repo!vars) PROVE Repo!TypeOK'
  OBVIOUS
<1> USE LockFacts DEF Repo!TypeOK, Repo!States, Repo!Goto, Repo!bounds
<1>1. ASSUME NEW g \in Goroutines, Repo!Acquire(g) PROVE Repo!TypeOK'
  BY <1>1 DEF Repo!Acquire
<1>2. ASSUME NEW g \in Goroutines, Repo!EnterLocal(g) PROVE Repo!TypeOK'
  BY <1>2 DEF Repo!EnterLocal
<1>3. ASSUME NEW g \in Goroutines, Repo!CancelWaiting(g) PROVE Repo!TypeOK'
  <2>1. PICK i \in 1 .. Len(waiters[ProcessOf[g]]) :
          waiters' = [waiters EXCEPT ![ProcessOf[g]] = Repo!RemoveAt(@, i)]
    BY <1>3 DEF Repo!CancelWaiting
  <2>2. Repo!RemoveAt(waiters[ProcessOf[g]], i) \in Seq(Goroutines)
    BY <2>1, RemoveAtType
  <2> QED
    BY <1>3, <2>1, <2>2 DEF Repo!CancelWaiting
<1>4. ASSUME NEW g \in Goroutines, Repo!TryLock(g) PROVE Repo!TypeOK'
  BY <1>4 DEF Repo!TryLock
<1>5. ASSUME NEW g \in Goroutines, Repo!GiveUp(g) PROVE Repo!TypeOK'
  BY <1>5 DEF Repo!GiveUp
<1>6. ASSUME NEW g \in Goroutines, Repo!UnlockFile(g) PROVE Repo!TypeOK'
  BY <1>6 DEF Repo!UnlockFile
<1>7. ASSUME NEW g \in Goroutines, Repo!UnlockFileFails(g) PROVE Repo!TypeOK'
  BY <1>7 DEF Repo!UnlockFileFails
<1>8. ASSUME NEW g \in Goroutines, Repo!ReleaseLocal(g) PROVE Repo!TypeOK'
  BY <1>8 DEF Repo!ReleaseLocal
<1>9. ASSUME NEW g \in Goroutines, Repo!UnlockAgain(g) PROVE Repo!TypeOK'
  BY <1>9 DEF Repo!UnlockAgain
<1>10. ASSUME NEW p \in Processes, Repo!Crash(p) PROVE Repo!TypeOK'
  BY <1>10 DEF Repo!Crash
<1>11. CASE UNCHANGED Repo!vars
  BY <1>11 DEF Repo!vars
<1> QED
  BY <1>1, <1>2, <1>3, <1>4, <1>5, <1>6, <1>7, <1>8, <1>9, <1>10, <1>11 DEF Repo!Next

\* The invariant holds when no process has asked for the lock.
LEMMA InitLockInv == Repo!Init => LockInv
  BY LockFacts DEF Repo!Init, LockInv, Repo!TypeOK, Repo!States, Repo!LocalNotLeaked, FileIsOwned,
    HolderIsMarked

\* One step per action: what each leaves of the three ownership facts.
LEMMA LockInvStep == LockInv /\ [Repo!Next]_(Repo!vars) => LockInv'
<1> SUFFICES ASSUME LockInv, [Repo!Next]_(Repo!vars) PROVE LockInv'
  OBVIOUS
<1>0. Repo!TypeOK'
  BY LockTypeStep DEF LockInv
<1> DEFINE Owned == Repo!LocalNotLeaked /\ FileIsOwned /\ HolderIsMarked
<1> SUFFICES Owned'
  BY <1>0 DEF LockInv
<1> USE LockFacts DEF LockInv, Repo!TypeOK, Repo!States, Repo!Goto, Repo!bounds,
                           Repo!LocalNotLeaked, FileIsOwned, HolderIsMarked
<1>1. ASSUME NEW g \in Goroutines, Repo!Acquire(g) PROVE Owned'
  BY <1>1 DEF Repo!Acquire
<1>2. ASSUME NEW g \in Goroutines, Repo!EnterLocal(g) PROVE Owned'
  BY <1>2 DEF Repo!EnterLocal
<1>3. ASSUME NEW g \in Goroutines, Repo!CancelWaiting(g) PROVE Owned'
  BY <1>3 DEF Repo!CancelWaiting
<1>4. ASSUME NEW g \in Goroutines, Repo!TryLock(g) PROVE Owned'
  BY <1>4 DEF Repo!TryLock
<1>5. ASSUME NEW g \in Goroutines, Repo!GiveUp(g) PROVE Owned'
  BY <1>5 DEF Repo!GiveUp
<1>6. ASSUME NEW g \in Goroutines, Repo!UnlockFile(g) PROVE Owned'
  <2>1. Repo!LocalNotLeaked'
    BY <1>6 DEF Repo!UnlockFile
  <2>2. FileIsOwned'
    BY <1>6 DEF Repo!UnlockFile
  <2>3. HolderIsMarked'
    <3> SUFFICES ASSUME NEW h \in Goroutines, lockPc'[h] = "holding"
                 PROVE  ProcessOf[h] \in file'
      OBVIOUS
    <3>1. lockPc[h] = "holding" /\ h # g /\ lockPc[g] = "holding"
      BY <1>6 DEF Repo!UnlockFile
    <3>2. ProcessOf[h] # ProcessOf[g]
      BY <3>1
    <3> QED
      BY <1>6, <3>1, <3>2 DEF Repo!UnlockFile
  <2> QED
    BY <2>1, <2>2, <2>3
<1>7. ASSUME NEW g \in Goroutines, Repo!UnlockFileFails(g) PROVE Owned'
  BY <1>7 DEF Repo!UnlockFileFails
<1>8. ASSUME NEW g \in Goroutines, Repo!ReleaseLocal(g) PROVE Owned'
  BY <1>8 DEF Repo!ReleaseLocal
<1>9. ASSUME NEW g \in Goroutines, Repo!UnlockAgain(g) PROVE Owned'
  BY <1>9 DEF Repo!UnlockAgain
<1>10. ASSUME NEW p \in Processes, Repo!Crash(p) PROVE Owned'
  BY <1>10 DEF Repo!Crash
<1>11. CASE UNCHANGED Repo!vars
  BY <1>11 DEF Repo!vars
<1> QED
  BY <1>1, <1>2, <1>3, <1>4, <1>5, <1>6, <1>7, <1>8, <1>9, <1>10, <1>11 DEF Repo!Next

\* The lock's state keeps its shape through waits, failures and crashes.
THEOREM RepoLockTypeOK == Repo!Spec => []Repo!TypeOK
<1>1. Repo!Init => Repo!TypeOK
  BY InitLockInv DEF LockInv
<1> QED
  BY <1>1, LockTypeStep, PTL DEF Repo!Spec

\* The inductive invariant holds throughout.
LEMMA LockInvAlways == Repo!Spec => []LockInv
  BY InitLockInv, LockInvStep, PTL DEF Repo!Spec

\* One worktree mutation at a time, whatever the number of processes and of
\* goroutines, of failed unlocks and of crashes.
THEOREM RepoLockExcludes == Repo!Spec => []Repo!OneMutation
<1>1. LockInv => Repo!OneMutation
  BY LockFacts DEF LockInv, Repo!TypeOK, Repo!LocalNotLeaked, FileIsOwned, HolderIsMarked, Repo!OneMutation
<1> QED
  BY <1>1, LockInvAlways, PTL

\* The lock of the code implements the lock its callers count on.
THEOREM RepoLockImplements == Repo!Spec => IsWorktreeLock
<1> USE DEF Mutex!Init, Mutex!Next, Mutex!Take, Mutex!LetGo
<1> DEFINE holders == {g \in Goroutines : lockPc[g] = "holding"}
<1>1. Repo!Init => Mutex!Init
  BY DEF Repo!Init
<1>2. ASSUME LockInv, LockInv', [Repo!Next]_(Repo!vars)
      PROVE  [Mutex!Next]_holders
  <2> USE <1>2, LockFacts DEF LockInv, Repo!TypeOK, Repo!States
  <2>1. ASSUME NEW g \in Goroutines, Repo!TryLock(g) PROVE holders = {} /\ holders' = {g}
    <3>1. \A h \in Goroutines : lockPc[h] = "holding" => h = g
      BY <1>2, <2>1 DEF Repo!TryLock, Repo!Goto, Repo!LocalNotLeaked, FileIsOwned, HolderIsMarked
    <3>2. lockPc[g] # "holding"
      BY <2>1 DEF Repo!TryLock
    <3>3. holders' = holders \union {g}
      BY <2>1 DEF Repo!TryLock, Repo!Goto
    <3> QED
      BY <3>1, <3>2, <3>3
  <2>2. ASSUME NEW g \in Goroutines, Repo!UnlockFile(g) \/ Repo!UnlockFileFails(g)
        PROVE  holders = {g} /\ holders' = {}
    <3>1. lockPc[g] = "holding"
      BY <2>2 DEF Repo!UnlockFile, Repo!UnlockFileFails
    <3>2. \A h \in Goroutines : lockPc[h] = "holding" => h = g
      BY <1>2, <3>1 DEF Repo!LocalNotLeaked, FileIsOwned, HolderIsMarked
    <3>3. holders' = holders \ {g}
      BY <2>2 DEF Repo!UnlockFile, Repo!UnlockFileFails, Repo!Goto
    <3> QED
      BY <3>1, <3>2, <3>3
  <2>3. ASSUME NEW g \in Goroutines,
               \/ Repo!Acquire(g) \/ Repo!EnterLocal(g) \/ Repo!CancelWaiting(g) \/ Repo!GiveUp(g)
               \/ Repo!ReleaseLocal(g) \/ Repo!UnlockAgain(g)
        PROVE  holders' = holders
    BY <2>3 DEF Repo!Acquire, Repo!EnterLocal, Repo!CancelWaiting, Repo!GiveUp, Repo!ReleaseLocal,
      Repo!UnlockAgain, Repo!Goto
  <2>4. ASSUME NEW p \in Processes, Repo!Crash(p)
        PROVE  holders' = holders \/ \E g \in Goroutines : holders = {g} /\ holders' = {}
    <3>1. \A g, h \in Goroutines : lockPc[g] = "holding" /\ lockPc[h] = "holding" => g = h
      BY <1>2 DEF Repo!LocalNotLeaked, FileIsOwned, HolderIsMarked
    <3>2. holders' = {g \in holders : ProcessOf[g] # p}
      BY <2>4 DEF Repo!Crash
    <3>3. holders = {} \/ \E g \in Goroutines : holders = {g}
      <4>1. SUFFICES ASSUME NEW g \in holders PROVE holders = {g}
        OBVIOUS
      <4> QED
        BY <3>1
    <3> QED
      BY <3>2, <3>3
  <2>5. CASE UNCHANGED Repo!vars
    BY <2>5 DEF Repo!vars
  <2> QED
    BY <2>1, <2>2, <2>3, <2>4, <2>5 DEF Repo!Next
<1> QED
  BY <1>1, <1>2, LockInvAlways, PTL DEF Repo!Spec, IsWorktreeLock, Mutex!Spec

\* A caller that holds a handle holds the lock file through its process.
THEOREM RepoLockHolderOwnsFile == Repo!Spec => []Repo!HolderOwnsFile
<1>1. LockInv => Repo!HolderOwnsFile
  BY LockFacts DEF LockInv, Repo!TypeOK, FileIsOwned, HolderIsMarked, Repo!HolderOwnsFile
<1> QED
  BY <1>1, LockInvAlways, PTL

\* No path through Acquire, Unlock or a crash leaks the semaphore.
THEOREM RepoLockNoLeak == Repo!Spec => []Repo!LocalNotLeaked
<1>1. LockInv => Repo!LocalNotLeaked
  BY DEF LockInv
<1> QED
  BY <1>1, LockInvAlways, PTL

-----------------------------------------------------------------------------
(* A pass accounts for its repositories, for any number of them and any     *)
(* pool of workers: it is told as completed only when each repository has a *)
(* result, and never when somebody met the end of the context with work in  *)
(* hand.                                                                    *)

LEMMA WorkersAreFinite == ASSUME Pass!PassConstants PROVE IsFiniteSet(Workers)
  BY DEF Pass!PassConstants, Pass!IsFiniteSet, IsFiniteSet

PassTypes ==
    /\ passCtxDone \in BOOLEAN
    /\ passPc \in [Pass!Procs -> Pass!PCs]
    /\ passItem \in [Workers -> Pass!Items \union {NoItem}]
    /\ passNext \in 1 .. Total + 1
    /\ passClosed \in BOOLEAN
    /\ completed \in Nat
    /\ maxShown \in 0 .. Total
    /\ counts \in [Pass!Procs -> 0 .. Total]
    /\ passCanceled \in BOOLEAN
    /\ result \in [Pass!Items -> {"none", "synced", "failed", "skipped"}]
    /\ lastErr \in {"none", "other", "ceiling"}
    /\ progress \in 0 .. Total
    /\ outcome \in {"none", "canceled", "completed"}
    /\ ceilingSeen \in BOOLEAN

\* A worker has a repository in hand between the select and its report.
InHand == {"check", "backoff", "sync", "synced"}
Holders == {w \in Workers : passItem[w] # NoItem}

Hands ==
    /\ \A w \in Workers : passItem[w] # NoItem <=> passPc[w] \in InHand
    /\ \A w \in Workers : passPc[w] \in InHand \union {"receive", "counted", "showing", "exited"}
    /\ passPc[Dispatcher] \notin InHand \union {"receive", "exited"}
    /\ passPc[Dispatcher] = "send" => passNext <= Total

\* What was counted and what is in hand was dispatched.
Counted == completed + Cardinality(Holders) <= passNext - 1

\* Unless somebody latched the cancellation, each dispatched repository is in
\* a worker's hands or has a result.
Accounted ==
    /\ \A w \in Workers : passPc[w] = "synced" => result[passItem[w]] # "none"
    /\ ~passCanceled => \A i \in 1 .. passNext - 1 : result[i] # "none"
         \/ \E w \in Workers : passItem[w] = i

\* The dispatcher leaves its loop at the end of the list or canceled, and
\* drains after the last worker.
PassPhases ==
    /\ passPc[Dispatcher] \in {"close", "wait", "drain", "over"} => passCanceled \/ passNext = Total + 1
    /\ passPc[Dispatcher] \in {"drain", "over"} => \A w \in Workers : passPc[w] = "exited"

Ceiling == ceilingSeen => lastErr = "ceiling"

PassInv ==
    PassTypes /\ Hands /\ Counted /\ Accounted /\ PassPhases /\ Ceiling /\ Pass!CompletedIsComplete

LEMMA InitPassInv == ASSUME Pass!PassConstants PROVE Pass!Init => PassInv
<1> SUFFICES ASSUME Pass!Init PROVE PassInv
  OBVIOUS
<1> USE DEF Pass!PassConstants
<1>1. PassTypes
  <2>1. 0 \in 0 .. Total /\ 1 \in 1 .. Total + 1
    OBVIOUS
  <2> QED
    BY <2>1 DEF Pass!Init, PassTypes, Pass!Procs, Pass!PCs
<1>2. Hands
  BY DEF Pass!Init, Hands, InHand, Pass!Procs
<1>3. Counted
  <2>1. Holders = {}
    BY DEF Pass!Init, Holders
  <2> QED
    BY <2>1, FS_EmptySet DEF Pass!Init, Counted
<1>4. Accounted /\ PassPhases /\ Ceiling /\ Pass!CompletedIsComplete
  BY DEF Pass!Init, Accounted, PassPhases, Ceiling, Pass!CompletedIsComplete, Pass!Procs
<1> QED
  BY <1>1, <1>2, <1>3, <1>4 DEF PassInv

-----------------------------------------------------------------------------
(* What each step does to the repositories in hand. *)

\* Nobody takes or puts down a repository.
SameHands == UNCHANGED << passItem, completed >>

\* A worker puts its repository down, counted or not.
PutsDown(w) ==
    /\ passPc[w] \in InHand
    /\ passItem' = [passItem EXCEPT ![w] = NoItem]
    /\ completed' \in {completed, completed + 1}

\* Each step leaves what is in hand alone, counts a repository that was never
\* sent, sends one, or puts one down.
LEMMA HandKinds ==
    ASSUME [Pass!Next]_(Pass!vars)
    PROVE  \/ SameHands /\ passNext' = passNext
           \/ /\ passNext <= Total /\ passNext' = passNext + 1
              /\ completed' = completed + 1 /\ passItem' = passItem
           \/ \E w \in Workers :
                /\ passPc[w] = "receive" /\ passPc[Dispatcher] = "send"
                /\ passItem' = [passItem EXCEPT ![w] = passNext]
                /\ passNext' = passNext + 1 /\ completed' = completed
           \/ \E w \in Workers : PutsDown(w) /\ passNext' = passNext
<1>1. ASSUME Pass!Dispatch, ~ \E w \in Workers : Pass!Send(w)
      PROVE  \/ SameHands /\ passNext' = passNext
             \/ /\ passNext <= Total /\ passNext' = passNext + 1
                /\ completed' = completed + 1 /\ passItem' = passItem
  BY <1>1 DEF Pass!Dispatch, Pass!DispatchSkip, Pass!DispatchNext, Pass!SendCanceled,
    Pass!DispatchDone, Pass!CloseWork,
              Pass!WaitWorkers, Pass!Conclude, Pass!Count, SameHands
<1>2. ASSUME NEW w \in Workers, Pass!Send(w)
      PROVE  /\ passPc[w] = "receive" /\ passPc[Dispatcher] = "send"
             /\ passItem' = [passItem EXCEPT ![w] = passNext]
             /\ passNext' = passNext + 1 /\ completed' = completed
  BY <1>2 DEF Pass!Send
<1>3. ASSUME NEW w \in Workers, Pass!Work(w)
      PROVE  (SameHands \/ PutsDown(w)) /\ passNext' = passNext
  BY <1>3 DEF Pass!Work, Pass!WorkClosed, Pass!Check, Pass!Backoff, Pass!SyncRepo, Pass!Synced,
    Pass!Quit, Pass!Finished, Pass!Count,
              SameHands, PutsDown, InHand
<1>4. ASSUME NEW p \in Pass!Procs, Pass!Report(p)
      PROVE  SameHands /\ passNext' = passNext
  BY <1>4 DEF Pass!Report, Pass!Raise, Pass!Show, SameHands
<1>5. CASE Pass!CancelContext \/ UNCHANGED Pass!vars
  BY <1>5 DEF Pass!CancelContext, Pass!vars, SameHands
<1> QED
  BY <1>1, <1>2, <1>3, <1>4, <1>5 DEF Pass!Next

\* What was counted and what is in hand stays within what was dispatched.
LEMMA CountedStep ==
    ASSUME Pass!PassConstants, PassTypes, Hands, Counted, [Pass!Next]_(Pass!vars)
    PROVE  Counted'
<1> USE DEF Pass!PassConstants
<1>1. IsFiniteSet(Holders) /\ Cardinality(Holders) \in Nat
  BY WorkersAreFinite, FS_Subset, FS_CardinalityType DEF Holders
<1>2. completed \in Nat /\ passNext \in Int
  BY DEF PassTypes
<1>3. CASE SameHands /\ passNext' = passNext
  BY <1>3 DEF SameHands, Counted, Holders
<1>4. CASE /\ passNext <= Total /\ passNext' = passNext + 1
           /\ completed' = completed + 1 /\ passItem' = passItem
  <2>1. Holders' = Holders
    BY <1>4 DEF Holders
  <2> QED
    BY <1>1, <1>2, <1>4, <2>1 DEF Counted
<1>5. ASSUME NEW w \in Workers, passPc[w] = "receive", passPc[Dispatcher] = "send",
             passItem' = [passItem EXCEPT ![w] = passNext], passNext' = passNext + 1, completed' = completed
      PROVE  Counted'
  <2>1. w \notin Holders
    BY <1>5 DEF Hands, InHand, Holders
  <2>2. passNext \in Pass!Items
    BY <1>5 DEF PassTypes, Hands, Pass!Items
  <2>3. Holders' = Holders \union {w}
    BY <1>5, <2>2 DEF Holders, PassTypes
  <2>4. Cardinality(Holders') = Cardinality(Holders) + 1
    BY <1>1, <2>1, <2>3, FS_AddElement
  <2> QED
    BY <1>1, <1>2, <1>5, <2>4 DEF Counted
<1>6. ASSUME NEW w \in Workers, PutsDown(w), passNext' = passNext
      PROVE  Counted'
  <2>1. w \in Holders /\ Holders' = Holders \ {w}
    BY <1>6 DEF PutsDown, Hands, Holders, PassTypes
  <2>2. Cardinality(Holders') = Cardinality(Holders) - 1
    BY <1>1, <2>1, FS_RemoveElement
  <2> QED
    BY <1>1, <1>2, <1>6, <2>2 DEF Counted, PutsDown
<1> QED
  BY <1>3, <1>4, <1>5, <1>6, HandKinds

\* No more is counted than the pass has repositories.
LEMMA CountedBound ==
    ASSUME Pass!PassConstants, PassTypes, Counted
    PROVE  completed <= Total /\ (Holders # {} => completed + 1 <= Total)
<1> USE DEF Pass!PassConstants
<1>1. IsFiniteSet(Holders) /\ Cardinality(Holders) \in Nat
  BY WorkersAreFinite, FS_Subset, FS_CardinalityType DEF Holders
<1>2. Holders # {} => Cardinality(Holders) # 0
  BY <1>1, FS_EmptySet
<1> QED
  BY <1>1, <1>2 DEF Counted, PassTypes

-----------------------------------------------------------------------------
(* Types and places. *)

\* A goroutine reports what it counted, within the pass.
LEMMA CountTypes ==
    ASSUME Pass!PassConstants, PassTypes,
           NEW p \in Pass!Procs, Pass!Count(p), completed + 1 <= Total
    PROVE  /\ completed' \in Nat
           /\ counts' \in [Pass!Procs -> 0 .. Total]
           /\ passPc' \in [Pass!Procs -> Pass!PCs]
<1>1. completed + 1 \in 0 .. Total
  BY DEF Pass!PassConstants, PassTypes
<1> QED
  BY <1>1 DEF Pass!Count, Pass!Goto, PassTypes, Pass!PCs

LEMMA PassTypesStep ==
    ASSUME Pass!PassConstants, PassTypes, Hands, Counted, [Pass!Next]_(Pass!vars)
    PROVE  PassTypes'
<1> USE DEF Pass!PassConstants
<1>1. CASE Pass!DispatchSkip
  <2>1. completed + 1 <= Total
    <3>1. IsFiniteSet(Holders) /\ Cardinality(Holders) \in Nat
      BY WorkersAreFinite, FS_Subset, FS_CardinalityType DEF Holders
    <3> QED
      BY <1>1, <3>1 DEF Pass!DispatchSkip, Counted, PassTypes
  <2>2. Dispatcher \in Pass!Procs /\ Pass!Count(Dispatcher)
    BY <1>1 DEF Pass!DispatchSkip, Pass!Procs
  <2>3. /\ completed' \in Nat /\ counts' \in [Pass!Procs -> 0 .. Total]
        /\ passPc' \in [Pass!Procs -> Pass!PCs]
    BY <2>1, <2>2, CountTypes
  <2>4. passNext' \in 1 .. Total + 1
    BY <1>1 DEF Pass!DispatchSkip, PassTypes
  <2>5. result' \in [Pass!Items -> {"none", "synced", "failed", "skipped"}]
    BY <1>1 DEF Pass!DispatchSkip, PassTypes
  <2> QED
    BY <1>1, <2>3, <2>4, <2>5 DEF Pass!DispatchSkip, PassTypes
<1>2. CASE \/ Pass!DispatchNext \/ Pass!SendCanceled \/ Pass!DispatchDone \/ Pass!CloseWork
                \/ Pass!WaitWorkers \/ Pass!Conclude
  BY <1>2 DEF Pass!DispatchNext, Pass!SendCanceled, Pass!DispatchDone, Pass!CloseWork,
    Pass!WaitWorkers, Pass!Conclude, Pass!Goto, PassTypes,
              Pass!PCs, Pass!Procs
<1>3. ASSUME NEW w \in Workers, Pass!Send(w)
      PROVE  PassTypes'
  <2>1. passNext \in Pass!Items /\ passNext' \in 1 .. Total + 1
    BY <1>3 DEF Pass!Send, Hands, PassTypes, Pass!Items
  <2> QED
    BY <1>3, <2>1 DEF Pass!Send, PassTypes, Pass!PCs, Pass!Procs
<1>4. ASSUME NEW w \in Workers, Pass!Check(w)
      PROVE  PassTypes'
  <2>1. w \in Pass!Procs /\ passItem[w] \in Pass!Items /\ completed + 1 <= Total
    BY <1>4, CountedBound DEF Pass!Check, Hands, InHand, Holders, PassTypes, Pass!Procs
  <2>2. CASE Pass!Quit(w) \/ Pass!Goto(w, "receive")
               \/ \E l \in {"backoff", "sync"} : Pass!Goto(w, l)
    <3>1. passPc' \in [Pass!Procs -> Pass!PCs]
      BY <2>1, <2>2 DEF Pass!Quit, Pass!Goto, PassTypes, Pass!PCs
    <3>2. CASE Pass!Count(w)
      <4>1. /\ completed' \in Nat /\ counts' \in [Pass!Procs -> 0 .. Total]
        BY <2>1, <3>2, CountTypes
      <4> QED
        BY <1>4, <3>1, <3>2, <4>1 DEF Pass!Check, Pass!Quit, Pass!Finished, Pass!RecordError,
          PassTypes
    <3>3. CASE ~Pass!Count(w)
      BY <1>4, <3>1, <3>3 DEF Pass!Check, Pass!Quit, Pass!Finished, Pass!RecordError, PassTypes
    <3> QED
      BY <3>2, <3>3
  <2>3. CASE Pass!Count(w)
    <3>1. /\ completed' \in Nat /\ counts' \in [Pass!Procs -> 0 .. Total]
          /\ passPc' \in [Pass!Procs -> Pass!PCs]
      BY <2>1, <2>3, CountTypes
    <3> QED
      BY <1>4, <3>1 DEF Pass!Check, Pass!Quit, Pass!Finished, Pass!RecordError, PassTypes
  <2> QED
    BY <1>4, <2>2, <2>3 DEF Pass!Check
<1>5. ASSUME NEW w \in Workers, Pass!Synced(w)
      PROVE  PassTypes'
  <2>1. w \in Pass!Procs /\ completed + 1 <= Total
    BY <1>5, CountedBound DEF Pass!Synced, Hands, InHand, Holders, PassTypes, Pass!Procs
  <2>2. CASE passCtxDone
    BY <1>5, <2>1, <2>2 DEF Pass!Synced, Pass!Quit, Pass!Goto, PassTypes, Pass!PCs
  <2>3. CASE ~passCtxDone
    <3>1. /\ completed' \in Nat /\ counts' \in [Pass!Procs -> 0 .. Total]
          /\ passPc' \in [Pass!Procs -> Pass!PCs]
      BY <1>5, <2>1, <2>3, CountTypes DEF Pass!Synced
    <3> QED
      BY <1>5, <2>3, <3>1 DEF Pass!Synced, PassTypes
  <2> QED
    BY <2>2, <2>3
<1>6. ASSUME NEW w \in Workers, Pass!WorkClosed(w) \/ Pass!Backoff(w) \/ Pass!SyncRepo(w)
      PROVE  PassTypes'
  BY <1>6 DEF Pass!WorkClosed, Pass!Backoff, Pass!SyncRepo, Pass!Quit, Pass!RecordError,
    Pass!Goto, PassTypes, Pass!PCs, Pass!Procs
<1>7. ASSUME NEW p \in Pass!Procs, Pass!Report(p)
      PROVE  PassTypes'
  BY <1>7 DEF Pass!Report, Pass!Raise, Pass!Show, Pass!Resume, Pass!Goto, PassTypes, Pass!PCs,
    Pass!Procs
<1>8. CASE Pass!CancelContext \/ UNCHANGED Pass!vars
  BY <1>8 DEF Pass!CancelContext, Pass!vars, PassTypes
<1> QED
  BY <1>1, <1>2, <1>3, <1>4, <1>5, <1>6, <1>7, <1>8 DEF Pass!Next, Pass!Dispatch, Pass!Work

\* A worker holds a repository exactly where its step says so.
LEMMA HandsStep ==
    ASSUME Pass!PassConstants, PassTypes, Hands, [Pass!Next]_(Pass!vars)
    PROVE  Hands'
<1> USE DEF Pass!PassConstants, Pass!Procs
<1>1. CASE Pass!DispatchSkip
  BY <1>1 DEF Pass!DispatchSkip, Pass!Count, Pass!Goto, PassTypes, Hands, InHand
<1>2. CASE \/ Pass!DispatchNext \/ Pass!SendCanceled \/ Pass!DispatchDone \/ Pass!CloseWork
                \/ Pass!WaitWorkers \/ Pass!Conclude
  BY <1>2 DEF Pass!DispatchNext, Pass!SendCanceled, Pass!DispatchDone, Pass!CloseWork,
    Pass!WaitWorkers, Pass!Conclude, Pass!Goto, PassTypes,
              Hands, InHand
<1>3. ASSUME NEW w \in Workers, Pass!Send(w)
      PROVE  Hands'
  <2>1. passNext \in Pass!Items
    BY <1>3 DEF Pass!Send, Hands, PassTypes, Pass!Items
  <2> QED
    BY <1>3, <2>1 DEF Pass!Send, PassTypes, Hands, InHand
<1>4. ASSUME NEW w \in Workers, Pass!Work(w)
      PROVE  Hands'
  <2>1. \/ passItem' = passItem /\ \E l \in Pass!PCs : Pass!Goto(w, l)
             /\ (l \in InHand <=> passPc[w] \in InHand)
                                          /\ l \in InHand \union {"receive", "exited"}
        \/ passItem' = [passItem EXCEPT ![w] = NoItem]
             /\ \E l \in {"receive", "counted", "exited"} : Pass!Goto(w, l)
    <3>1. CASE Pass!WorkClosed(w)
      BY <3>1 DEF Pass!WorkClosed, InHand, Pass!PCs
    <3>2. CASE Pass!Check(w)
      BY <3>2 DEF Pass!Check, Pass!Quit, Pass!Finished, Pass!Count, InHand, Pass!PCs
    <3>3. CASE Pass!Backoff(w)
      BY <3>3 DEF Pass!Backoff, Pass!Quit, InHand, Pass!PCs
    <3>4. CASE Pass!SyncRepo(w)
      BY <3>4 DEF Pass!SyncRepo, Pass!Quit, InHand, Pass!PCs
    <3>5. CASE Pass!Synced(w)
      BY <3>5 DEF Pass!Synced, Pass!Quit, Pass!Count
    <3> QED
      BY <1>4, <3>1, <3>2, <3>3, <3>4, <3>5 DEF Pass!Work
  <2>2. passNext' = passNext
    BY <1>4 DEF Pass!Work, Pass!WorkClosed, Pass!Check, Pass!Backoff, Pass!SyncRepo, Pass!Synced
  <2> QED
    BY <2>1, <2>2 DEF Pass!Goto, PassTypes, Hands, InHand
<1>5. ASSUME NEW p \in Pass!Procs, Pass!Report(p)
      PROVE  Hands'
  BY <1>5 DEF Pass!Report, Pass!Raise, Pass!Show, Pass!Resume, Pass!Goto, PassTypes, Hands, InHand
<1>6. CASE Pass!CancelContext \/ UNCHANGED Pass!vars
  BY <1>6 DEF Pass!CancelContext, Pass!vars, Hands
<1> QED
  BY <1>1, <1>2, <1>3, <1>4, <1>5, <1>6 DEF Pass!Next, Pass!Dispatch

-----------------------------------------------------------------------------
(* Each dispatched repository is accounted for. *)

\* A result once known stays known.
LEMMA ResultsStay ==
    ASSUME PassTypes, [Pass!Next]_(Pass!vars), NEW i \in Pass!Items, result[i] # "none"
    PROVE  result'[i] # "none"
<1>1. \/ result' = result
      \/ \E j, r : r # "none" /\ result' = [result EXCEPT ![j] = r]
  <2>1. ASSUME Pass!Dispatch
        PROVE  result' = result \/ \E r \in {"failed",
                 "skipped"} : result' = [result EXCEPT ![passNext] = r]
    BY <2>1 DEF Pass!Dispatch, Pass!DispatchSkip, Pass!DispatchNext, Pass!Send,
      Pass!SendCanceled, Pass!DispatchDone, Pass!CloseWork,
                Pass!WaitWorkers, Pass!Conclude
  <2>2. ASSUME NEW w \in Workers, Pass!Work(w)
        PROVE  \/ result' = result
               \/ \E r \in {"synced", "failed",
                    "skipped"} : result' = [result EXCEPT ![passItem[w]] = r]
    BY <2>2 DEF Pass!Work, Pass!WorkClosed, Pass!Check, Pass!Backoff, Pass!SyncRepo,
      Pass!Synced, Pass!Finished
  <2>3. ASSUME \/ \E p \in Pass!Procs : Pass!Report(p)
               \/ Pass!CancelContext \/ UNCHANGED Pass!vars
        PROVE  result' = result
    BY <2>3 DEF Pass!Report, Pass!Raise, Pass!Show, Pass!CancelContext, Pass!vars
  <2> QED
    BY <2>1, <2>2, <2>3 DEF Pass!Next
<1> QED
  BY <1>1 DEF PassTypes

LEMMA AccountedStep ==
    ASSUME Pass!PassConstants, PassTypes, Hands, Accounted, [Pass!Next]_(Pass!vars)
    PROVE  Accounted'
<1> USE DEF Pass!PassConstants, Pass!Procs
<1> DEFINE Settled(i) == result[i] # "none" \/ \E w \in Workers : passItem[w] = i
<1>0. passNext \in Int /\ \A i \in 1 .. passNext - 1 : i \in Pass!Items
  BY DEF PassTypes, Pass!Items
<1>1. CASE Pass!DispatchSkip
  <2>1. passNext \in Pass!Items /\ passNext' = passNext + 1 /\ result'[passNext] # "none"
    BY <1>1 DEF Pass!DispatchSkip, PassTypes, Pass!Items
  <2>2. \A w \in Workers : passPc'[w] = passPc[w]
    BY <1>1 DEF Pass!DispatchSkip, Pass!Count, Pass!Goto, PassTypes
  <2>3. \A w \in Workers : passPc'[w] = "synced" => result'[passItem'[w]] # "none"
    BY <1>1, <2>2, ResultsStay DEF Pass!DispatchSkip, Accounted, Hands, InHand, PassTypes
  <2>4. \A i \in 1 .. passNext' - 1 : i = passNext \/ i \in 1 .. passNext - 1
    BY <1>0, <2>1
  <2> QED
    BY <1>0, <1>1, <2>1, <2>3, <2>4, ResultsStay DEF Pass!DispatchSkip, Accounted
<1>2. ASSUME UNCHANGED << passItem, passNext, result >>, passCanceled => passCanceled',
             \A w \in Workers : passPc'[w] = "synced" => passPc[w] = "synced"
      PROVE  Accounted'
  BY <1>2 DEF Accounted
<1>3. CASE \/ Pass!DispatchNext \/ Pass!SendCanceled \/ Pass!DispatchDone \/ Pass!CloseWork
                \/ Pass!WaitWorkers \/ Pass!Conclude
  BY <1>2, <1>3 DEF Pass!DispatchNext, Pass!SendCanceled, Pass!DispatchDone, Pass!CloseWork,
    Pass!WaitWorkers, Pass!Conclude, Pass!Goto, PassTypes
<1>4. ASSUME NEW w \in Workers, Pass!Send(w)
      PROVE  Accounted'
  <2>1. /\ passNext \in Pass!Items /\ passItem'[w] = passNext /\ passNext' = passNext + 1
        /\ \A v \in Workers : v # w => passItem'[v] = passItem[v]
    BY <1>4 DEF Pass!Send, Hands, PassTypes, Pass!Items
  <2>2. passItem[w] = NoItem
    BY <1>4 DEF Pass!Send, Hands, InHand
  <2>3. \A v \in Workers : passPc'[v] = "synced" => v # w /\ passPc[v] = "synced"
    BY <1>4 DEF Pass!Send, PassTypes
  <2>4. \A i \in 1 .. passNext' - 1 : i = passNext \/ i \in 1 .. passNext - 1
    BY <1>0, <2>1
  <2>5. \A i \in 1 .. passNext' - 1 : ~passCanceled => Settled(i)'
    BY <1>0, <1>4, <2>1, <2>2, <2>4 DEF Pass!Send, Accounted
  <2> QED
    BY <1>4, <2>1, <2>3, <2>5 DEF Pass!Send, Accounted
<1>5. ASSUME NEW w \in Workers, Pass!Work(w)
      PROVE  Accounted'
  <2>1. CASE Pass!Quit(w)
    <3>1. passCanceled' /\ \A v \in Workers : passPc'[v] = "synced" => v # w /\ passPc[v] = "synced"
      BY <2>1 DEF Pass!Quit, Pass!Goto, PassTypes
    <3>2. \A v \in Workers : v # w => passItem'[v] = passItem[v]
      BY <2>1 DEF Pass!Quit, PassTypes
    <3> QED
      BY <3>1, <3>2, ResultsStay DEF Accounted, Hands, InHand, PassTypes
  <2>2. CASE /\ passItem' = [passItem EXCEPT ![w] = NoItem] /\ passNext' = passNext
                  /\ passCanceled' = passCanceled
             /\ passItem[w] \in Pass!Items /\ result'[passItem[w]] # "none"
             /\ \A v \in Workers : passPc'[v] = "synced" => v # w /\ passPc[v] = "synced"
    <3>1. \A v \in Workers : v # w => passItem'[v] = passItem[v]
      BY <2>2 DEF PassTypes
    <3>2. \A v \in Workers : passPc'[v] = "synced" => result'[passItem'[v]] # "none"
      BY <2>2, <3>1, ResultsStay DEF Accounted, Hands, InHand, PassTypes
    <3>3. \A i \in 1 .. passNext - 1 : Settled(i) => Settled(i)'
      BY <1>0, <2>2, <3>1, ResultsStay
    <3> QED
      BY <2>2, <3>2, <3>3 DEF Accounted
  <2>3. CASE /\ passItem' = passItem /\ passNext' = passNext /\ passCanceled' = passCanceled
             /\ \A v \in Workers : passPc'[v] = "synced"
                  => (v = w /\ result'[passItem[w]] # "none") \/ passPc[v] = "synced"
    <3>1. \A v \in Workers : passPc'[v] = "synced" => result'[passItem'[v]] # "none"
      BY <2>3, ResultsStay DEF Accounted, Hands, InHand, PassTypes
    <3>2. \A i \in 1 .. passNext - 1 : Settled(i) => Settled(i)'
      BY <1>0, <2>3, ResultsStay
    <3> QED
      BY <2>3, <3>1, <3>2 DEF Accounted
  <2>4. passPc[w] \in InHand => passItem[w] \in Pass!Items
    BY DEF Hands, PassTypes
  <2>5. CASE Pass!WorkClosed(w) \/ Pass!Backoff(w)
    BY <2>1, <2>3, <2>5 DEF Pass!WorkClosed, Pass!Backoff, Pass!Goto, PassTypes
  <2>6. CASE Pass!Check(w)
    BY <2>1, <2>2, <2>3, <2>4, <2>6 DEF Pass!Check, Pass!Finished, Pass!Count, Pass!Goto,
      PassTypes, InHand
  <2>7. CASE Pass!SyncRepo(w)
    BY <2>1, <2>3, <2>4, <2>7 DEF Pass!SyncRepo, Pass!Goto, PassTypes, InHand
  <2>8. CASE Pass!Synced(w)
    BY <2>1, <2>2, <2>4, <2>8 DEF Pass!Synced, Pass!Count, Pass!Goto, PassTypes, InHand, Accounted
  <2> QED
    BY <1>5, <2>5, <2>6, <2>7, <2>8 DEF Pass!Work
<1>6. ASSUME NEW p \in Pass!Procs, Pass!Report(p)
      PROVE  Accounted'
  BY <1>2, <1>6 DEF Pass!Report, Pass!Raise, Pass!Show, Pass!Resume, Pass!Goto, PassTypes
<1>7. CASE Pass!CancelContext \/ UNCHANGED Pass!vars
  BY <1>2, <1>7 DEF Pass!CancelContext, Pass!vars
<1> QED
  BY <1>1, <1>3, <1>4, <1>5, <1>6, <1>7 DEF Pass!Next, Pass!Dispatch

\* The end of the list, or of the context, comes before the end of the pass.
LEMMA PhasesStep ==
    ASSUME Pass!PassConstants, PassTypes, Hands, PassPhases, [Pass!Next]_(Pass!vars)
    PROVE  PassPhases'
<1> USE DEF Pass!PassConstants, Pass!Procs
<1>1. CASE \/ Pass!DispatchSkip \/ Pass!DispatchNext \/ Pass!SendCanceled
                \/ Pass!DispatchDone \/ Pass!CloseWork
           \/ Pass!WaitWorkers \/ Pass!Conclude
  BY <1>1 DEF Pass!DispatchSkip, Pass!DispatchNext, Pass!SendCanceled, Pass!DispatchDone,
    Pass!CloseWork, Pass!WaitWorkers, Pass!Conclude,
              Pass!Count, Pass!Goto, PassTypes, PassPhases
<1>2. ASSUME NEW w \in Workers, Pass!Send(w)
      PROVE  PassPhases'
  BY <1>2 DEF Pass!Send, PassTypes, PassPhases
<1>3. ASSUME NEW w \in Workers, Pass!Work(w)
      PROVE  PassPhases'
  <2>1. passPc[w] # "exited"
    BY <1>3 DEF Pass!Work, Pass!WorkClosed, Pass!Check, Pass!Backoff, Pass!SyncRepo, Pass!Synced
  <2>2. passPc'[Dispatcher] = passPc[Dispatcher] /\ passNext' = passNext /\ (passCanceled => passCanceled')
    BY <1>3 DEF Pass!Work, Pass!WorkClosed, Pass!Check, Pass!Backoff, Pass!SyncRepo,
      Pass!Synced, Pass!Quit, Pass!Count, Pass!Goto, PassTypes
  <2> QED
    BY <2>1, <2>2 DEF PassPhases
<1>4. ASSUME NEW p \in Pass!Procs, Pass!Report(p)
      PROVE  PassPhases'
  BY <1>4 DEF Pass!Report, Pass!Raise, Pass!Show, Pass!Resume, Pass!Goto, PassTypes, PassPhases
<1>5. CASE Pass!CancelContext \/ UNCHANGED Pass!vars
  BY <1>5 DEF Pass!CancelContext, Pass!vars, PassPhases
<1> QED
  BY <1>1, <1>2, <1>3, <1>4, <1>5 DEF Pass!Next, Pass!Dispatch

-----------------------------------------------------------------------------
(* The end of the pass. *)

\* An exhausted ceiling is recorded and never overwritten.
LEMMA CeilingStep ==
    ASSUME PassTypes, [Pass!Next]_(Pass!vars), ceilingSeen => lastErr = "ceiling"
    PROVE  ceilingSeen' => lastErr' = "ceiling"
<1>1. UNCHANGED << ceilingSeen, lastErr >>
        \/ \E code \in {"other", "ceiling"} : Pass!RecordError(code)
  <2>1. ASSUME Pass!Dispatch
        PROVE  UNCHANGED << ceilingSeen, lastErr >>
    BY <2>1 DEF Pass!Dispatch, Pass!DispatchSkip, Pass!DispatchNext, Pass!Send,
      Pass!SendCanceled, Pass!DispatchDone, Pass!CloseWork,
                Pass!WaitWorkers, Pass!Conclude
  <2>2. ASSUME NEW w \in Workers, Pass!Work(w)
        PROVE  UNCHANGED << ceilingSeen, lastErr >>
                 \/ \E code \in {"other", "ceiling"} : Pass!RecordError(code)
    BY <2>2 DEF Pass!Work, Pass!WorkClosed, Pass!Check, Pass!Backoff, Pass!SyncRepo, Pass!Synced
  <2>3. ASSUME \/ \E p \in Pass!Procs : Pass!Report(p)
               \/ Pass!CancelContext \/ UNCHANGED Pass!vars
        PROVE  UNCHANGED << ceilingSeen, lastErr >>
    BY <2>3 DEF Pass!Report, Pass!Raise, Pass!Show, Pass!CancelContext, Pass!vars
  <2> QED
    BY <2>1, <2>2, <2>3 DEF Pass!Next
<1>2. ASSUME NEW code \in {"other", "ceiling"}, Pass!RecordError(code)
      PROVE  ceilingSeen' => lastErr' = "ceiling"
  <2>1. CASE ceilingSeen
    BY <1>2, <2>1 DEF Pass!RecordError
  <2>2. CASE ~ceilingSeen
    BY <1>2, <2>2 DEF Pass!RecordError
  <2> QED
    BY <2>1, <2>2
<1>3. CASE UNCHANGED << ceilingSeen, lastErr >>
  BY <1>3
<1> QED
  BY <1>1, <1>2, <1>3

\* The pass concludes as completed with nothing in hand and the list at its
\* end.
LEMMA CompletedStep ==
    ASSUME Pass!PassConstants, PassTypes, Hands, Accounted, PassPhases, Pass!CompletedIsComplete,
             Ceiling, [Pass!Next]_(Pass!vars)
    PROVE  Pass!CompletedIsComplete'
<1> USE DEF Pass!PassConstants, Pass!Procs
<1>1. Ceiling'
  BY CeilingStep DEF Ceiling
<1>2. CASE Pass!Conclude /\ outcome' = "completed"
  <2>1. ~passCanceled /\ passNext = Total + 1 /\ \A w \in Workers : passPc[w] = "exited"
    BY <1>2 DEF Pass!Conclude, PassPhases
  <2>2. \A w \in Workers : passItem[w] = NoItem
    BY <2>1 DEF Hands, InHand
  <2>3. \A i \in Pass!Items : result[i] # "none"
    BY <2>1, <2>2 DEF Accounted, Pass!Items
  <2> QED
    BY <1>1, <1>2, <2>3 DEF Pass!Conclude, Pass!CompletedIsComplete, Ceiling
<1>3. CASE ~Pass!Conclude
  <2>1. outcome' = outcome
    <3>1. ASSUME Pass!Dispatch
          PROVE  outcome' = outcome
      BY <1>3, <3>1 DEF Pass!Dispatch, Pass!DispatchSkip, Pass!DispatchNext, Pass!Send,
        Pass!SendCanceled, Pass!DispatchDone,
                        Pass!CloseWork, Pass!WaitWorkers
    <3>2. ASSUME NEW w \in Workers, Pass!Work(w)
          PROVE  outcome' = outcome
      BY <3>2 DEF Pass!Work, Pass!WorkClosed, Pass!Check, Pass!Backoff, Pass!SyncRepo, Pass!Synced
    <3>3. ASSUME \/ \E p \in Pass!Procs : Pass!Report(p)
                 \/ Pass!CancelContext \/ UNCHANGED Pass!vars
          PROVE  outcome' = outcome
      BY <3>3 DEF Pass!Report, Pass!Raise, Pass!Show, Pass!CancelContext, Pass!vars
    <3> QED
      BY <3>1, <3>2, <3>3 DEF Pass!Next
  <2> QED
    BY <1>1, <2>1, ResultsStay DEF Pass!CompletedIsComplete, Ceiling
<1>4. CASE Pass!Conclude /\ outcome' # "completed"
  BY <1>4 DEF Pass!CompletedIsComplete
<1> QED
  BY <1>2, <1>3, <1>4

LEMMA PassInvStep == ASSUME Pass!PassConstants PROVE PassInv /\ [Pass!Next]_(Pass!vars) => PassInv'
<1> SUFFICES ASSUME PassInv, [Pass!Next]_(Pass!vars) PROVE PassInv'
  OBVIOUS
<1>1. PassTypes /\ Hands /\ Counted /\ Accounted /\ PassPhases /\ Ceiling /\ Pass!CompletedIsComplete
  BY DEF PassInv
<1>2. PassTypes' /\ Hands' /\ Counted'
  BY <1>1, PassTypesStep, HandsStep, CountedStep
<1>3. Accounted' /\ PassPhases' /\ Ceiling' /\ Pass!CompletedIsComplete'
  BY <1>1, AccountedStep, PhasesStep, CeilingStep, CompletedStep DEF Ceiling
<1> QED
  BY <1>2, <1>3 DEF PassInv

LEMMA PassInvAlways == ASSUME Pass!PassConstants PROVE Pass!Spec => []PassInv
<1>1. Pass!Init => PassInv
  BY InitPassInv
<1>2. PassInv /\ [Pass!Next]_(Pass!vars) => PassInv'
  BY PassInvStep
<1> QED
  BY <1>1, <1>2, PTL DEF Pass!Spec

\* Variables keep their types: above all, no more repositories are counted
\* than the pass has, whoever counts them.
THEOREM PassTypeOK == Pass!Spec => []Pass!TypeOK
<1>1. PassInv => Pass!TypeOK
  BY PassAssumption, CountedBound DEF PassInv, PassTypes, Pass!TypeOK, Pass!PassConstants
<1> QED
  BY <1>1, PassAssumption, PassInvAlways, PTL

\* A pass is told as completed only when every repository has a result: a
\* cancellation that left work undone never passes for success, whoever saw
\* it.  An exhausted ceiling is not hidden by another worker's error.
THEOREM PassIsComplete == Pass!Spec => []Pass!CompletedIsComplete
<1>1. PassInv => Pass!CompletedIsComplete
  BY DEF PassInv
<1> QED
  BY <1>1, PassAssumption, PassInvAlways, PTL

\* Whatever the lock and the merge queue do beside it, a pass of the daemon is
\* told as completed only when every repository has a result, and an exhausted
\* ceiling stays its error.
THEOREM PassAccountsForAll == SharedSpec => []CompletedIsComplete
<1>1. SharedInit => Pass!Init
  BY DEF SharedInit
<1>2. [SharedNext]_sharedVars => [Pass!Next]_(Pass!vars)
  BY DEF SharedNext, OnlyLock, OnlyPass, OnlyMerge, sharedVars, passVars, Pass!vars
<1> QED
  BY <1>1, <1>2, PassIsComplete, PTL DEF SharedSpec, Pass!Spec, CompletedIsComplete

-----------------------------------------------------------------------------
(* What a pass shows is done.  A repository is done with once it has a      *)
(* result and nobody holds it; each is handed out once.                     *)

Done == {i \in Pass!Items : result[i] # "none" /\ \A w \in Workers : passItem[w] # i}

\* Two workers hold two repositories, of those handed out, and what was not
\* handed out has no result.
HandedOutOnce ==
    /\ \A v, w \in Workers : passItem[v] = passItem[w] /\ passItem[v] # NoItem => v = w
    /\ \A w \in Workers : passItem[w] # NoItem => passItem[w] < passNext
    /\ \A i \in Pass!Items : i >= passNext => result[i] = "none"

\* What was counted is done, and what goroutines report and have shown was
\* counted.
Earned ==
    /\ completed <= Cardinality(Done)
    /\ \A p \in Pass!Procs : counts[p] <= completed
    /\ progress <= completed

LEMMA HandedOutStep ==
    ASSUME Pass!PassConstants, PassInv, HandedOutOnce, [Pass!Next]_(Pass!vars)
    PROVE  HandedOutOnce'
<1>0. PassTypes /\ Hands
  BY DEF PassInv
<1>1. passNext \in Int /\ NoItem \notin Pass!Items
  BY <1>0 DEF PassTypes, Pass!PassConstants
<1>2. CASE Pass!DispatchSkip
  BY <1>0, <1>1, <1>2 DEF Pass!DispatchSkip, HandedOutOnce, PassTypes, Pass!Items
<1>3. CASE \/ Pass!DispatchNext \/ Pass!SendCanceled \/ Pass!DispatchDone \/ Pass!CloseWork
                \/ Pass!WaitWorkers \/ Pass!Conclude \/ Pass!CancelContext \/ UNCHANGED Pass!vars
                \/ \E p \in Pass!Procs : Pass!Report(p)
  <2>1. UNCHANGED << passItem, passNext, result >>
    BY <1>3 DEF Pass!DispatchNext, Pass!SendCanceled, Pass!DispatchDone, Pass!CloseWork,
      Pass!WaitWorkers, Pass!Conclude, Pass!CancelContext, Pass!vars, Pass!Report, Pass!Raise,
      Pass!Show
  <2> QED
    BY <2>1 DEF HandedOutOnce
<1>4. ASSUME NEW w \in Workers, Pass!Send(w)
      PROVE  HandedOutOnce'
  BY <1>0, <1>1, <1>4 DEF Pass!Send, HandedOutOnce, PassTypes, Pass!Items
<1>5. ASSUME NEW w \in Workers, Pass!Work(w)
      PROVE  HandedOutOnce'
  <2>1. /\ passNext' = passNext
        /\ passItem' \in {passItem, [passItem EXCEPT ![w] = NoItem]}
    BY <1>5 DEF Pass!Work, Pass!WorkClosed, Pass!Check, Pass!Backoff, Pass!SyncRepo,
      Pass!Synced, Pass!Quit, Pass!Finished
  <2>2. \/ result' = result
        \/ passItem[w] # NoItem /\ \E r : result' = [result EXCEPT ![passItem[w]] = r]
    BY <1>0, <1>5 DEF Pass!Work, Pass!WorkClosed, Pass!Check, Pass!Backoff, Pass!SyncRepo,
      Pass!Synced, Pass!Finished, Hands, InHand
  <2>3. \A v \in Workers : passItem'[v] \in {passItem[v], NoItem}
    BY <1>0, <2>1 DEF PassTypes
  <2>4. ASSUME NEW i \in Pass!Items, i >= passNext
        PROVE  result'[i] = "none"
    <3>1. passItem[w] # i
      BY <1>0, <1>1, <2>4 DEF HandedOutOnce, PassTypes, Pass!Items
    <3>2. result'[i] = result[i]
      BY <1>0, <2>2, <3>1 DEF PassTypes
    <3> QED
      BY <2>4, <3>2 DEF HandedOutOnce
  <2> QED
    BY <2>1, <2>3, <2>4 DEF HandedOutOnce
<1> QED
  BY <1>2, <1>3, <1>4, <1>5 DEF Pass!Next, Pass!Dispatch

LEMMA EarnedStep ==
    ASSUME Pass!PassConstants, PassInv, HandedOutOnce, Earned, [Pass!Next]_(Pass!vars)
    PROVE  Earned'
<1>0. PassTypes /\ Hands /\ Accounted
  BY DEF PassInv
<1>1. /\ IsFiniteSet(Done) /\ Cardinality(Done) \in Nat
      /\ IsFiniteSet(Done') /\ Cardinality(Done') \in Nat
  <2>1. IsFiniteSet(Pass!Items)
    BY FS_Interval DEF Pass!Items, Pass!PassConstants
  <2>2. Done \subseteq Pass!Items /\ Done' \subseteq Pass!Items
    BY DEF Done
  <2> QED
    BY <2>1, <2>2, FS_Subset, FS_CardinalityType
<1>2. /\ completed \in Nat /\ progress \in Nat /\ NoItem \notin Pass!Items
      /\ \A p \in Pass!Procs : counts[p] \in Nat
  BY <1>0 DEF PassTypes, Pass!PassConstants
\* Nothing done comes undone.
<1>3. Done \subseteq Done'
  <2>1. \A i \in Done : result'[i] # "none"
    BY <1>0, ResultsStay DEF Done
  <2>2. ASSUME NEW i \in Done, NEW w \in Workers
        PROVE  passItem'[w] # i
    <3>1. i < passNext /\ i \in Pass!Items /\ passItem[w] # i
      BY <1>0 DEF Done, HandedOutOnce, PassTypes, Pass!Items
    <3>2. passItem'[w] \in {passItem[w], passNext, NoItem}
      BY <1>0, HandKinds DEF SameHands, PutsDown, PassTypes
    <3> QED
      BY <1>2, <3>1, <3>2 DEF PassTypes, Pass!Items
  <2> QED
    BY <2>1, <2>2 DEF Done
<1>4. Cardinality(Done) <= Cardinality(Done')
  BY <1>1, <1>3, FS_Subset
\* A step that counts does so of one more.
<1>5. ASSUME NEW i \in Pass!Items, i \notin Done, i \in Done'
      PROVE  Cardinality(Done) + 1 <= Cardinality(Done')
  <2>1. Cardinality(Done \union {i}) = Cardinality(Done) + 1
    BY <1>1, <1>5, FS_AddElement
  <2>2. Done \union {i} \subseteq Done'
    BY <1>3, <1>5
  <2>3. Cardinality(Done \union {i}) <= Cardinality(Done')
    BY <1>1, <2>2, FS_Subset
  <2> QED
    BY <2>1, <2>3
<1>6. ASSUME NEW p \in Pass!Procs, Pass!Count(p), UNCHANGED progress,
             Cardinality(Done) + 1 <= Cardinality(Done')
      PROVE  Earned'
  <2>1. /\ completed' = completed + 1
        /\ \A q \in Pass!Procs : counts'[q] \in {counts[q], completed + 1}
    BY <1>0, <1>6 DEF Pass!Count, PassTypes
  <2>2. \A q \in Pass!Procs : counts'[q] <= completed'
    BY <1>2, <2>1 DEF Earned
  <2> QED
    BY <1>1, <1>2, <1>6, <2>1, <2>2 DEF Earned
<1>7. ASSUME UNCHANGED << completed, counts >>,
             progress' = progress \/ \E p \in Pass!Procs : progress' = counts[p]
      PROVE  Earned'
  BY <1>1, <1>2, <1>4, <1>7 DEF Earned
<1>8. CASE Pass!DispatchSkip
  <2>1. passNext \in Pass!Items /\ passNext \notin Done
    BY <1>0, <1>8 DEF Pass!DispatchSkip, PassTypes, Pass!Items, HandedOutOnce, Done
  <2>2. /\ result'[passNext] # "none" /\ passItem' = passItem
        /\ \A w \in Workers : passItem[w] # passNext
    BY <1>0, <1>2, <1>8, <2>1 DEF Pass!DispatchSkip, PassTypes, HandedOutOnce
  <2>3. passNext \in Done'
    BY <2>1, <2>2 DEF Done
  <2>4. Dispatcher \in Pass!Procs /\ Pass!Count(Dispatcher) /\ progress' = progress
    BY <1>8 DEF Pass!DispatchSkip, Pass!Procs
  <2> QED
    BY <1>5, <1>6, <2>1, <2>3, <2>4
<1>9. CASE \/ Pass!DispatchNext \/ Pass!SendCanceled \/ Pass!DispatchDone \/ Pass!CloseWork
                \/ Pass!WaitWorkers \/ Pass!Conclude \/ Pass!CancelContext \/ UNCHANGED Pass!vars
                \/ \E w \in Workers : Pass!Send(w)
  <2>1. UNCHANGED << completed, counts, progress >>
    BY <1>9 DEF Pass!DispatchNext, Pass!SendCanceled, Pass!DispatchDone, Pass!CloseWork,
      Pass!WaitWorkers, Pass!Conclude, Pass!CancelContext, Pass!vars, Pass!Send
  <2> QED
    BY <1>7, <2>1
<1>10. ASSUME NEW p \in Pass!Procs, Pass!Report(p)
       PROVE  Earned'
  BY <1>7, <1>10 DEF Pass!Report, Pass!Raise, Pass!Show
<1>11. ASSUME NEW w \in Workers, Pass!Work(w)
       PROVE  Earned'
  <2>1. CASE Pass!Count(w)
    <3>1. /\ passItem' = [passItem EXCEPT ![w] = NoItem]
          /\ passItem[w] \in Pass!Items /\ result'[passItem[w]] # "none" /\ progress' = progress
      <4>1. CASE Pass!Check(w)
        BY <1>0, <2>1, <4>1
           DEF Pass!Check, Pass!Quit, Pass!Finished, Pass!Count, Pass!Goto, Hands, InHand,
             PassTypes, Pass!Procs
      <4>2. CASE Pass!Synced(w)
        BY <1>0, <2>1, <4>2
           DEF Pass!Synced, Pass!Quit, Pass!Count, Pass!Goto, Hands, InHand, Accounted, PassTypes,
             Pass!Procs
      <4>3. CASE Pass!WorkClosed(w) \/ Pass!Backoff(w) \/ Pass!SyncRepo(w)
        BY <1>2, <2>1, <4>3 DEF Pass!WorkClosed, Pass!Backoff, Pass!SyncRepo, Pass!Count
      <4> QED
        BY <1>11, <4>1, <4>2, <4>3 DEF Pass!Work
    <3>2. passItem[w] \notin Done
      BY DEF Done
    <3>3. \A v \in Workers : passItem'[v] # passItem[w]
      BY <1>0, <1>2, <3>1 DEF HandedOutOnce, PassTypes
    <3>4. passItem[w] \in Done'
      BY <3>1, <3>3 DEF Done
    <3> QED
      BY <1>5, <1>6, <2>1, <3>1, <3>2, <3>4 DEF Pass!Procs
  <2>2. CASE ~Pass!Count(w)
    <3>1. UNCHANGED << completed, counts, progress >>
      BY <1>11, <2>2 DEF Pass!Work, Pass!WorkClosed, Pass!Check, Pass!Backoff, Pass!SyncRepo,
        Pass!Synced
    <3> QED
      BY <1>7, <3>1
  <2> QED
    BY <2>1, <2>2
<1> QED
  BY <1>8, <1>9, <1>10, <1>11 DEF Pass!Next, Pass!Dispatch

\* A count that was shown is of repositories the pass is done with: it may be
\* shown late, after a higher one, but it never claims more than was done,
\* for any number of repositories and workers (publishMonotonicProgress).
THEOREM PassProgressIsEarned == Pass!Spec => []Pass!ProgressIsEarned
<1>1. Pass!Init => PassInv /\ HandedOutOnce /\ Earned
  <2> SUFFICES ASSUME Pass!Init PROVE PassInv /\ HandedOutOnce /\ Earned
    OBVIOUS
  <2>1. HandedOutOnce
    BY DEF Pass!Init, HandedOutOnce
  <2>2. Done = {}
    BY DEF Pass!Init, Done
  <2>3. Earned
    BY <2>2, FS_EmptySet DEF Pass!Init, Earned
  <2> QED
    BY <2>1, <2>3, PassAssumption, InitPassInv
<1>2. (PassInv /\ HandedOutOnce /\ Earned) /\ [Pass!Next]_(Pass!vars) =>
        (PassInv /\ HandedOutOnce /\ Earned)'
  BY PassAssumption, PassInvStep, HandedOutStep, EarnedStep
<1>3. PassInv /\ HandedOutOnce /\ Earned => Pass!ProgressIsEarned
  <2> SUFFICES ASSUME PassInv, Earned PROVE Pass!ProgressIsEarned
    OBVIOUS
  <2>1. Pass!Cardinality(Done) = Cardinality(Done)
    BY Zenon DEF Pass!Cardinality, Cardinality
  <2>2. progress <= Cardinality(Done)
    <3>1. IsFiniteSet(Pass!Items)
      BY PassAssumption, FS_Interval DEF Pass!Items, Pass!PassConstants
    <3>2. Cardinality(Done) \in Nat
      BY <3>1, FS_Subset, FS_CardinalityType DEF Done
    <3> QED
      BY <3>2 DEF Earned, PassInv, PassTypes
  <2> QED
    BY <2>1, <2>2 DEF Pass!ProgressIsEarned, Done
<1> QED
  BY <1>1, <1>2, <1>3, PTL DEF Pass!Spec

-----------------------------------------------------------------------------
(* The provider write gate counts exactly the admitted work, for any        *)
(* number of pull requests, deferred merges and immediate merges, so the    *)
(* acknowledgement generation freezes only when that work has drained.      *)
(*                                                                          *)
(* Counting needs to know where a handle is: a handle that is queued has    *)
(* not been released and is not yet, or no longer, at a place from which it *)
(* could be queued again.                                                   *)

Early == {"idle", "read", "refreshKeys", "admit", "mark"}
Live == {"start"} \union WorkerPCs \union MergePCs

\* Where a worker may still merge or report.
Holding == {"start", "refresh", "ci", "wait", "ensureRow", "ensureProvider", "fail",
            "failClear"} \union MergePCs

\* Where only an actor is whose merge landed.
AfterMergePCs == {"sync", "supersede", "clear", "announce"}

\* Where a merge has not been bound to a head yet, or is given up.
BeforeMerge == Live \ (AfterMergePCs \union {"merge"})

\* TypeOK, with counters that might go below zero.
Types ==
    /\ gate \in [phase : Phases, inFlight : Int, deferredMerges : Int, loadErr : BOOLEAN]
    /\ prep \in [phase : Phases, enrollment : {NoEnrollment, Enrollment},
                 drain : {NoGeneration, 0}, seal : {NoSeal}]
    /\ prov \in [PRs -> [state : States, head : 1 .. MaxHead, base : 1 .. MaxBase,
                         by : Actors \union {None, "elsewhere"}]]
    /\ row \in [PRs -> Snapshots]
    /\ pending \in [PRs -> Handles \union {None}]
    /\ superseded \subseteq Handles
    /\ released \subseteq Handles
    /\ requests \subseteq Actors
    /\ pc \in [Actors -> PCs]
    /\ target \in [Actors -> [pr : PRs \union {None}, head : 0 .. MaxHead, bound : 0 .. MaxHead,
                           base : 0 .. MaxBase]]
    /\ event \in [Handles -> {"none", "merged", "failed"}]
    /\ shutdown \in BOOLEAN

\* Where actors and handles are.
Placed ==
    /\ \A a \in Actors : pc[a] # "idle" => PR(a) \in PRs
    /\ \A a \in requests : pc[a] # "idle"
    /\ \A h \in released : pc[h] \notin Early
    /\ \A k \in PRs : pending[k] # None =>
         /\ PR(pending[k]) = k
         /\ pending[k] \notin released
         /\ pc[pending[k]] \in Live

\* The process and the row agree, and a frozen row stays closed.
Phased ==
    /\ gate.loadErr = FALSE
    /\ gate.phase = prep.phase
    /\ prep.drain # NoGeneration => prep.phase # "open"

GateInv == Types /\ Placed /\ GateCountsWork /\ Phased /\ FrozenIsDrained

Marking == {h \in Handles : pc[h] = "mark"}
Occupied == {k \in PRs : pending[k] # None}

\* The sets the gate counts are finite.
LEMMA CountedAreFinite ==
    ASSUME Types
    PROVE  /\ IsFiniteSet(Marking) /\ IsFiniteSet(Occupied) /\ IsFiniteSet(requests)
           /\ Cardinality(Marking) \in Nat /\ Cardinality(Occupied) \in Nat
           /\ Cardinality(requests) \in Nat
<1>1. IsFiniteSet(Handles)
  BY MergeAssumption, FS_Subset DEF Actors
<1>2. IsFiniteSet(Marking) /\ IsFiniteSet(Occupied) /\ IsFiniteSet(requests)
  BY <1>1, MergeAssumption, FS_Subset DEF Types, Marking, Occupied
<1> QED
  BY <1>2, FS_CardinalityType

\* What a clear does: it takes the handle's own place, once, or nothing.
LEMMA ClearEffect ==
    ASSUME Types, Placed, NEW h \in Handles, pc[h] \notin Early, Clear(h)
    PROVE  \/ /\ UNCHANGED << pending, released, gate >>
              /\ \A k \in PRs : pending[k] # h
           \/ /\ PR(h) \in PRs /\ pending[PR(h)] = h
              /\ pending' = [pending EXCEPT ![PR(h)] = None]
              /\ released' = released \union {h}
              /\ gate' = [gate EXCEPT !.deferredMerges = @ - 1]
  BY MergeAssumption DEF Types, Placed, Clear, Finish, ReleaseDeferredMerge, PR, Actors, Early

\* What a supersession does: it takes the place of whoever is queued.
LEMMA SupersedeEffect ==
    ASSUME Types, Placed, NEW k \in PRs, SupersedePending(k)
    PROVE  \/ /\ UNCHANGED << pending, superseded, released, gate >>
              /\ pending[k] = None
           \/ \E h \in Handles :
                /\ pending[k] = h
                /\ superseded' = superseded \union {h}
                /\ pending' = [pending EXCEPT ![k] = None]
                /\ released' = released \union {h}
                /\ gate' = [gate EXCEPT !.deferredMerges = @ - 1]
  BY MergeAssumption DEF Types, Placed, SupersedePending, Finish, ReleaseDeferredMerge, PR

\* Nothing is admitted before the first request.
LEMMA InitGateInv == Init => GateInv
<1> SUFFICES ASSUME Init PROVE GateInv
  OBVIOUS
<1>1. Types
  <2>1. gate = [phase |-> "open", inFlight |-> 0, deferredMerges |-> 0, loadErr |-> FALSE]
    BY DEF Init, NewGate
  <2>2. 1 \in 1 .. MaxHead /\ 1 \in 1 .. MaxBase /\ 0 \in 0 .. MaxHead /\ 0 \in 0 .. MaxBase
    BY MergeAssumption
  <2>3. prov \in [PRs -> [state : States, head : 1 .. MaxHead, base : 1 .. MaxBase,
                          by : Actors \union {None, "elsewhere"}]]
    BY <2>2 DEF Init, States
  <2>4. row \in [PRs -> Snapshots]
    BY <2>2 DEF Init, States, Snapshots
  <2>5. target \in [Actors -> [pr : PRs \union {None}, head : 0 .. MaxHead, bound : 0 .. MaxHead,
                            base : 0 .. MaxBase]]
    BY <2>2 DEF Init
  <2>6. gate \in [phase : Phases, inFlight : Int, deferredMerges : Int, loadErr : BOOLEAN]
    BY <2>1 DEF Phases
  <2>7. prep \in [phase : Phases, enrollment : {NoEnrollment, Enrollment},
                  drain : {NoGeneration, 0}, seal : {NoSeal}]
    BY DEF Init, OpenRow, Phases
  <2>8. pc \in [Actors -> PCs] /\ shutdown \in BOOLEAN
    BY DEF Init, PCs
  <2> QED
    BY <2>3, <2>4, <2>5, <2>6, <2>7, <2>8 DEF Init, Types
<1>2. Placed
  BY MergeAssumption DEF Init, Placed
<1>3. GateCountsWork
  <2>1. Marking = {} /\ Occupied = {} /\ requests = {}
    BY DEF Init, Actors, Marking, Occupied
  <2>2. gate.inFlight = 0 /\ gate.deferredMerges = 0
    BY DEF Init, NewGate
  <2>3. Cardinality(Marking) = 0 /\ Cardinality(Occupied) = 0 /\ Cardinality(requests) = 0
    BY <2>1, FS_EmptySet
  <2> QED
    BY <2>2, <2>3 DEF GateCountsWork, Marking, Occupied
<1>4. Phased /\ FrozenIsDrained
  BY DEF Init, Phased, FrozenIsDrained, OpenRow, NewGate
<1> QED
  BY <1>1, <1>2, <1>3, <1>4 DEF GateInv
-----------------------------------------------------------------------------
(* What the actions do to the gate and the queue, in kinds. *)

Kept == UNCHANGED << gate, prep, pending, superseded, released, requests >>

\* A merge of the daemon lands on an open pull request that is at the head
\* the actor was asked to merge.
Lands(a) ==
    /\ MergeCall(a) /\ ProviderMerges(a)
    /\ prov'[PR(a)].by = a /\ prov'[PR(a)].state = "merged"
    /\ prov'[PR(a)].head = prov[PR(a)].head

\* The preflight binds a merge to a head, the one that was reviewed.
Binds(a) ==
    /\ MergePreflight(a)
    /\ target'[a].bound = target'[a].head

\* An actor goes on, and the queue and the gate are left alone.
Moves(a, l) ==
    /\ Kept
    /\ \A b \in Actors : target'[b].pr = target[b].pr
    /\ pc[a] \notin {"idle", "mark", "done"}
    /\ Goto(a, l)
    /\ l \notin {"idle", "mark"}
    /\ pc[a] \notin Early => l \notin Early
    /\ a \in Handles /\ pc[a] \in Live => l \in Live
    /\ l \in Holding => pc[a] \in Holding
    /\ l \in AfterMergePCs => pc[a] \in AfterMergePCs \/ Lands(a)
    /\ l = "merge" => Binds(a)

\* A handle is cleared and its goroutine goes on or ends.
Clears(h, l) ==
    /\ pc[h] \in Live
    /\ Clear(h)
    /\ Goto(h, l)
    /\ l \notin Early \union Holding \union {"merge"}
    /\ l \in AfterMergePCs => pc[h] \in AfterMergePCs
    /\ UNCHANGED << prep, superseded, requests, target >>

Outside == Kept /\ UNCHANGED << pc, target >>

\* What the queueing reads from the row leaves the pull request and the
\* reviewed head of a target alone.
LEMMA ReadKeepsTarget ==
    ASSUME Types, NEW h \in Handles, DeferRead(h), NEW b \in Actors
    PROVE  target'[b].pr = target[b].pr /\ target'[b].head = target[b].head
<1> DEFINE new == [target[h] EXCEPT !.bound = row[PR(h)].head, !.base = row[PR(h)].base]
<1>1. h \in Actors
  BY DEF Actors
<1>2. target[h] \in [pr : PRs \union {None}, head : 0 .. MaxHead, bound : 0 .. MaxHead,
                     base : 0 .. MaxBase]
  BY <1>1 DEF Types
<1>3. new.pr = target[h].pr /\ new.head = target[h].head
  BY <1>2
<1>4. target' = target \/ target' = [target EXCEPT ![h] = new]
  BY <1>1 DEF DeferRead, Types
<1> HIDE DEF new
<1> QED
  BY <1>1, <1>3, <1>4 DEF Types

\* The steps of the request move on, clear, admit or mark.
LEMMA DeferKinds ==
    ASSUME Types, NEW h \in Handles, Defer(h)
    PROVE  \/ \E l \in PCs : Moves(h, l) \/ Clears(h, l)
           \/ DeferAdmit(h) /\ BeginDeferredMerge /\ Goto(h, "mark")
           \/ DeferMark(h)
<1>1. CASE DeferRead(h)
  <2>1. PICK l \in {"refreshKeys", "admit", "done"} : Goto(h, l)
    BY <1>1 DEF DeferRead
  <2>2. \A b \in Actors : target'[b].pr = target[b].pr
    BY <1>1, ReadKeepsTarget
  <2>3. Moves(h, l) /\ l \in PCs
    BY <1>1, <2>1, <2>2 DEF DeferRead, Moves, Kept, Early, Live, Holding, AfterMergePCs, PCs,
      RequestPCs, WorkerPCs, MergePCs
  <2> QED
    BY <2>3
<1>2. CASE DeferRefresh(h)
  <2>1. PICK l \in {"admit", "done"} : Goto(h, l)
    BY <1>2 DEF DeferRefresh
  <2>2. Moves(h, l) /\ l \in PCs
    BY <1>2, <2>1 DEF DeferRefresh, Moves, Kept, merging, Early, Live, Holding, AfterMergePCs,
      PCs, RequestPCs, WorkerPCs, MergePCs
  <2> QED
    BY <2>2
<1>3. CASE DeferAdmit(h)
  <2>1. CASE BeginDeferredMerge /\ Goto(h, "mark")
    BY <1>3, <2>1
  <2>2. CASE ~Admits /\ Goto(h, "done") /\ UNCHANGED gate
    <3>1. Moves(h, "done") /\ "done" \in PCs
      BY <1>3, <2>2 DEF DeferAdmit, Moves, Kept, merging, Early, Live, Holding, AfterMergePCs,
        PCs, RequestPCs, WorkerPCs, MergePCs
    <3> QED
      BY <3>1
  <2> QED
    BY <1>3, <2>1, <2>2 DEF DeferAdmit
<1>4. CASE DeferStart(h)
  <2>1. CASE shutdown
    <3>1. Clears(h, "done") /\ "done" \in PCs
      BY <1>4, <2>1 DEF DeferStart, Clears, Early, Live, Holding, AfterMergePCs, PCs, WorkerPCs,
        MergePCs
    <3> QED
      BY <3>1
  <2>2. CASE ~shutdown
    <3>1. Moves(h, "refresh") /\ "refresh" \in PCs
      BY <1>4, <2>2 DEF DeferStart, Moves, Kept, Early, Live, Holding, AfterMergePCs, PCs,
        RequestPCs, WorkerPCs, MergePCs
    <3> QED
      BY <3>1
  <2> QED
    BY <2>1, <2>2
<1> QED
  BY <1>1, <1>2, <1>3, <1>4 DEF Defer

\* A step of the worker that only moves it.
LEMMA StepMoves ==
    ASSUME Types, NEW h \in Handles, NEW from \in Holding,
           NEW labels \in SUBSET BeforeMerge,
           Step(h, from, labels)
    PROVE  \E l \in PCs : Moves(h, l)
<1>1. PICK l \in labels : Goto(h, l)
  BY DEF Step
<1>2. Moves(h, l) /\ l \in PCs
  BY <1>1 DEF Step, Moves, Kept, merging, Early, Live, Holding, AfterMergePCs, BeforeMerge, PCs,
    RequestPCs, WorkerPCs, MergePCs
<1> QED
  BY <1>2

\* A check of the target leads on, to the failure, or to the exit.
LEMMA CheckLabels ==
    ASSUME NEW h \in Handles, NEW s, s.state \in States, NEW l \in BeforeMerge
    PROVE  Check(h, s, l) \in BeforeMerge
  BY DEF Check, States, BeforeMerge, Live, AfterMergePCs, WorkerPCs, MergePCs

\* The steps of the worker move on or clear.
LEMMA WorkKinds ==
    ASSUME Types, Placed, NEW h \in Handles, Work(h)
    PROVE  \E l \in PCs : Moves(h, l) \/ Clears(h, l)
<1> DEFINE Row == row[PR(h)]
<1>1. pc[h] \in Live => Row.state \in States /\ Snapshot(PR(h)).state \in States
  BY DEF Types, Placed, Snapshots, Snapshot, Live, WorkerPCs, MergePCs, Actors
<1>2. /\ {"refresh", "ci", "wait", "ensureRow", "ensureProvider", "preflight", "fail", "failClear",
          "failAnnounce", "exit"} \subseteq BeforeMerge
      /\ {"clear", "announce"} \subseteq Live
      /\ {"refresh", "ci", "wait", "ensureRow", "ensureProvider", "fail"} \subseteq Holding
  BY DEF Live, Holding, AfterMergePCs, BeforeMerge, WorkerPCs, MergePCs
<1>3. CASE RefreshRow(h)
  <2>1. pc[h] = "refresh"
    BY <1>3 DEF RefreshRow, Step
  <2>2. {Check(h, Row, "ci"), "fail"} \in SUBSET BeforeMerge
    BY <1>1, <1>2, <2>1, CheckLabels DEF BeforeMerge
  <2> QED
    BY <1>2, <1>3, <2>2, StepMoves DEF RefreshRow
<1>4. CASE RefreshCI(h)
  <2>1. pc[h] = "ci"
    BY <1>4 DEF RefreshCI, Step
  <2>2. \A l \in {"ensureRow", "wait", "fail"} : Check(h, Row, l) \in BeforeMerge
    BY <1>1, <1>2, <2>1, CheckLabels DEF BeforeMerge
  <2>3. ({Check(h, Row, l) : l \in {"ensureRow", "wait",
          "fail"}} \union {"fail"}) \in SUBSET BeforeMerge
    BY <1>2, <2>2
  <2> QED
    BY <1>2, <1>4, <2>3, StepMoves DEF RefreshCI
<1>5. CASE Tick(h) \/ WaitTimeout(h) \/ WaitDone(h)
  <2>1. {"refresh"} \in SUBSET BeforeMerge
          /\ {"fail"} \in SUBSET BeforeMerge /\ {"exit"} \in SUBSET BeforeMerge
    BY <1>2
  <2> QED
    BY <1>2, <1>5, <2>1, StepMoves DEF Tick, WaitTimeout, WaitDone
<1>6. CASE EnsureRow(h)
  <2>1. pc[h] = "ensureRow"
    BY <1>6 DEF EnsureRow, Step
  <2>2. {Check(h, Row, "ensureProvider"), "fail"} \in SUBSET BeforeMerge
    BY <1>1, <1>2, <2>1, CheckLabels DEF BeforeMerge
  <2> QED
    BY <1>2, <1>6, <2>2, StepMoves DEF EnsureRow
<1>7. CASE EnsureProvider(h)
  <2>1. pc[h] = "ensureProvider"
    BY <1>7 DEF EnsureProvider, Step
  <2>2. {Check(h, Snapshot(PR(h)), "preflight"), "fail"} \in SUBSET BeforeMerge
    BY <1>1, <1>2, <2>1, CheckLabels DEF BeforeMerge
  <2> QED
    BY <1>2, <1>7, <2>2, StepMoves DEF EnsureProvider
<1>8. CASE FailureCheck(h)
  <2>1. {IF h \in superseded THEN "exit" ELSE "failClear"} \in SUBSET BeforeMerge
    BY <1>2
  <2> QED
    BY <1>2, <1>8, <2>1, StepMoves DEF FailureCheck
<1>9. CASE ClearMerged(h)
  <2>1. Clears(h, "announce") /\ "announce" \in PCs
    BY <1>2, <1>9 DEF ClearMerged, Clears, Early, Holding, AfterMergePCs, BeforeMerge,
      PCs, WorkerPCs, MergePCs
  <2> QED
    BY <2>1
<1>10. CASE FailureClear(h)
  <2>1. Clears(h, "failAnnounce") /\ "failAnnounce" \in PCs
    BY <1>2, <1>10 DEF FailureClear, Clears, Early, Holding, AfterMergePCs, BeforeMerge,
      PCs, WorkerPCs, MergePCs
  <2> QED
    BY <2>1
<1>11. CASE Exit(h)
  <2>1. Clears(h, "done") /\ "done" \in PCs
    BY <1>2, <1>11 DEF Exit, Clears, Early, Holding, AfterMergePCs, BeforeMerge,
      PCs, MergePCs
  <2> QED
    BY <2>1
<1>12. CASE AnnounceMerged(h) \/ AnnounceFailed(h)
  <2>1. Moves(h, "exit") /\ "exit" \in PCs
    BY <1>2, <1>12 DEF AnnounceMerged, AnnounceFailed, Announce, Moves, Kept, merging, Early,
      Holding, AfterMergePCs, BeforeMerge, PCs, WorkerPCs, MergePCs
  <2> QED
    BY <2>1
<1> QED
  BY <1>3, <1>4, <1>5, <1>6, <1>7, <1>8, <1>9, <1>10, <1>11, <1>12 DEF Work

\* The provider's answer to a merge: it landed, or nothing changed and it is
\* not taken for a merge.
LEMMA MergeCallEffect ==
    ASSUME Types, Placed, NEW a \in Actors, MergeCall(a)
    PROVE  \/ UNCHANGED prov /\ Goto(a, AfterNoMerge(a))
           \/ /\ PR(a) \in PRs /\ Lands(a)
              /\ \A k \in PRs : k # PR(a) => prov'[k] = prov[k]
<1>1. PR(a) \in PRs
  BY DEF MergeCall, Placed
<1>2. ASSUME ProviderMerges(a), prov' = [prov EXCEPT ![PR(a)].state = "merged", ![PR(a)].by = a]
      PROVE  Lands(a) /\ \A k \in PRs : k # PR(a) => prov'[k] = prov[k]
  <2>1. prov[PR(a)] \in [state : States, head : 1 .. MaxHead, base : 1 .. MaxBase,
                         by : Actors \union {None, "elsewhere"}]
    BY <1>1 DEF Types
  <2>2. prov' = [prov EXCEPT ![PR(a)] = [prov[PR(a)] EXCEPT !.state = "merged", !.by = a]]
    BY <1>2
  <2>3. prov'[PR(a)] = [prov[PR(a)] EXCEPT !.state = "merged", !.by = a]
    BY <1>1, <2>2 DEF Types
  <2>4. /\ prov'[PR(a)].state = "merged" /\ prov'[PR(a)].by = a
        /\ prov'[PR(a)].head = prov[PR(a)].head
    BY <2>1, <2>3
  <2>5. \A k \in PRs : k # PR(a) => prov'[k] = prov[k]
    BY <1>1, <2>2 DEF Types
  <2> QED
    BY <1>2, <2>4, <2>5 DEF Lands
<1> QED
  BY <1>1, <1>2 DEF MergeCall, Unmerged

\* The steps of a merge move on or supersede.
LEMMA MergeKinds ==
    ASSUME Types, Placed, NEW a \in Actors, Merge(a)
    PROVE  (\E l \in PCs : Moves(a, l)) \/ MergeSupersede(a)
<1>1. AfterNoMerge(a) \in {"fail", "done"} /\ (a \in Handles => AfterNoMerge(a) = "fail")
  BY DEF AfterNoMerge
<1>2. Unmerged(a) = AfterNoMerge(a)
  BY DEF Unmerged
<1>. DEFINE Merged == [prov[PR(a)] EXCEPT !.state = "merged", !.by = a]
<1>3. CASE MergePreflight(a)
  <2>1. \A b \in Actors : target'[b].pr = target[b].pr
    BY <1>3 DEF MergePreflight, Types
  <2>2. CASE Preflight(a) /\ target' = [target EXCEPT ![a].bound = row[PR(a)].head]
             /\ Goto(a, "merge")
    <3>1. Binds(a)
      BY <1>3, <2>2 DEF Binds, Preflight, Types
    <3>2. Moves(a, "merge") /\ "merge" \in PCs
      BY <1>3, <2>1, <2>2, <3>1 DEF MergePreflight, Moves, Kept, Early, Live, Holding,
        AfterMergePCs, PCs, MergePCs
    <3> QED
      BY <3>2
  <2>3. CASE Goto(a, AfterNoMerge(a))
    <3>1. pc[a] = "preflight" /\ Kept
      BY <1>3 DEF MergePreflight, Kept
    <3>2. Moves(a, AfterNoMerge(a)) /\ AfterNoMerge(a) \in PCs
      BY <1>1, <2>1, <2>3, <3>1 DEF Moves, Early, Live, Holding, AfterMergePCs, PCs, WorkerPCs,
        MergePCs
    <3> QED
      BY <3>2
  <2> QED
    BY <1>3, <2>2, <2>3 DEF MergePreflight
<1>4. CASE MergeCall(a)
  <2>1. PICK l \in {"sync", AfterNoMerge(a)} : Goto(a, l)
    BY <1>2, <1>4 DEF MergeCall
  <2>2. l = "sync" => Lands(a)
    <3>1. l = "sync" => pc'[a] = "sync" /\ ~ Goto(a, AfterNoMerge(a))
      BY <1>1, <2>1 DEF Goto, Types
    <3> QED
      BY <1>4, <3>1, MergeCallEffect
  <2>3. Moves(a, l) /\ l \in PCs
    BY <1>1, <1>4, <2>1, <2>2 DEF MergeCall, Moves, Kept, Early, Live, Holding, AfterMergePCs,
      PCs, WorkerPCs, MergePCs
  <2> QED
    BY <2>3
<1>5. CASE MergeSync(a)
  <2>1. Moves(a, "supersede") /\ "supersede" \in PCs
    BY <1>5 DEF MergeSync, Moves, Kept, Early, Live, Holding, AfterMergePCs, PCs, WorkerPCs,
      MergePCs
  <2> QED
    BY <2>1
<1> QED
  BY <1>3, <1>4, <1>5 DEF Merge

\* Every step is of one of the kinds.
LEMMA Kinds ==
    ASSUME Types, Placed, [Next]_vars
    PROVE  \/ \E a \in Actors, l \in PCs : Moves(a, l)
           \/ \E h \in Handles, l \in PCs : Clears(h, l)
           \/ \E h \in Handles : DeferAdmit(h) /\ BeginDeferredMerge /\ Goto(h, "mark")
           \/ \E h \in Handles : DeferMark(h)
           \/ \E a \in Actors : MergeSupersede(a)
           \/ \E a \in Actors, k \in PRs, l \in {"read", "preflight"} :
                Request(a, k, l) /\ (a \in Handles => l = "read")
           \/ \E a \in Actors : Respond(a)
           \/ Prepare
           \/ Outside
<1>1. CASE \E h \in Handles : Defer(h)
  BY <1>1, DeferKinds DEF Actors
<1>2. CASE \E h \in Handles : Work(h)
  BY <1>2, WorkKinds DEF Actors
<1>3. CASE \E a \in Actors : Merge(a)
  BY <1>3, MergeKinds
<1>4. CASE \E h \in Handles, k \in PRs : Request(h, k, "read")
  BY <1>4 DEF Actors
<1>5. CASE \E i \in Immediates, k \in PRs : Request(i, k, "preflight")
  BY <1>5, MergeAssumption DEF Actors
<1>6. CASE \E k \in PRs : ProviderMoves(k) \/ Sync(k)
  BY <1>6 DEF ProviderMoves, Sync, others, Outside, Kept
<1>7. CASE Shutdown \/ UNCHANGED vars
  BY <1>7 DEF Shutdown, others, vars, Outside, Kept
<1> QED
  BY <1>1, <1>2, <1>3, <1>4, <1>5, <1>6, <1>7 DEF Next

-----------------------------------------------------------------------------
(* Each kind keeps the queue in place and the count exact. *)

\* Moving an actor leaves what is counted as it was.
LEMMA MovesKeep ==
    ASSUME Types, Placed, GateCountsWork, NEW a \in Actors, NEW l \in PCs, Moves(a, l)
    PROVE  Placed' /\ GateCountsWork'
<1>1. \A b \in Actors : pc'[b] = IF b = a THEN l ELSE pc[b]
  BY DEF Moves, Goto, Types
<1>2. Placed'
  <2>1. \A b \in Actors : pc'[b] # "idle" => PR(b)' \in PRs
    BY <1>1 DEF Moves, Kept, Placed, PR, Early
  <2>2. \A b \in requests' : pc'[b] # "idle"
    BY <1>1 DEF Moves, Kept, Placed, Types, Early
  <2>3. \A g \in released' : pc'[g] \notin Early
    BY <1>1 DEF Moves, Kept, Placed, Types, Actors
  <2>4. ASSUME NEW k \in PRs, pending'[k] # None
       PROVE  PR(pending[k])' = k /\ pending'[k] \notin released' /\ pc'[pending'[k]] \in Live
    BY <1>1, <2>4 DEF Moves, Kept, Placed, Types, PR, Actors
  <2> QED
    BY <2>1, <2>2, <2>3, <2>4 DEF Placed
<1>3. Marking' = Marking
  BY <1>1 DEF Marking, Moves, Actors
<1> QED
  BY <1>2, <1>3 DEF GateCountsWork, Moves, Kept, Marking

\* A clear that takes a place gives its admission back.
LEMMA ClearsKeep ==
    ASSUME Types, Placed, GateCountsWork, NEW h \in Handles, NEW l \in PCs, Clears(h, l)
    PROVE  Placed' /\ GateCountsWork'
<1>1. \A b \in Actors : pc'[b] = IF b = h THEN l ELSE pc[b]
  BY DEF Clears, Goto, Types
<1>2. pc[h] \notin Early /\ h \in Actors
  BY DEF Clears, Live, Early, WorkerPCs, MergePCs, Actors
<1>3. Marking' = Marking
  BY <1>1, <1>2 DEF Marking, Actors, Clears, Early
<1>4. CASE UNCHANGED << pending, released, gate >> /\ \A k \in PRs : pending[k] # h
  <2>1. Placed'
    <3>1. \A b \in Actors : pc'[b] # "idle" => PR(b)' \in PRs
      BY <1>1, <1>2, <1>4 DEF Clears, Placed, PR, Early
    <3>2. \A b \in requests' : pc'[b] # "idle"
      BY <1>1, <1>2, <1>4 DEF Clears, Placed, Types, Early
    <3>3. \A g \in released' : pc'[g] \notin Early
      BY <1>1, <1>2, <1>4 DEF Clears, Placed, Types, Actors
    <3>4. ASSUME NEW k \in PRs, pending'[k] # None
         PROVE  PR(pending[k])' = k /\ pending'[k] \notin released' /\ pc'[pending'[k]] \in Live
      BY <1>1, <1>2, <1>4, <3>4 DEF Clears, Placed, Types, PR, Actors
    <3> QED
      BY <3>1, <3>2, <3>3, <3>4 DEF Placed
  <2> QED
    BY <1>3, <1>4, <2>1 DEF GateCountsWork, Clears, Marking
<1>5. CASE /\ PR(h) \in PRs /\ pending[PR(h)] = h
           /\ pending' = [pending EXCEPT ![PR(h)] = None]
           /\ released' = released \union {h}
           /\ gate' = [gate EXCEPT !.deferredMerges = @ - 1]
  <2>1. \A k \in PRs : pending'[k] = IF k = PR(h) THEN None ELSE pending[k]
    BY <1>5 DEF Types
  <2>2. Placed'
    <3>1. \A b \in Actors : pc'[b] # "idle" => PR(b)' \in PRs
      BY <1>1, <1>2, <1>5, <2>1 DEF Clears, Placed, PR, Early
    <3>2. \A b \in requests' : pc'[b] # "idle"
      BY <1>1, <1>2, <1>5, <2>1 DEF Clears, Placed, Types, Early
    <3>3. \A g \in released' : pc'[g] \notin Early
      BY <1>1, <1>2, <1>5, <2>1 DEF Clears, Placed, Types, Actors
    <3>4. ASSUME NEW k \in PRs, pending'[k] # None
         PROVE  PR(pending[k])' = k /\ pending'[k] \notin released' /\ pc'[pending'[k]] \in Live
      BY <1>1, <1>2, <1>5, <2>1, <3>4 DEF Clears, Placed, Types, PR, Actors
    <3> QED
      BY <3>1, <3>2, <3>3, <3>4 DEF Placed
  <2>3. Occupied' = Occupied \ {PR(h)} /\ PR(h) \in Occupied
    BY <1>5, <2>1, MergeAssumption DEF Occupied, Actors
  <2>4. Cardinality(Occupied') = Cardinality(Occupied) - 1
    BY <2>3, CountedAreFinite, FS_RemoveElement
  <2>5. gate'.inFlight = gate.inFlight /\ gate'.deferredMerges = gate.deferredMerges - 1
    BY <1>5 DEF Types
  <2> QED
    <3>1. gate.inFlight = Cardinality(requests)
          /\ gate.deferredMerges = Cardinality(Marking) + Cardinality(Occupied)
      BY DEF GateCountsWork, Marking, Occupied
    <3>2. gate'.inFlight = Cardinality(requests')
          /\ gate'.deferredMerges = Cardinality(Marking') + Cardinality(Occupied')
      BY <1>3, <2>4, <2>5, <3>1, CountedAreFinite DEF Clears
    <3> QED
      BY <2>2, <3>2 DEF GateCountsWork, Marking, Occupied
<1> QED
  BY <1>2, <1>4, <1>5, ClearEffect DEF Clears

\* A supersession gives the admission of the queued handle back.
LEMMA SupersedeKeeps ==
    ASSUME Types, Placed, GateCountsWork, NEW a \in Actors, MergeSupersede(a)
    PROVE  Placed' /\ GateCountsWork'
<1> DEFINE l == AfterMerge(a)
<1>1. \A b \in Actors : pc'[b] = IF b = a THEN l ELSE pc[b]
  BY DEF MergeSupersede, Goto, Types
<1>2. pc[a] = "supersede" /\ PR(a) \in PRs /\ l \notin Early /\ (a \in Handles => l \in Live)
  BY DEF MergeSupersede, Placed, AfterMerge, Early, Live, WorkerPCs
<1>3. Marking' = Marking
  BY <1>1, <1>2 DEF Marking, Actors, Early
<1>4. CASE UNCHANGED << pending, superseded, released, gate >>
  <2>1. Placed'
    <3>1. \A b \in Actors : pc'[b] # "idle" => PR(b)' \in PRs
      BY <1>1, <1>2, <1>4 DEF MergeSupersede, Placed, PR, Early
    <3>2. \A b \in requests' : pc'[b] # "idle"
      BY <1>1, <1>2, <1>4 DEF MergeSupersede, Placed, Types, Early
    <3>3. \A g \in released' : pc'[g] \notin Early
      BY <1>1, <1>2, <1>4 DEF MergeSupersede, Placed, Types, Actors
    <3>4. ASSUME NEW k \in PRs, pending'[k] # None
         PROVE  PR(pending[k])' = k /\ pending'[k] \notin released' /\ pc'[pending'[k]] \in Live
      BY <1>1, <1>2, <1>4, <3>4 DEF MergeSupersede, Placed, Types, PR, Actors
    <3> QED
      BY <3>1, <3>2, <3>3, <3>4 DEF Placed
  <2> QED
    BY <1>3, <1>4, <2>1 DEF GateCountsWork, MergeSupersede, Marking
<1>5. ASSUME NEW h \in Handles,
             pending[PR(a)] = h,
             pending' = [pending EXCEPT ![PR(a)] = None],
             released' = released \union {h},
             gate' = [gate EXCEPT !.deferredMerges = @ - 1]
      PROVE  Placed' /\ GateCountsWork'
  <2>1. \A k \in PRs : pending'[k] = IF k = PR(a) THEN None ELSE pending[k]
    BY <1>5 DEF Types
  <2>2. pc[h] \notin Early /\ \A k \in PRs : k # PR(a) => pending[k] # h
    BY <1>2, <1>5, MergeAssumption DEF Placed, Live, Early, WorkerPCs, MergePCs, Actors
  <2>3. Placed'
    <3>1. \A b \in Actors : pc'[b] # "idle" => PR(b)' \in PRs
      BY <1>1, <1>2, <1>5, <2>1, <2>2 DEF MergeSupersede, Placed, PR, Early
    <3>2. \A b \in requests' : pc'[b] # "idle"
      BY <1>1, <1>2, <1>5, <2>1, <2>2 DEF MergeSupersede, Placed, Types, Early
    <3>3. \A g \in released' : pc'[g] \notin Early
      BY <1>1, <1>2, <1>5, <2>1, <2>2 DEF MergeSupersede, Placed, Types, Actors
    <3>4. ASSUME NEW k \in PRs, pending'[k] # None
         PROVE  PR(pending[k])' = k /\ pending'[k] \notin released' /\ pc'[pending'[k]] \in Live
      <4>1. pending'[k] = pending[k] /\ k # PR(a)
        BY <2>1, <3>4
      <4>2. pending[k] \in Handles /\ pending[k] # h /\ pending[k] # None
        BY <2>2, <3>4, <4>1 DEF Types
      <4>3. /\ PR(pending[k]) = k /\ pending[k] \notin released
            /\ pc[pending[k]] \in Live
        BY <4>2 DEF Placed
      <4>4. pc'[pending[k]] \in Live /\ target' = target
        BY <1>1, <1>2, <4>2, <4>3 DEF Actors, MergeSupersede
      <4> QED
        BY <1>5, <4>1, <4>2, <4>3, <4>4 DEF PR
    <3> QED
      BY <3>1, <3>2, <3>3, <3>4 DEF Placed
  <2>4. Occupied' = Occupied \ {PR(a)} /\ PR(a) \in Occupied
    BY <1>2, <1>5, <2>1, MergeAssumption DEF Occupied, Actors
  <2>5. Cardinality(Occupied') = Cardinality(Occupied) - 1
    BY <2>4, CountedAreFinite, FS_RemoveElement
  <2>6. gate'.inFlight = gate.inFlight /\ gate'.deferredMerges = gate.deferredMerges - 1
    BY <1>5 DEF Types
  <2>7. gate.inFlight = Cardinality(requests)
        /\ gate.deferredMerges = Cardinality(Marking) + Cardinality(Occupied)
    BY DEF GateCountsWork, Marking, Occupied
  <2>8. gate'.inFlight = Cardinality(requests')
        /\ gate'.deferredMerges = Cardinality(Marking') + Cardinality(Occupied')
    BY <1>3, <2>5, <2>6, <2>7, CountedAreFinite DEF MergeSupersede
  <2> QED
    BY <2>3, <2>8 DEF GateCountsWork, Marking, Occupied
<1> QED
  BY <1>2, <1>4, <1>5, SupersedeEffect DEF MergeSupersede

\* An admitted handle is counted while it looks for its place.
LEMMA AdmitKeeps ==
    ASSUME Types, Placed, GateCountsWork, NEW h \in Handles,
           DeferAdmit(h), BeginDeferredMerge, Goto(h, "mark")
    PROVE  Placed' /\ GateCountsWork'
<1>1. \A b \in Actors : pc'[b] = IF b = h THEN "mark" ELSE pc[b]
  BY DEF Goto, Types
<1>2. pc[h] = "admit" /\ h \in Actors /\ h \notin released /\ \A k \in PRs : pending[k] # h
  BY MergeAssumption DEF DeferAdmit, Placed, Early, Live, WorkerPCs, MergePCs, Actors
<1>3. Placed'
  <2>1. \A b \in Actors : pc'[b] # "idle" => PR(b)' \in PRs
    BY <1>1, <1>2 DEF DeferAdmit, merging, Placed, PR, Early
  <2>2. \A b \in requests' : pc'[b] # "idle"
    BY <1>1, <1>2 DEF DeferAdmit, merging, Placed, Types, Early
  <2>3. \A g \in released' : pc'[g] \notin Early
    BY <1>1, <1>2 DEF DeferAdmit, merging, Placed, Types, Actors
  <2>4. ASSUME NEW k \in PRs, pending'[k] # None
       PROVE  PR(pending[k])' = k /\ pending'[k] \notin released' /\ pc'[pending'[k]] \in Live
    BY <1>1, <1>2, <2>4 DEF DeferAdmit, merging, Placed, Types, PR, Actors
  <2> QED
    BY <2>1, <2>2, <2>3, <2>4 DEF Placed
<1>4. Marking' = Marking \union {h} /\ h \notin Marking
  BY <1>1, <1>2 DEF Marking, Actors
<1>5. Cardinality(Marking') = Cardinality(Marking) + 1
  BY <1>4, CountedAreFinite, FS_AddElement
<1>6. gate'.inFlight = gate.inFlight /\ gate'.deferredMerges = gate.deferredMerges + 1
  BY DEF BeginDeferredMerge, Types
<1>7. GateCountsWork'
  <2>1. gate.inFlight = Cardinality(requests)
        /\ gate.deferredMerges = Cardinality(Marking) + Cardinality(Occupied)
    BY DEF GateCountsWork, Marking, Occupied
  <2>2. gate'.inFlight = Cardinality(requests')
        /\ gate'.deferredMerges = Cardinality(Marking') + Cardinality(Occupied')
    <3>1. requests' = requests /\ Occupied' = Occupied
      BY DEF DeferAdmit, merging, Occupied
    <3> QED
      BY <1>5, <1>6, <2>1, <3>1, CountedAreFinite
  <2> QED
    BY <2>2 DEF GateCountsWork, Marking, Occupied
<1> QED
  BY <1>3, <1>7

\* A marked handle is counted in its place, a rejected one no longer.
LEMMA MarkKeeps ==
    ASSUME Types, Placed, GateCountsWork, NEW h \in Handles, DeferMark(h)
    PROVE  Placed' /\ GateCountsWork'
<1>1. /\ pc[h] = "mark" /\ h \in Actors /\ h \notin released /\ PR(h) \in PRs
      /\ \A k \in PRs : pending[k] # h
  BY MergeAssumption DEF DeferMark, Placed, Early, Live, WorkerPCs, MergePCs, Actors
<1>2. requests' = requests /\ released' = released /\ target' = target
  BY DEF DeferMark
<1>3. gate.inFlight = Cardinality(requests)
      /\ gate.deferredMerges = Cardinality(Marking) + Cardinality(Occupied)
  BY DEF GateCountsWork, Marking, Occupied
<1>4. h # None /\ "start" \in Live /\ "start" \notin Early /\ "done" \notin Early
  BY MergeAssumption DEF Live, Early, Actors
<1>5. CASE pending[PR(h)] = None
  <2>1. \A b \in Actors : pc'[b] = IF b = h THEN "start" ELSE pc[b]
    BY <1>5 DEF DeferMark, Goto, Types
  <2>2. \A k \in PRs : pending'[k] = IF k = PR(h) THEN h ELSE pending[k]
    BY <1>5 DEF DeferMark, Types
  <2>3. Placed'
    <3>1. \A b \in Actors : pc'[b] # "idle" => PR(b)' \in PRs
      BY <1>1, <1>2, <1>4, <2>1, <2>2 DEF Placed, PR, Early
    <3>2. \A b \in requests' : pc'[b] # "idle"
      BY <1>1, <1>2, <1>4, <2>1, <2>2 DEF Placed, Types, Early
    <3>3. \A g \in released' : pc'[g] \notin Early
      BY <1>1, <1>2, <1>4, <2>1, <2>2 DEF Placed, Types, Actors
    <3>4. ASSUME NEW k \in PRs, pending'[k] # None
         PROVE  PR(pending[k])' = k /\ pending'[k] \notin released' /\ pc'[pending'[k]] \in Live
      BY <1>1, <1>2, <1>4, <2>1, <2>2, <3>4 DEF Placed, Types, PR, Actors
    <3> QED
      BY <3>1, <3>2, <3>3, <3>4 DEF Placed
  <2>4. /\ Marking' = Marking \ {h} /\ h \in Marking
        /\ Occupied' = Occupied \union {PR(h)} /\ PR(h) \notin Occupied
    BY <1>1, <1>4, <1>5, <2>1, <2>2 DEF Marking, Occupied, Actors
  <2>5. /\ Cardinality(Marking') = Cardinality(Marking) - 1
        /\ Cardinality(Occupied') = Cardinality(Occupied) + 1
    BY <2>4, CountedAreFinite, FS_AddElement, FS_RemoveElement
  <2>6. gate' = gate
    BY <1>5 DEF DeferMark
  <2>7. gate'.inFlight = Cardinality(requests')
        /\ gate'.deferredMerges = Cardinality(Marking') + Cardinality(Occupied')
    BY <1>2, <1>3, <2>5, <2>6, CountedAreFinite
  <2> QED
    BY <2>3, <2>7 DEF GateCountsWork, Marking, Occupied
<1>6. CASE pending[PR(h)] # None
  <2>1. \A b \in Actors : pc'[b] = IF b = h THEN "done" ELSE pc[b]
    BY <1>6 DEF DeferMark, Goto, Types
  <2>2. pending' = pending
    BY <1>6 DEF DeferMark
  <2>3. Placed'
    <3>1. \A b \in Actors : pc'[b] # "idle" => PR(b)' \in PRs
      BY <1>1, <1>2, <1>4, <2>1, <2>2 DEF Placed, PR, Early
    <3>2. \A b \in requests' : pc'[b] # "idle"
      BY <1>1, <1>2, <1>4, <2>1, <2>2 DEF Placed, Types, Early
    <3>3. \A g \in released' : pc'[g] \notin Early
      BY <1>1, <1>2, <1>4, <2>1, <2>2 DEF Placed, Types, Actors
    <3>4. ASSUME NEW k \in PRs, pending'[k] # None
         PROVE  PR(pending[k])' = k /\ pending'[k] \notin released' /\ pc'[pending'[k]] \in Live
      BY <1>1, <1>2, <1>4, <2>1, <2>2, <3>4 DEF Placed, Types, PR, Actors
    <3> QED
      BY <3>1, <3>2, <3>3, <3>4 DEF Placed
  <2>4. Marking' = Marking \ {h} /\ h \in Marking /\ Occupied' = Occupied
    BY <1>1, <2>1, <2>2 DEF Marking, Occupied, Actors
  <2>5. Cardinality(Marking') = Cardinality(Marking) - 1
    BY <2>4, CountedAreFinite, FS_RemoveElement
  <2>6. gate'.inFlight = gate.inFlight /\ gate'.deferredMerges = gate.deferredMerges - 1
    BY <1>6 DEF DeferMark, ReleaseDeferredMerge, Types
  <2>7. gate'.inFlight = Cardinality(requests')
        /\ gate'.deferredMerges = Cardinality(Marking') + Cardinality(Occupied')
    BY <1>2, <1>3, <2>4, <2>5, <2>6, CountedAreFinite
  <2> QED
    BY <2>3, <2>7 DEF GateCountsWork, Marking, Occupied
<1> QED
  BY <1>5, <1>6

\* A request is counted from its admission ...
LEMMA RequestKeeps ==
    ASSUME Types, Placed, GateCountsWork, NEW a \in Actors, NEW k \in PRs,
           NEW l \in {"read", "preflight"}, Request(a, k, l)
    PROVE  Placed' /\ GateCountsWork'
<1>1. \A b \in Actors : pc'[b] = IF b = a THEN l ELSE pc[b]
  BY DEF Request, Goto, Types
<1>2. /\ pc[a] = "idle" /\ a \notin requests /\ a \notin released
      /\ \A j \in PRs : pending[j] # a
  BY MergeAssumption DEF Request, Placed, Early, Live, WorkerPCs, MergePCs, Actors
<1>3. \A b \in Actors : target'[b].pr = IF b = a THEN k ELSE target[b].pr
  BY DEF Request, Types
<1>4. Placed'
  <2>1. \A b \in Actors : pc'[b] # "idle" => PR(b)' \in PRs
    BY <1>1, <1>3 DEF Placed, PR
  <2>2. \A b \in requests' : pc'[b] # "idle"
    BY <1>1 DEF Request, Placed, Types
  <2>3. \A g \in released' : pc'[g] \notin Early
    BY <1>1, <1>2 DEF Request, Placed, Types, Actors
  <2>4. ASSUME NEW j \in PRs, pending'[j] # None
        PROVE  PR(pending[j])' = j /\ pending'[j] \notin released' /\ pc'[pending'[j]] \in Live
    BY <1>1, <1>2, <1>3, <2>4 DEF Request, Placed, Types, PR, Actors
  <2> QED
    BY <2>1, <2>2, <2>3, <2>4 DEF Placed
<1>5. Cardinality(requests') = Cardinality(requests) + 1
  BY <1>2, CountedAreFinite, FS_AddElement DEF Request
<1>6. Marking' = Marking /\ Occupied' = Occupied
  BY <1>1, <1>2 DEF Marking, Occupied, Actors, Request
<1>7. gate'.inFlight = gate.inFlight + 1 /\ gate'.deferredMerges = gate.deferredMerges
  BY DEF Request, Admit, Types
<1> QED
  BY <1>4, <1>5, <1>6, <1>7 DEF GateCountsWork, Marking, Occupied

\* ... to its answer.
LEMMA RespondKeeps ==
    ASSUME Types, Placed, GateCountsWork, NEW a \in Actors, Respond(a)
    PROVE  Placed' /\ GateCountsWork'
<1>1. Placed'
  BY DEF Respond, merging, Placed, PR
<1>2. Cardinality(requests') = Cardinality(requests) - 1
  BY CountedAreFinite, FS_RemoveElement DEF Respond
<1>3. Marking' = Marking /\ Occupied' = Occupied
  BY DEF Marking, Occupied, Respond, merging
<1>4. gate'.inFlight = gate.inFlight - 1 /\ gate'.deferredMerges = gate.deferredMerges
  BY DEF Respond, Release, Types
<1> QED
  BY <1>1, <1>2, <1>3, <1>4 DEF GateCountsWork, Marking, Occupied

\* Quiescing, freezing and aborting leave the counters alone.
LEMMA PrepareKeeps ==
    ASSUME Types, Placed, GateCountsWork, Prepare
    PROVE  Placed' /\ GateCountsWork'
<1>1. gate'.inFlight = gate.inFlight /\ gate'.deferredMerges = gate.deferredMerges
  BY DEF Prepare, BeginQuiesce, Status, AbortPreparation, Types
<1> QED
  BY <1>1 DEF Prepare, others, Placed, PR, GateCountsWork

\* Every step keeps the queue in place and the count exact.
LEMMA CountStep ==
    ASSUME Types, Placed, GateCountsWork, [Next]_vars
    PROVE  Placed' /\ GateCountsWork'
<1>1. CASE Outside
  BY <1>1 DEF Outside, Kept, Placed, PR, GateCountsWork
<1> QED
  BY <1>1, Kinds, MovesKeep, ClearsKeep, AdmitKeeps, MarkKeeps, SupersedeKeeps, RequestKeeps,
     RespondKeeps, PrepareKeeps

-----------------------------------------------------------------------------
(* The phase, and the freeze. *)

\* A step admits, with the gate open; prepares; or leaves the row alone and
\* admits nothing.
LEMMA GateKinds ==
    ASSUME Types, Placed, [Next]_vars
    PROVE  \/ /\ Admits /\ UNCHANGED prep
              /\ gate'.phase = gate.phase /\ gate'.loadErr = gate.loadErr
           \/ Prepare
           \/ /\ UNCHANGED prep
              /\ gate'.phase = gate.phase /\ gate'.loadErr = gate.loadErr
              /\ gate'.inFlight <= gate.inFlight
              /\ gate'.deferredMerges <= gate.deferredMerges
<1>1. gate.inFlight \in Int /\ gate.deferredMerges \in Int
  BY DEF Types
<1>2. ASSUME UNCHANGED << gate, prep >>
      PROVE  /\ UNCHANGED prep
             /\ gate'.phase = gate.phase /\ gate'.loadErr = gate.loadErr
             /\ gate'.inFlight <= gate.inFlight
             /\ gate'.deferredMerges <= gate.deferredMerges
  BY <1>1, <1>2
<1>3. ASSUME gate' = [gate EXCEPT !.deferredMerges = @ - 1]
               \/ gate' = [gate EXCEPT !.inFlight = @ - 1]
      PROVE  /\ gate'.phase = gate.phase /\ gate'.loadErr = gate.loadErr
             /\ gate'.inFlight <= gate.inFlight
             /\ gate'.deferredMerges <= gate.deferredMerges
  BY <1>1, <1>3 DEF Types
<1>4. ASSUME NEW h \in Handles, NEW l \in PCs, Clears(h, l)
      PROVE  UNCHANGED prep /\ (UNCHANGED gate \/ gate' = [gate EXCEPT !.deferredMerges = @ - 1])
  BY <1>4 DEF Clears, Clear, Finish, ReleaseDeferredMerge
<1>5. ASSUME NEW h \in Handles, DeferAdmit(h), BeginDeferredMerge
      PROVE  Admits /\ UNCHANGED prep /\ gate'.phase = gate.phase /\ gate'.loadErr = gate.loadErr
  BY <1>5 DEF DeferAdmit, BeginDeferredMerge, Types
<1>6. ASSUME NEW h \in Handles, DeferMark(h)
      PROVE  UNCHANGED prep /\ (UNCHANGED gate \/ gate' = [gate EXCEPT !.deferredMerges = @ - 1])
  BY <1>6 DEF DeferMark, ReleaseDeferredMerge
<1>7. ASSUME NEW a \in Actors, MergeSupersede(a)
      PROVE  UNCHANGED prep /\ (UNCHANGED gate \/ gate' = [gate EXCEPT !.deferredMerges = @ - 1])
  BY <1>7 DEF MergeSupersede, SupersedePending, Finish, ReleaseDeferredMerge
<1>8. ASSUME NEW a \in Actors, NEW k \in PRs, NEW l \in {"read", "preflight"}, Request(a, k, l)
      PROVE  Admits /\ UNCHANGED prep /\ gate'.phase = gate.phase /\ gate'.loadErr = gate.loadErr
  BY <1>8 DEF Request, Admit, Types
<1>9. ASSUME NEW a \in Actors, Respond(a)
      PROVE  UNCHANGED prep /\ gate' = [gate EXCEPT !.inFlight = @ - 1]
  BY <1>9 DEF Respond, Release
<1>10. ASSUME (\E a \in Actors, l \in PCs : Moves(a, l)) \/ Outside
       PROVE  UNCHANGED << gate, prep >>
  BY <1>10 DEF Moves, Outside, Kept
<1> QED
  BY <1>2, <1>3, <1>4, <1>5, <1>6, <1>7, <1>8, <1>9, <1>10, Kinds

\* The process and the row agree after every step.
LEMMA PhaseStep ==
    ASSUME Types, Placed, Phased, [Next]_vars
    PROVE  Phased'
<1>1. CASE Prepare
  <2>1. CASE BeginQuiesce(Enrollment)
    <3>1. prep'.phase # "open"
      BY <2>1 DEF BeginQuiesce, Types
    <3>2. gate'.loadErr = FALSE /\ gate'.phase = prep'.phase
      BY <2>1 DEF BeginQuiesce, Types
    <3> QED
      BY <3>1, <3>2 DEF Phased
  <2>2. CASE Status(0)
    <3>1. prep'.phase = prep.phase
      BY <2>2 DEF Status, Types
    <3>2. gate'.loadErr = gate.loadErr /\ gate'.phase = prep.phase
      BY <2>2 DEF Status, Types
    <3>3. prep'.drain # NoGeneration => prep.phase # "open"
      BY <2>2 DEF Status, Freezes, Types, Phased
    <3> QED
      BY <3>1, <3>2, <3>3 DEF Phased
  <2>3. CASE AbortPreparation
    BY <2>3 DEF AbortPreparation, OpenRow, Types, Phased
  <2> QED
    BY <1>1, <2>1, <2>2, <2>3 DEF Prepare
<1>2. CASE UNCHANGED prep /\ gate'.phase = gate.phase /\ gate'.loadErr = gate.loadErr
  BY <1>2 DEF Phased
<1> QED
  BY <1>1, <1>2, GateKinds

\* Counted sets are finite in the next state too.
LEMMA NextCounted ==
    ASSUME Types'
    PROVE  /\ Cardinality(Marking') \in Nat /\ Cardinality(Occupied') \in Nat
           /\ Cardinality(requests') \in Nat
<1>1. IsFiniteSet(Handles)
  BY MergeAssumption, FS_Subset DEF Actors
<1>2. IsFiniteSet(Marking') /\ IsFiniteSet(Occupied') /\ IsFiniteSet(requests')
  BY <1>1, MergeAssumption, FS_Subset DEF Types, Marking, Occupied
<1> QED
  BY <1>2, FS_CardinalityType

\* A frozen generation stays that of a drained gate: nothing is admitted,
\* and counters at zero cannot fall.
LEMMA FrozenStep ==
    ASSUME Types, Placed, Phased, FrozenIsDrained, Types', GateCountsWork', [Next]_vars
    PROVE  FrozenIsDrained'
<1>1. CASE Admits /\ UNCHANGED prep
  BY <1>1 DEF Admits, Phased, FrozenIsDrained
<1>2. CASE Prepare
  <2>1. gate'.inFlight = gate.inFlight /\ gate'.deferredMerges = gate.deferredMerges
    <3>0. gate \in [phase : Phases, inFlight : Int, deferredMerges : Int, loadErr : BOOLEAN]
      BY DEF Types
    <3>1. CASE gate' = [gate EXCEPT !.loadErr = FALSE, !.phase = prep'.phase]
      BY <3>0, <3>1
    <3>2. CASE gate' = [gate EXCEPT !.loadErr = FALSE, !.phase = "open"]
      BY <3>0, <3>2
    <3>3. CASE gate' = [gate EXCEPT !.phase = prep.phase]
      BY <3>0, <3>3
    <3> QED
      BY <1>2, <3>1, <3>2, <3>3 DEF Prepare, BeginQuiesce, Status, AbortPreparation
  <2>2. CASE BeginQuiesce(Enrollment)
    <3>1. prep' = prep \/ prep'.drain = NoGeneration
      BY <2>2 DEF BeginQuiesce
    <3> QED
      BY <2>1, <3>1 DEF FrozenIsDrained
  <2>3. CASE Status(0)
    <3>1. prep' = prep \/ (gate.inFlight = 0 /\ gate.deferredMerges = 0)
      BY <2>3 DEF Status, Freezes
    <3> QED
      BY <2>1, <3>1 DEF FrozenIsDrained
  <2>4. CASE AbortPreparation
    BY <2>4 DEF AbortPreparation, OpenRow, FrozenIsDrained
  <2> QED
    BY <1>2, <2>2, <2>3, <2>4 DEF Prepare
<1>3. CASE /\ UNCHANGED prep
           /\ gate'.inFlight <= gate.inFlight
           /\ gate'.deferredMerges <= gate.deferredMerges
  <2>1. gate'.inFlight >= 0 /\ gate'.deferredMerges >= 0
    <3>1. /\ gate'.inFlight = Cardinality(requests')
          /\ gate'.deferredMerges = Cardinality(Marking') + Cardinality(Occupied')
      BY DEF GateCountsWork, Marking, Occupied
    <3> QED
      BY <3>1, NextCounted
  <2>2. gate'.inFlight \in Int /\ gate'.deferredMerges \in Int
    BY DEF Types
  <2> QED
    BY <1>3, <2>1, <2>2 DEF FrozenIsDrained
<1> QED
  BY <1>1, <1>2, <1>3, GateKinds

-----------------------------------------------------------------------------
(* Types. *)

GateType == [phase : Phases, inFlight : Int, deferredMerges : Int, loadErr : BOOLEAN]
ProvType == [PRs -> [state : States, head : 1 .. MaxHead, base : 1 .. MaxBase,
                     by : Actors \union {None, "elsewhere"}]]
TargetType == [Actors -> [pr : PRs \union {None}, head : 0 .. MaxHead, bound : 0 .. MaxHead,
                          base : 0 .. MaxBase]]

\* What a clear leaves behind has its type ...
LEMMA ClearTypes ==
    ASSUME Types, NEW h \in Handles, Clear(h)
    PROVE  /\ pending' \in [PRs -> Handles \union {None}]
           /\ released' \subseteq Handles /\ gate' \in GateType
<1>1. gate \in GateType /\ [gate EXCEPT !.deferredMerges = @ - 1] \in GateType
  BY DEF Types, GateType
<1>2. gate' \in GateType
  BY <1>1 DEF Clear, Finish, ReleaseDeferredMerge
<1>3. pending' \in [PRs -> Handles \union {None}]
  BY DEF Clear, Types
<1>4. released' \subseteq Handles
  BY DEF Clear, Finish, Types
<1> QED
  BY <1>2, <1>3, <1>4

\* ... and so has what a supersession leaves.
LEMMA SupersedeTypes ==
    ASSUME Types, NEW k \in PRs, SupersedePending(k)
    PROVE  /\ pending' \in [PRs -> Handles \union {None}]
           /\ released' \subseteq Handles /\ superseded' \subseteq Handles
           /\ gate' \in GateType
<1>1. gate \in GateType /\ [gate EXCEPT !.deferredMerges = @ - 1] \in GateType
  BY DEF Types, GateType
<1>2. gate' \in GateType
  BY <1>1 DEF SupersedePending, Finish, ReleaseDeferredMerge
<1>3. pending' \in [PRs -> Handles \union {None}]
  BY DEF SupersedePending, Types
<1>4. released' \subseteq Handles /\ superseded' \subseteq Handles
  BY DEF SupersedePending, Finish, Types
<1> QED
  BY <1>2, <1>3, <1>4

\* Every step keeps the types.
LEMMA TypesStep ==
    ASSUME Types, Placed, [Next]_vars
    PROVE  Types'
<1>1. ASSUME NEW a \in Actors, NEW k \in PRs, NEW l \in {"read", "preflight"}, Request(a, k, l)
      PROVE  Types'
  <2>1. gate' \in GateType
    BY <1>1 DEF Request, Admit, Types, GateType
  <2>2. pc' \in [Actors -> PCs]
    BY <1>1 DEF Request, Goto, Types, PCs, RequestPCs, MergePCs
  <2>3. row[k].head \in 0 .. MaxHead /\ 0 \in 0 .. MaxHead /\ 0 \in 0 .. MaxBase
    BY MergeAssumption DEF Types, Snapshots
  <2>4. target' \in TargetType
    <3> DEFINE new == [pr |-> k, head |-> row[k].head, bound |-> 0, base |-> 0]
    <3>1. new \in [pr : PRs \union {None}, head : 0 .. MaxHead, bound : 0 .. MaxHead,
                   base : 0 .. MaxBase]
      BY <2>3
    <3>2. target' = [target EXCEPT ![a] = new]
      BY <1>1 DEF Request
    <3> HIDE DEF new
    <3> QED
      BY <3>1, <3>2 DEF Types, TargetType
  <2> QED
    BY <1>1, <2>1, <2>2, <2>4 DEF Request, Types, GateType, TargetType
<1>2. ASSUME NEW a \in Actors, Respond(a)
      PROVE  Types'
  <2>1. gate' \in GateType
    BY <1>2 DEF Respond, Release, Types, GateType
  <2> QED
    BY <1>2, <2>1 DEF Respond, merging, Types, GateType
<1>3. ASSUME NEW h \in Handles, Defer(h)
      PROVE  Types'
  <2>1. h \in Actors /\ {"done", "mark", "start", "admit", "refreshKeys", "refresh"} \subseteq PCs
    BY DEF Actors, PCs, RequestPCs, WorkerPCs
  <2>2. pc' \in [Actors -> PCs]
    BY <1>3, <2>1 DEF Defer, DeferRead, DeferRefresh, DeferAdmit, DeferMark, DeferStart, Goto, Types
  <2>3. CASE DeferRead(h)
    <3>1. PR(h) \in PRs
      BY <2>1, <2>3 DEF DeferRead, Placed
    <3>2. row[PR(h)].head \in 0 .. MaxHead /\ row[PR(h)].base \in 0 .. MaxBase
      BY <3>1, MergeAssumption DEF Types, Snapshots
    <3>3. target' \in TargetType
      <4> DEFINE new == [target[h] EXCEPT !.bound = row[PR(h)].head, !.base = row[PR(h)].base]
      <4>1. new \in [pr : PRs \union {None}, head : 0 .. MaxHead, bound : 0 .. MaxHead,
                     base : 0 .. MaxBase]
        <5>1. target[h] \in [pr : PRs \union {None}, head : 0 .. MaxHead, bound : 0 .. MaxHead,
                             base : 0 .. MaxBase]
          BY <2>1 DEF Types
        <5> QED
          BY <3>2, <5>1
      <4>2. target' = target \/ target' = [target EXCEPT ![h] = new]
        BY <2>3 DEF DeferRead, Types
      <4> HIDE DEF new
      <4> QED
        BY <2>1, <4>1, <4>2 DEF Types, TargetType
    <3> QED
      BY <2>2, <2>3, <3>3 DEF DeferRead, Types, TargetType
  <2>4. CASE DeferRefresh(h)
    BY <2>2, <2>4 DEF DeferRefresh, merging, Types
  <2>5. CASE DeferAdmit(h)
    <3>1. gate' \in GateType
      BY <2>5 DEF DeferAdmit, BeginDeferredMerge, Types, GateType
    <3> QED
      BY <2>2, <2>5, <3>1 DEF DeferAdmit, merging, Types, GateType
  <2>6. CASE DeferMark(h)
    <3>1. gate' \in GateType
      BY <2>6 DEF DeferMark, ReleaseDeferredMerge, Types, GateType
    <3>2. pending' \in [PRs -> Handles \union {None}]
      BY <2>6 DEF DeferMark, Types
    <3> QED
      BY <2>2, <2>6, <3>1, <3>2 DEF DeferMark, Types, GateType
  <2>7. CASE DeferStart(h)
    <3>1. /\ pending' \in [PRs -> Handles \union {None}]
          /\ released' \subseteq Handles /\ gate' \in GateType
      BY <2>7, ClearTypes DEF DeferStart, Types, GateType
    <3> QED
      BY <2>2, <2>7, <3>1 DEF DeferStart, Types, GateType
  <2> QED
    BY <1>3, <2>3, <2>4, <2>5, <2>6, <2>7 DEF Defer
<1>4. ASSUME NEW h \in Handles, Work(h)
      PROVE  Types'
  <2>1. PICK l \in PCs : Goto(h, l)
    BY <1>4, WorkKinds DEF Moves, Clears
  <2>2. pc' \in [Actors -> PCs]
    BY <2>1 DEF Goto, Types
  <2>3. CASE \E from, labels : Step(h, from, labels)
    BY <2>2, <2>3 DEF Step, merging, Types
  <2>4. CASE ClearMerged(h) \/ FailureClear(h) \/ Exit(h)
    <3>1. /\ pending' \in [PRs -> Handles \union {None}]
          /\ released' \subseteq Handles /\ gate' \in GateType
      BY <2>4, ClearTypes DEF ClearMerged, FailureClear, Exit
    <3> QED
      BY <2>2, <2>4, <3>1 DEF ClearMerged, FailureClear, Exit, Types, GateType
  <2>5. CASE AnnounceMerged(h) \/ AnnounceFailed(h)
    BY <2>2, <2>5 DEF AnnounceMerged, AnnounceFailed, Announce, merging, Types
  <2>6. CASE \/ RefreshRow(h) \/ RefreshCI(h) \/ Tick(h) \/ WaitTimeout(h) \/ WaitDone(h)
             \/ EnsureRow(h) \/ EnsureProvider(h) \/ FailureCheck(h)
    BY <2>3, <2>6 DEF RefreshRow, RefreshCI, Tick, WaitTimeout, WaitDone, EnsureRow, EnsureProvider,
                      FailureCheck
  <2> QED
    BY <1>4, <2>4, <2>5, <2>6 DEF Work
<1>5. ASSUME NEW a \in Actors, Merge(a)
      PROVE  Types'
  <2>1. PR(a) \in PRs
    BY <1>5 DEF Merge, MergePreflight, MergeCall, MergeSync, MergeSupersede, Placed
  <2>2. CASE MergeSupersede(a)
    <3>1. pc' \in [Actors -> PCs]
      BY <2>2 DEF MergeSupersede, AfterMerge, Goto, Types, PCs, WorkerPCs
    <3>2. /\ pending' \in [PRs -> Handles \union {None}]
          /\ released' \subseteq Handles /\ superseded' \subseteq Handles
          /\ gate' \in GateType
      BY <2>1, <2>2, SupersedeTypes DEF MergeSupersede
    <3> QED
      BY <2>2, <3>1, <3>2 DEF MergeSupersede, Types, GateType
  <2>3. CASE \E l \in PCs : Moves(a, l)
    <3>1. pc' \in [Actors -> PCs]
      BY <2>3 DEF Moves, Goto, Types
    <3>2. CASE MergePreflight(a)
      <4>1. target' \in TargetType
        <5> DEFINE new == [target[a] EXCEPT !.bound = row[PR(a)].head]
        <5>1. row[PR(a)].head \in 0 .. MaxHead
          BY <2>1, MergeAssumption DEF Types, Snapshots
        <5>2. new \in [pr : PRs \union {None}, head : 0 .. MaxHead, bound : 0 .. MaxHead,
                       base : 0 .. MaxBase]
          <6>1. target[a] \in [pr : PRs \union {None}, head : 0 .. MaxHead, bound : 0 .. MaxHead,
                               base : 0 .. MaxBase]
            BY DEF Types
          <6> QED
            BY <5>1, <6>1
        <5>3. target' = target \/ target' = [target EXCEPT ![a] = new]
          BY <3>2 DEF MergePreflight, Types
        <5> HIDE DEF new
        <5> QED
          BY <5>2, <5>3 DEF Types, TargetType
      <4> QED
        BY <3>1, <3>2, <4>1 DEF MergePreflight, Types, TargetType
    <3>3. CASE MergeCall(a)
      <4>1. prov' \in ProvType
        <5>1. CASE prov' = prov
          BY <5>1 DEF Types, ProvType
        <5>2. CASE prov' = [prov EXCEPT ![PR(a)].state = "merged", ![PR(a)].by = a]
          <6>1. prov[PR(a)] \in [state : States, head : 1 .. MaxHead, base : 1 .. MaxBase,
                                  by : Actors \union {None, "elsewhere"}]
            BY <2>1 DEF Types
          <6>2. [prov[PR(a)] EXCEPT !.state = "merged", !.by = a]
                  \in [state : States, head : 1 .. MaxHead, base : 1 .. MaxBase,
                       by : Actors \union {None, "elsewhere"}]
            BY <6>1 DEF States
          <6> QED
            BY <2>1, <5>2, <6>2 DEF Types, ProvType
        <5> QED
          BY <3>3, <5>1, <5>2 DEF MergeCall
      <4> QED
        BY <3>1, <3>3, <4>1 DEF MergeCall, Types, ProvType
    <3>4. CASE MergeSync(a)
      <4>1. row' \in [PRs -> Snapshots]
        <5>1. Snapshot(PR(a)) \in Snapshots
          BY <2>1 DEF Types, Snapshot, Snapshots
        <5> QED
          BY <2>1, <3>4, <5>1 DEF MergeSync, Types
      <4> QED
        BY <3>1, <3>4, <4>1 DEF MergeSync, Types
    <3> QED
      BY <1>5, <2>2, <3>2, <3>3, <3>4 DEF Merge
  <2> QED
    BY <1>5, <2>2, <2>3, MergeKinds
<1>6. ASSUME NEW k \in PRs, ProviderMoves(k)
      PROVE  Types'
  <2>1. prov' \in ProvType
    <3>1. prov[k] \in [state : States, head : 1 .. MaxHead, base : 1 .. MaxBase,
                       by : Actors \union {None, "elsewhere"}]
      BY DEF Types
    <3>2. \E r \in [state : States, head : 1 .. MaxHead, base : 1 .. MaxBase,
                    by : Actors \union {None, "elsewhere"}] : prov' = [prov EXCEPT ![k] = r]
      <4>1. CASE prov[k].head < MaxHead /\ prov' = [prov EXCEPT ![k].head = @ + 1]
        <5>1. [prov[k] EXCEPT !.head = @ + 1] \in [state : States, head : 1 .. MaxHead,
                 base : 1 .. MaxBase, by : Actors \union {None, "elsewhere"}]
          BY <3>1, <4>1, MergeAssumption
        <5> QED
          BY <4>1, <5>1
      <4>2. CASE prov[k].base < MaxBase /\ prov' = [prov EXCEPT ![k].base = @ + 1]
        <5>1. [prov[k] EXCEPT !.base = @ + 1] \in [state : States, head : 1 .. MaxHead,
                 base : 1 .. MaxBase, by : Actors \union {None, "elsewhere"}]
          BY <3>1, <4>2, MergeAssumption
        <5> QED
          BY <4>2, <5>1
      <4>3. CASE \E x \in States : prov' = [prov EXCEPT ![k].state = x]
        BY <3>1, <4>3
      <4>4. CASE prov' = [prov EXCEPT ![k].state = "merged", ![k].by = "elsewhere"]
        <5>1. [prov[k] EXCEPT !.state = "merged", !.by = "elsewhere"] \in [state : States,
                 head : 1 .. MaxHead, base : 1 .. MaxBase, by : Actors \union {None, "elsewhere"}]
          BY <3>1 DEF States
        <5>2. prov' = [prov EXCEPT ![k] = [prov[k] EXCEPT !.state = "merged", !.by = "elsewhere"]]
          BY <4>4 DEF Types
        <5> QED
          BY <5>1, <5>2
      <4> QED
        BY <1>6, <4>1, <4>2, <4>3, <4>4 DEF ProviderMoves, States
    <3> QED
      BY <3>2 DEF Types, ProvType
  <2> QED
    BY <1>6, <2>1 DEF ProviderMoves, others, Types, ProvType
<1>7. ASSUME NEW k \in PRs, Sync(k)
      PROVE  Types'
  <2>1. row' \in [PRs -> Snapshots]
    BY <1>7 DEF Sync, Types, Snapshot, Snapshots
  <2> QED
    BY <1>7, <2>1 DEF Sync, others, Types
<1>8. CASE Prepare
  <2>1. gate' \in GateType
    <3>1. gate \in GateType /\ prep.phase \in Phases
      BY DEF Types, GateType
    <3>2. "open" \in Phases /\ "quiescing" \in Phases
      BY DEF Phases
    <3>3. \E x \in Phases : \/ gate' = [gate EXCEPT !.loadErr = FALSE, !.phase = x]
                             \/ gate' = [gate EXCEPT !.phase = x]
      <4>1. CASE BeginQuiesce(Enrollment)
        <5>1. prep'.phase \in Phases
          BY <4>1, <3>1, <3>2 DEF BeginQuiesce
        <5>2. gate' = [gate EXCEPT !.loadErr = FALSE, !.phase = prep'.phase]
          BY <4>1 DEF BeginQuiesce
        <5> QED
          BY <5>1, <5>2
      <4>2. CASE Status(0)
        BY <4>2, <3>1 DEF Status
      <4>3. CASE AbortPreparation
        BY <4>3, <3>2 DEF AbortPreparation
      <4> QED
        BY <1>8, <4>1, <4>2, <4>3 DEF Prepare
    <3> QED
      BY <3>1, <3>3 DEF GateType
  <2>2. prep' \in [phase : Phases, enrollment : {NoEnrollment, Enrollment},
                   drain : {NoGeneration, 0}, seal : {NoSeal}]
    BY <1>8 DEF Prepare, BeginQuiesce, Status, AbortPreparation, OpenRow, Types, Phases
  <2> QED
    BY <1>8, <2>1, <2>2 DEF Prepare, others, Types, GateType
<1>9. CASE Shutdown \/ UNCHANGED vars
  BY <1>9 DEF Shutdown, others, vars, Types
<1> QED
  BY <1>1, <1>2, <1>3, <1>4, <1>5, <1>6, <1>7, <1>8, <1>9 DEF Next, Actors

-----------------------------------------------------------------------------
(* The theorems. *)

\* Every step keeps the inductive invariant.
LEMMA GateInvStep == GateInv /\ [Next]_vars => GateInv'
<1> SUFFICES ASSUME GateInv, [Next]_vars PROVE GateInv'
  OBVIOUS
<1>1. Types /\ Placed /\ GateCountsWork /\ Phased /\ FrozenIsDrained
  BY DEF GateInv
<1>2. Types'
  BY <1>1, TypesStep
<1>3. Placed' /\ GateCountsWork'
  BY <1>1, CountStep
<1>4. Phased'
  BY <1>1, PhaseStep
<1>5. FrozenIsDrained'
  BY <1>1, <1>2, <1>3, FrozenStep
<1> QED
  BY <1>2, <1>3, <1>4, <1>5 DEF GateInv

\* The inductive invariant holds in every reachable state: what the gate counts,
\* where each actor's step puts it and which phases the gate and the row may be
\* in together.
LEMMA GateInvAlways == Spec => []GateInv
  BY InitGateInv, GateInvStep, PTL DEF Spec

\* Variables keep their types, and the gate's counters never fall below zero.
THEOREM TypeCorrect == Spec => []TypeOK
<1>1. GateInv => TypeOK
  <2> SUFFICES ASSUME GateInv PROVE TypeOK
    OBVIOUS
  <2>1. /\ gate.inFlight = Cardinality(requests)
        /\ gate.deferredMerges = Cardinality(Marking) + Cardinality(Occupied)
    BY DEF GateInv, GateCountsWork, Marking, Occupied
  <2>2. gate.inFlight \in Nat /\ gate.deferredMerges \in Nat
    BY <2>1, CountedAreFinite DEF GateInv
  <2>3. gate \in GateTypes
    BY <2>2 DEF GateInv, Types, GateTypes
  <2> QED
    BY <2>3 DEF GateInv, Types, TypeOK
<1> QED
  BY <1>1, GateInvAlways, PTL

\* The gate counts exactly the admitted work: no admission leaks and none is
\* released twice, over rejection, shutdown, clear and supersession.
THEOREM GateCountsExactly == Spec => []GateCountsWork
<1>1. GateInv => GateCountsWork
  BY DEF GateInv
<1> QED
  BY <1>1, GateInvAlways, PTL

\* The acknowledgement generation is frozen only once all admitted work has
\* drained, and nothing is admitted while it is.
THEOREM FrozenAfterDrain == Spec => []FrozenIsDrained
<1>1. GateInv => FrozenIsDrained
  BY DEF GateInv
<1> QED
  BY <1>1, GateInvAlways, PTL
-----------------------------------------------------------------------------
(* What is merged, by whom, and what the queue knows of it. *)

\* A merge that is about to be made is bound to the head its client rendered.
BoundIsReviewed == \A a \in Actors : pc[a] = "merge" => target[a].bound = target[a].head

\* A merge of the daemon is that of an actor at its own target, at the
\* head it was asked for.
MergedBy ==
    \A k \in PRs : prov[k].by \in Actors =>
      /\ prov[k].state = "merged"
      /\ pc[prov[k].by] # "idle"
      /\ PR(prov[k].by) = k
      /\ prov[k].head = target[prov[k].by].head

\* Only the actor whose merge landed syncs, supersedes, clears and announces.
Landed == \A a \in Actors : pc[a] \in AfterMergePCs => prov[PR(a)].by = a

Announced == \A h \in Handles : event[h] = "merged" => pc[h] # "idle" /\ prov[PR(h)].by = h

\* Who is superseded can merge nothing any more.
SupersededIsMerged == \A h \in superseded : pc[h] # "idle" /\ prov[PR(h)].state = "merged"

\* The gate counts an immediate merge until it is done.
ImmediatesAreRequests == \A i \in Immediates : pc[i] \notin {"idle", "done"} => i \in requests

MergeInv ==
    /\ GateInv /\ BoundIsReviewed /\ MergedBy /\ Landed /\ Announced /\ SupersededIsMerged
    /\ LiveWorkerIsPending /\ ImmediatesAreRequests

\* What actors were asked to merge is set by requests, the reading of the row
\* and the preflight.
LEMMA TargetSteps ==
    ASSUME [Next]_vars
    PROVE  \/ target' = target
           \/ \E h \in Handles : DeferRead(h)
           \/ \E b \in Actors : MergePreflight(b)
           \/ \E b \in Actors, k \in PRs, l \in {"read", "preflight"} : Request(b, k, l)
<1>1. ASSUME NEW h \in Handles, Defer(h)
      PROVE  target' = target \/ DeferRead(h)
  BY <1>1 DEF Defer, DeferRefresh, DeferAdmit, DeferMark, DeferStart, merging
<1>2. ASSUME NEW h \in Handles, Work(h)
      PROVE  target' = target
  BY <1>2 DEF Work, RefreshRow, RefreshCI, Tick, WaitTimeout, WaitDone, EnsureRow, EnsureProvider,
              FailureCheck, ClearMerged, FailureClear, Exit, AnnounceMerged, AnnounceFailed,
              Announce, Step, merging
<1>3. ASSUME NEW b \in Actors, Merge(b) \/ Respond(b)
      PROVE  target' = target \/ MergePreflight(b)
  BY <1>3 DEF Merge, MergeCall, MergeSync, MergeSupersede, Respond, merging
<1>4. ASSUME \/ \E k \in PRs : ProviderMoves(k) \/ Sync(k)
             \/ Shutdown \/ Prepare \/ UNCHANGED vars
      PROVE  target' = target
  BY <1>4 DEF ProviderMoves, Sync, Shutdown, Prepare, others, vars
<1> QED
  BY <1>1, <1>2, <1>3, <1>4 DEF Next, Actors

\* An actor that was asked for a merge keeps its pull request and its head.
LEMMA TargetStays ==
    ASSUME Types, Placed, [Next]_vars, NEW a \in Actors, pc[a] # "idle"
    PROVE  pc'[a] # "idle" /\ PR(a)' = PR(a) /\ target'[a].head = target[a].head
<1>1. ASSUME NEW b \in Actors, NEW l \in PCs, Moves(b, l)
      PROVE  pc'[a] # "idle"
  BY <1>1 DEF Moves, Goto, Types
<1>2. ASSUME NEW h \in Handles, NEW l \in PCs, Clears(h, l)
      PROVE  pc'[a] # "idle"
  BY <1>2 DEF Clears, Early, Goto, Types
<1>3. ASSUME NEW h \in Handles, (DeferAdmit(h) /\ Goto(h, "mark")) \/ DeferMark(h)
      PROVE  pc'[a] # "idle"
  BY <1>3 DEF DeferMark, Goto, Types
<1>4. ASSUME NEW b \in Actors, MergeSupersede(b)
      PROVE  pc'[a] # "idle"
  BY <1>4 DEF MergeSupersede, AfterMerge, Goto, Types
<1>5. ASSUME NEW b \in Actors, NEW k \in PRs, NEW l \in {"read", "preflight"}, Request(b, k, l)
      PROVE  pc'[a] # "idle" /\ target'[a] = target[a]
  BY <1>5 DEF Request, Goto, Types
<1>6. ASSUME (\E b \in Actors : Respond(b)) \/ Prepare \/ Outside
      PROVE  pc'[a] # "idle"
  BY <1>6 DEF Respond, Prepare, Outside, others
<1>7. ASSUME NEW h \in Handles, DeferRead(h)
      PROVE  target'[a].pr = target[a].pr /\ target'[a].head = target[a].head
  BY <1>7, ReadKeepsTarget
<1>8. ASSUME NEW b \in Actors, MergePreflight(b)
      PROVE  target'[a].pr = target[a].pr /\ target'[a].head = target[a].head
  BY <1>8 DEF MergePreflight, Types
<1>9. pc'[a] # "idle"
  BY <1>1, <1>2, <1>3, <1>4, <1>5, <1>6, Kinds
<1> QED
  BY <1>5, <1>7, <1>8, <1>9, TargetSteps DEF PR

\* A merge is bound by the preflight, and stays bound until it is made.
LEMMA BoundStep ==
    ASSUME Types, Placed, BoundIsReviewed, [Next]_vars
    PROVE  BoundIsReviewed'
<1> SUFFICES ASSUME NEW a \in Actors, pc'[a] = "merge"
             PROVE  target'[a].bound = target'[a].head
  BY DEF BoundIsReviewed
<1>1. CASE pc[a] = "merge"
  <2>1. target'[a] = target[a]
    BY <1>1, TargetSteps DEF DeferRead, MergePreflight, Request, Types
  <2> QED
    BY <1>1, <2>1 DEF BoundIsReviewed
<1>2. CASE pc[a] # "merge"
  <2>1. ASSUME NEW b \in Actors, NEW l \in PCs, Moves(b, l)
        PROVE  Binds(a)
    BY <1>2, <2>1 DEF Moves, Goto, Types
  <2>2. ASSUME NEW h \in Handles, NEW l \in PCs, Clears(h, l)
        PROVE  FALSE
    BY <1>2, <2>2 DEF Clears, Goto, Types
  <2>3. ASSUME NEW h \in Handles, Goto(h, "mark") \/ DeferMark(h)
        PROVE  FALSE
    BY <1>2, <2>3 DEF DeferMark, Goto, Types
  <2>4. ASSUME NEW b \in Actors, MergeSupersede(b)
        PROVE  FALSE
    BY <1>2, <2>4 DEF MergeSupersede, AfterMerge, Goto, Types
  <2>5. ASSUME NEW b \in Actors, NEW k \in PRs, NEW l \in {"read", "preflight"}, Request(b, k, l)
        PROVE  FALSE
    BY <1>2, <2>5 DEF Request, Goto, Types
  <2>6. ASSUME (\E b \in Actors : Respond(b)) \/ Prepare \/ Outside
        PROVE  FALSE
    BY <1>2, <2>6 DEF Respond, Prepare, Outside, others
  <2> QED
    BY <2>1, <2>2, <2>3, <2>4, <2>5, <2>6, Kinds DEF Binds
<1> QED
  BY <1>1, <1>2

\* A merged pull request stays as it is, and the daemon's name comes to one
\* only when its merge lands.
LEMMA ProvStep ==
    ASSUME Types, Placed, [Next]_vars, NEW k \in PRs
    PROVE  /\ prov[k].state = "merged" =>
                /\ prov'[k].state = "merged"
                /\ prov'[k].by = prov[k].by
                /\ prov'[k].head = prov[k].head
           /\ \/ prov'[k].by = prov[k].by
              \/ prov'[k].by = "elsewhere"
              \/ \E a \in Actors : PR(a) = k /\ Lands(a)
<1>1. CASE prov' = prov
  BY <1>1
<1>3. ASSUME NEW j \in PRs, ProviderMoves(j)
      PROVE  /\ prov[k].state = "merged" => prov'[k] = prov[k]
             /\ prov'[k].by = prov[k].by \/ prov'[k].by = "elsewhere"
  <2>1. prov[k] \in [state : States, head : 1 .. MaxHead, base : 1 .. MaxBase,
                     by : Actors \union {None, "elsewhere"}]
    BY DEF Types
  <2> QED
    BY <1>3, <2>1 DEF ProviderMoves, Types
<1>4. \/ prov' = prov
      \/ \E a \in Actors : MergeCall(a)
      \/ \E j \in PRs : ProviderMoves(j)
  <2>1. ASSUME NEW h \in Handles, Defer(h)
        PROVE  prov' = prov
    BY <2>1 DEF Defer, DeferRead, DeferRefresh, DeferAdmit, DeferMark, DeferStart, merging
  <2>2. ASSUME NEW h \in Handles, Work(h)
        PROVE  prov' = prov
    BY <2>2 DEF Work, RefreshRow, RefreshCI, Tick, WaitTimeout, WaitDone, EnsureRow, EnsureProvider,
                FailureCheck, ClearMerged, FailureClear, Exit, AnnounceMerged, AnnounceFailed,
                Announce, Step, merging
  <2>3. ASSUME NEW b \in Actors, Merge(b) \/ Respond(b)
        PROVE  prov' = prov \/ MergeCall(b)
    BY <2>3 DEF Merge, MergePreflight, MergeSync, MergeSupersede, Respond, merging
  <2>4. ASSUME \/ \E j \in PRs : Sync(j)
               \/ \E b \in Actors, j \in PRs, l \in {"read", "preflight"} : Request(b, j, l)
               \/ Shutdown \/ Prepare \/ UNCHANGED vars
        PROVE  prov' = prov
    BY <2>4 DEF Sync, Request, Shutdown, Prepare, others, vars
  <2> QED
    BY <2>1, <2>2, <2>3, <2>4 DEF Next, Actors
<1>2. ASSUME NEW a \in Actors, MergeCall(a)
      PROVE  /\ prov[k].state = "merged" => prov'[k] = prov[k]
             /\ prov'[k].by = prov[k].by \/ (PR(a) = k /\ Lands(a))
  <2>1. CASE UNCHANGED prov
    BY <2>1
  <2>2. CASE PR(a) = k /\ Lands(a)
    BY <2>2 DEF Lands, ProviderMerges
  <2> QED
    BY <1>2, <2>1, <2>2, MergeCallEffect
<1> QED
  BY <1>1, <1>2, <1>3, <1>4

\* Who merged a pull request is at its own target, at the head asked for.
LEMMA MergedByStep ==
    ASSUME Types, Placed, MergedBy, BoundIsReviewed, [Next]_vars
    PROVE  MergedBy'
<1> DEFINE At(k, a) ==
             /\ prov[k].state = "merged"
             /\ pc[a] # "idle" /\ PR(a) = k
             /\ prov[k].head = target[a].head
<1> SUFFICES ASSUME NEW k \in PRs, NEW a \in Actors, prov'[k].by = a
             PROVE  At(k, a)'
  BY DEF MergedBy, PR
<1>1. CASE prov[k].by = a
  <2>1. At(k, a)
    BY <1>1 DEF MergedBy
  <2> QED
    BY <2>1, ProvStep, TargetStays
<1>2. ASSUME NEW b \in Actors, PR(b) = k, Lands(b)
      PROVE  At(k, a)'
  <2>1. a = b /\ pc[a] = "merge" /\ prov[k].head = target[a].head
    BY <1>2 DEF Lands, MergeCall, ProviderMerges, BoundIsReviewed
  <2>2. pc'[a] # "idle" /\ PR(a)' = k /\ target'[a].head = target[a].head
    BY <1>2, <2>1, TargetStays
  <2> QED
    BY <1>2, <2>1, <2>2 DEF Lands
<1> QED
  BY <1>1, <1>2, ProvStep, MergeAssumption

\* Places after a merge are reached by landing one.
LEMMA AfterMergeStep ==
    ASSUME Types, Placed, [Next]_vars, NEW a \in Actors, pc'[a] \in AfterMergePCs
    PROVE  pc[a] \in AfterMergePCs \/ Lands(a)
<1>1. ASSUME NEW b \in Actors, NEW l \in PCs, Moves(b, l)
      PROVE  pc[a] \in AfterMergePCs \/ Lands(a)
  BY <1>1 DEF Moves, Goto, Types
<1>2. ASSUME NEW h \in Handles, NEW l \in PCs, Clears(h, l)
      PROVE  pc[a] \in AfterMergePCs
  BY <1>2 DEF Clears, Goto, Types
<1>3. ASSUME NEW h \in Handles, Goto(h, "mark") \/ DeferMark(h)
      PROVE  pc[a] \in AfterMergePCs
  BY <1>3 DEF DeferMark, Goto, Types, AfterMergePCs
<1>4. ASSUME NEW b \in Actors, MergeSupersede(b)
      PROVE  pc[a] \in AfterMergePCs
  BY <1>4 DEF MergeSupersede, Goto, Types, AfterMergePCs
<1>5. ASSUME NEW b \in Actors, NEW k \in PRs, NEW l \in {"read", "preflight"}, Request(b, k, l)
      PROVE  pc[a] \in AfterMergePCs
  BY <1>5 DEF Request, Goto, Types, AfterMergePCs
<1>6. ASSUME (\E b \in Actors : Respond(b)) \/ Prepare \/ Outside
      PROVE  pc[a] \in AfterMergePCs
  BY <1>6 DEF Respond, Prepare, Outside, others
<1> QED
  BY <1>1, <1>2, <1>3, <1>4, <1>5, <1>6, Kinds

\* A merge that landed stays that actor's.
LEMMA LandedStep ==
    ASSUME Types, Placed, MergedBy, Landed, [Next]_vars
    PROVE  Landed'
<1> SUFFICES ASSUME NEW a \in Actors, pc'[a] \in AfterMergePCs
             PROVE  prov'[PR(a)'].by = a
  BY DEF Landed, PR
<1>1. CASE pc[a] \in AfterMergePCs
  <2>1. pc[a] # "idle" /\ PR(a) \in PRs /\ prov[PR(a)].by = a
    BY <1>1 DEF AfterMergePCs, Placed, Landed
  <2> QED
    BY <2>1, ProvStep, TargetStays DEF MergedBy
<1>2. CASE Lands(a)
  <2>1. pc[a] # "idle"
    BY <1>2 DEF Lands, MergeCall
  <2> QED
    BY <1>2, <2>1, TargetStays DEF Lands
<1> QED
  BY <1>1, <1>2, AfterMergeStep

\* Success is announced from the place a landed merge leads to.
LEMMA AnnouncedStep ==
    ASSUME Types, Placed, MergedBy, Landed, Announced, [Next]_vars
    PROVE  Announced'
<1> SUFFICES ASSUME NEW h \in Handles, event'[h] = "merged"
             PROVE  pc'[h] # "idle" /\ prov'[PR(h)'].by = h
  BY DEF Announced, PR
<1>1. event[h] = "merged" \/ pc[h] = "announce"
  <2>1. ASSUME NEW g \in Handles, Defer(g)
        PROVE  event' = event
    BY <2>1 DEF Defer, DeferRead, DeferRefresh, DeferAdmit, DeferMark, DeferStart
  <2>2. ASSUME NEW g \in Handles, Work(g)
        PROVE  event' = event \/ AnnounceMerged(g) \/ AnnounceFailed(g)
    BY <2>2 DEF Work, RefreshRow, RefreshCI, Tick, WaitTimeout, WaitDone, EnsureRow, EnsureProvider,
                FailureCheck, ClearMerged, FailureClear, Exit, Step
  <2>3. ASSUME NEW g \in Handles, AnnounceMerged(g) \/ AnnounceFailed(g)
        PROVE  event[h] = "merged" \/ pc[h] = "announce"
    BY <2>3 DEF AnnounceMerged, AnnounceFailed, Announce, Types
  <2>4. ASSUME NEW b \in Actors, Merge(b) \/ Respond(b)
        PROVE  event' = event
    BY <2>4 DEF Merge, MergePreflight, MergeCall, MergeSync, MergeSupersede, Respond
  <2>5. ASSUME \/ \E j \in PRs : ProviderMoves(j) \/ Sync(j)
               \/ \E b \in Actors, j \in PRs, l \in {"read", "preflight"} : Request(b, j, l)
               \/ Shutdown \/ Prepare \/ UNCHANGED vars
        PROVE  event' = event
    BY <2>5 DEF ProviderMoves, Sync, Request, Shutdown, Prepare, others, vars
  <2> QED
    BY <2>1, <2>2, <2>3, <2>4, <2>5 DEF Next, Actors
<1>2. h \in Actors /\ pc[h] # "idle" /\ PR(h) \in PRs /\ prov[PR(h)].by = h
  BY <1>1 DEF Announced, Landed, AfterMergePCs, Placed, Actors
<1> QED
  BY <1>2, ProvStep, TargetStays DEF MergedBy

\* Only a landed merge supersedes.
LEMMA SupersededStep ==
    ASSUME Types, Placed, MergedBy, Landed, SupersededIsMerged, [Next]_vars
    PROVE  SupersededIsMerged'
<1> SUFFICES ASSUME NEW h \in superseded'
             PROVE  pc'[h] # "idle" /\ prov'[PR(h)'].state = "merged"
  BY DEF SupersededIsMerged, PR
<1>1. ASSUME NEW a \in Actors, MergeSupersede(a), h \notin superseded
      PROVE  h \in Handles /\ pc[h] # "idle" /\ prov[PR(h)].state = "merged"
  <2>1. pc[a] = "supersede" /\ PR(a) \in PRs /\ SupersedePending(PR(a))
    BY <1>1 DEF MergeSupersede, Placed
  <2>2. pending[PR(a)] = h /\ h \in Handles
    BY <1>1, <2>1, SupersedeEffect
  <2>3. PR(h) = PR(a) /\ pc[h] \in Live
    BY <2>1, <2>2, MergeAssumption DEF Placed, Actors
  <2>4. prov[PR(a)].by = a
    BY <2>1 DEF Landed, AfterMergePCs
  <2> QED
    BY <2>1, <2>2, <2>3, <2>4 DEF MergedBy, Live, WorkerPCs, MergePCs
<1>2. superseded' = superseded \/ \E a \in Actors : MergeSupersede(a)
  BY Kinds DEF Moves, Clears, Kept, DeferAdmit, merging, DeferMark, Request, Respond, Prepare,
    others,
               Outside
<1>3. h \in Actors /\ pc[h] # "idle" /\ PR(h) \in PRs /\ prov[PR(h)].state = "merged"
  BY <1>1, <1>2 DEF SupersededIsMerged, Placed, Types, Actors
<1> QED
  BY <1>3, ProvStep, TargetStays

\* A worker keeps its place until its own cleanup or a supersession.
LEMMA LiveWorkerStep ==
    ASSUME Types, Placed, LiveWorkerIsPending, [Next]_vars
    PROVE  LiveWorkerIsPending'
<1> SUFFICES ASSUME NEW h \in Handles, pc'[h] \in Holding
             PROVE  pending'[PR(h)'] = h \/ h \in superseded'
  BY DEF LiveWorkerIsPending, Holding, PR
<1> USE DEF Actors
<1>1. pc[h] \in Holding => /\ pending[PR(h)] = h \/ h \in superseded
                           /\ PR(h) \in PRs /\ PR(h)' = PR(h)
  BY TargetStays DEF LiveWorkerIsPending, Holding, MergePCs, Placed
<1>2. ASSUME NEW b \in Actors, NEW l \in PCs, Moves(b, l)
      PROVE  pending'[PR(h)'] = h \/ h \in superseded'
  BY <1>1, <1>2 DEF Moves, Kept, Goto, Types
<1>3. ASSUME NEW g \in Handles, NEW l \in PCs, Clears(g, l)
      PROVE  pending'[PR(h)'] = h \/ h \in superseded'
  <2>1. g # h /\ pc'[h] = pc[h] /\ superseded' = superseded
    BY <1>3 DEF Clears, Goto, Types
  <2>2. pending' = pending \/ (pending[PR(g)] = g /\ pending' = [pending EXCEPT ![PR(g)] = None])
    BY <1>3 DEF Clears, Clear
  <2> QED
    BY <1>1, <2>1, <2>2 DEF Types
<1>4. ASSUME NEW g \in Handles, DeferAdmit(g), Goto(g, "mark")
      PROVE  pending'[PR(h)'] = h \/ h \in superseded'
  BY <1>1, <1>4 DEF DeferAdmit, merging, Goto, Types, Holding, MergePCs
<1>5. ASSUME NEW g \in Handles, DeferMark(g)
      PROVE  pending'[PR(h)'] = h \/ h \in superseded'
  <2>1. PR(g) \in PRs /\ target' = target /\ superseded' = superseded
    BY <1>5 DEF DeferMark, Placed
  <2>2. CASE pending[PR(g)] = None
    <3>1. pending' = [pending EXCEPT ![PR(g)] = g] /\ pc' = [pc EXCEPT ![g] = "start"]
      BY <1>5, <2>2 DEF DeferMark, Goto
    <3> QED
      BY <1>1, <2>1, <2>2, <3>1, MergeAssumption DEF Types, PR
  <2>3. CASE pending[PR(g)] # None
    <3>1. pending' = pending /\ pc' = [pc EXCEPT ![g] = "done"]
      BY <1>5, <2>3 DEF DeferMark, Goto
    <3> QED
      BY <1>1, <2>1, <3>1 DEF Types, Holding, MergePCs
  <2> QED
    BY <2>2, <2>3
<1>6. ASSUME NEW a \in Actors, MergeSupersede(a)
      PROVE  pending'[PR(h)'] = h \/ h \in superseded'
  <2>1. pc[h] \in Holding
    BY <1>6 DEF MergeSupersede, AfterMerge, Goto, Types, Holding, MergePCs
  <2>2. \/ UNCHANGED << pending, superseded >>
        \/ /\ superseded' = superseded \union {pending[PR(a)]}
           /\ pending' = [pending EXCEPT ![PR(a)] = None]
    BY <1>6 DEF MergeSupersede, SupersedePending
  <2> QED
    BY <1>1, <2>1, <2>2 DEF Types
<1>7. ASSUME NEW a \in Actors, NEW k \in PRs, NEW l \in {"read", "preflight"}, Request(a, k, l),
             a \in Handles => l = "read"
      PROVE  pending'[PR(h)'] = h \/ h \in superseded'
  BY <1>1, <1>7, MergeAssumption DEF Request, Goto, Types, Holding, MergePCs
<1>8. ASSUME (\E a \in Actors : Respond(a)) \/ Prepare \/ Outside
      PROVE  pending'[PR(h)'] = h \/ h \in superseded'
  BY <1>1, <1>8 DEF Respond, merging, Prepare, Outside, Kept, others
<1> QED
  BY <1>2, <1>3, <1>4, <1>5, <1>6, <1>7, <1>8, Kinds

\* An immediate merge is answered, and no longer counted, once it is done.
LEMMA ImmediatesStep ==
    ASSUME Types, Placed, ImmediatesAreRequests, [Next]_vars
    PROVE  ImmediatesAreRequests'
<1> SUFFICES ASSUME NEW i \in Immediates, pc'[i] \notin {"idle", "done"}
             PROVE  i \in requests'
  BY DEF ImmediatesAreRequests
<1> USE DEF Actors
<1>1. ASSUME NEW b \in Actors, NEW l \in PCs, Moves(b, l)
      PROVE  i \in requests'
  BY <1>1 DEF Moves, Kept, Goto, Types, ImmediatesAreRequests
<1>2. ASSUME NEW h \in Handles, \/ \E l \in PCs : Clears(h, l)
                                \/ DeferAdmit(h) /\ Goto(h, "mark")
                                \/ DeferMark(h)
      PROVE  i \in requests'
  <2>1. pc'[i] = pc[i] /\ requests' = requests
    BY <1>2, MergeAssumption DEF Clears, DeferAdmit, DeferMark, Goto, Types
  <2> QED
    BY <2>1 DEF ImmediatesAreRequests
<1>3. ASSUME NEW a \in Actors, MergeSupersede(a)
      PROVE  i \in requests'
  BY <1>3 DEF MergeSupersede, Goto, Types, ImmediatesAreRequests
<1>4. ASSUME NEW a \in Actors, NEW k \in PRs, NEW l \in {"read", "preflight"}, Request(a, k, l)
      PROVE  i \in requests'
  BY <1>4 DEF Request, Goto, Types, ImmediatesAreRequests
<1>5. ASSUME NEW a \in Actors, Respond(a)
      PROVE  i \in requests'
  BY <1>5 DEF Respond, ImmediatesAreRequests
<1>6. ASSUME Prepare \/ Outside
      PROVE  i \in requests'
  BY <1>6 DEF Prepare, Outside, Kept, others, ImmediatesAreRequests
<1> QED
  BY <1>1, <1>2, <1>3, <1>4, <1>5, <1>6, Kinds

\* The invariant of the merges holds at the start, and every step keeps it.
LEMMA InitMergeInv == Init => MergeInv
<1> SUFFICES ASSUME Init PROVE MergeInv
  OBVIOUS
<1>1. GateInv
  BY InitGateInv
<1>2. MergedBy /\ BoundIsReviewed
  BY MergeAssumption DEF Init, MergedBy, BoundIsReviewed
<1>3. Landed /\ Announced /\ SupersededIsMerged /\ ImmediatesAreRequests /\ LiveWorkerIsPending
  BY DEF Init, Landed, AfterMergePCs, Announced, SupersededIsMerged, ImmediatesAreRequests,
         LiveWorkerIsPending, MergePCs, Actors
<1> QED
  BY <1>1, <1>2, <1>3 DEF MergeInv

LEMMA MergeInvStep == MergeInv /\ [Next]_vars => MergeInv'
<1> SUFFICES ASSUME MergeInv, [Next]_vars PROVE MergeInv'
  OBVIOUS
<1>1. Types /\ Placed
  BY DEF MergeInv, GateInv
<1>2. GateInv'
  BY GateInvStep DEF MergeInv
<1>3. BoundIsReviewed' /\ MergedBy' /\ Landed' /\ Announced'
  BY <1>1, BoundStep, MergedByStep, LandedStep, AnnouncedStep DEF MergeInv
<1>4. SupersededIsMerged' /\ LiveWorkerIsPending' /\ ImmediatesAreRequests'
  BY <1>1, SupersededStep, LiveWorkerStep, ImmediatesStep DEF MergeInv
<1> QED
  BY <1>2, <1>3, <1>4 DEF MergeInv

LEMMA MergeInvAlways == Spec => []MergeInv
  BY InitMergeInv, MergeInvStep, PTL DEF Spec

\* A worker that may still merge or report is the pending one of its pull
\* request or was superseded: no other worker's cleanup takes its place away.
THEOREM LiveWorkersArePending == Spec => []LiveWorkerIsPending
<1>1. MergeInv => LiveWorkerIsPending
  BY DEF MergeInv
<1> QED
  BY <1>1, MergeInvAlways, PTL

\* What the daemon merged is the head its user reviewed.
THEOREM ReviewedHeadsMerge == Spec => []MergedHeadIsReviewed
<1>1. MergeInv => MergedHeadIsReviewed
  BY DEF MergeInv, MergedBy, MergedHeadIsReviewed
<1> QED
  BY <1>1, MergeInvAlways, PTL

\* Success is announced by the worker whose merge landed.
THEOREM AnnouncedMergesLanded == Spec => []AnnouncedMergeIsReal
<1>1. MergeInv => AnnouncedMergeIsReal
  BY DEF MergeInv, Announced, AnnouncedMergeIsReal
<1> QED
  BY <1>1, MergeInvAlways, PTL

\* No merge of the daemon lands once the generation is frozen: an immediate
\* one would be counted, a queued one would be pending, and a superseded one
\* has a pull request that is merged already.
THEOREM FrozenLandsNothing == Spec => FrozenIsQuiet
<1>1. ASSUME MergeInv, [Next]_vars, NEW k \in PRs, prov[k].by = None, prov'[k].by \in Actors
      PROVE  prep.drain = NoGeneration
  <2>1. Types /\ Placed /\ GateCountsWork /\ FrozenIsDrained
    BY <1>1 DEF MergeInv, GateInv
  <2>2. PICK a \in Actors : PR(a) = k /\ Lands(a)
    BY <1>1, <2>1, ProvStep, MergeAssumption
  <2>3. pc[a] = "merge" /\ prov[k].state = "open"
    BY <2>2 DEF Lands, MergeCall, ProviderMerges
  <2>4. a \in requests \/ k \in Occupied
    <3>1. CASE a \in Immediates
      BY <1>1, <2>3, <3>1 DEF MergeInv, ImmediatesAreRequests
    <3>2. CASE a \in Handles
      BY <1>1, <2>2, <2>3, <3>2, MergeAssumption
         DEF MergeInv, LiveWorkerIsPending, SupersededIsMerged, MergePCs, Occupied, Actors
    <3> QED
      BY <3>1, <3>2 DEF Actors
  <2>5. Cardinality(requests) # 0 \/ Cardinality(Occupied) # 0
    BY <2>1, <2>4, CountedAreFinite, FS_EmptySet
  <2>6. gate.inFlight # 0 \/ gate.deferredMerges # 0
    BY <2>1, <2>5, CountedAreFinite DEF GateCountsWork, Marking, Occupied
  <2> QED
    BY <2>1, <2>6 DEF FrozenIsDrained
<1>2. MergeInv /\ [Next]_vars
        => [\A k \in PRs : prov[k].by = None /\ prov'[k].by \in Actors
          => prep.drain = NoGeneration]_vars
  BY <1>1
<1> QED
  BY <1>2, MergeInvAlways, PTL DEF Spec, FrozenIsQuiet

-----------------------------------------------------------------------------
(* Gate, queue and freeze implement the barrier (WriteBarrier): requests     *)
(* and queued merges are its work, and what the daemon merged is what they   *)
(* write.                                                                    *)

Queued == {h \in Handles : pc[h] = "mark" \/ \E k \in PRs : pending[k] = h}

\* The barrier's work is made of requests and queued merges.
LEMMA WorkIs ==
    /\ AdmittedWork = ({"request"} \X requests) \union ({"queued"} \X Queued)
    /\ AdmittedWork' = ({"request"} \X requests') \union ({"queued"} \X Queued')
  BY DEF AdmittedWork, Queued

\* The work is the same when the requests and the queue are; it grows, or
\* shrinks, with either.
LEMMA SameWork ==
    ASSUME requests' = requests, Queued' = Queued
    PROVE  AdmittedWork' = AdmittedWork
  BY WorkIs

LEMMA QueueGrows ==
    ASSUME NEW h \in Handles, requests' = requests, h \notin Queued, Queued' = Queued \union {h}
    PROVE  /\ << "queued", h >> \notin AdmittedWork
           /\ AdmittedWork' = AdmittedWork \union {<< "queued", h >>}
  BY WorkIs

LEMMA QueueShrinks ==
    ASSUME NEW h \in Handles, requests' = requests, h \in Queued, Queued' = Queued \ {h}
    PROVE  Barrier!End(<< "queued", h >>) \/ BarrierState' # BarrierState
<1>1. << "queued", h >> \in AdmittedWork /\ AdmittedWork' = AdmittedWork \ {<< "queued", h >>}
  BY WorkIs
<1>2. MergedByUs' \in SUBSET PRs
  BY DEF MergedByUs
<1> QED
  BY <1>1, <1>2 DEF Barrier!End

\* Who holds a place of the queue holds no other, and is past its request.
LEMMA PlaceIsOwn ==
    ASSUME Types, Placed, NEW k \in PRs, NEW h \in Handles, pending[k] = h
    PROVE  /\ h \in Queued /\ PR(h) = k /\ pc[h] \in Live /\ pc[h] # "mark"
           /\ \A j \in PRs : pending[j] = h => j = k
<1>1. \A j \in PRs : pending[j] = h => PR(h) = j /\ pc[h] \in Live
  BY MergeAssumption DEF Placed, Actors
<1> QED
  BY <1>1 DEF Queued, Live, WorkerPCs, MergePCs

\* When a place of the queue is taken from its handle, and no handle begins or
\* ceases to mark, that handle leaves the work and no other does.
LEMMA PlaceIsLost ==
    ASSUME Types, Placed, NEW k \in PRs, NEW h \in Handles, pending[k] = h,
           pending' = [pending EXCEPT ![k] = None], \A g \in Handles : pc[g] = "mark" <=> pc'[g] = "mark"
    PROVE  h \in Queued /\ Queued' = Queued \ {h}
<1>1. h \in Queued /\ pc[h] # "mark" /\ \A j \in PRs : pending[j] = h => j = k
  BY PlaceIsOwn
<1>2. \A j \in PRs : pending'[j] = IF j = k THEN None ELSE pending[j]
  BY DEF Types
<1>3. \A g \in Handles : g \in Queued' <=> g \in Queued /\ g # h
  BY <1>1, <1>2, MergeAssumption DEF Queued, Actors
<1> QED
  BY <1>1, <1>3 DEF Queued

\* Counters at zero mean that there is no work.
LEMMA DrainedIsIdle ==
    ASSUME Types, GateCountsWork, gate.inFlight = 0, gate.deferredMerges = 0
    PROVE  AdmittedWork = {}
<1>1. Cardinality(requests) = 0 /\ Cardinality(Marking) = 0 /\ Cardinality(Occupied) = 0
  BY CountedAreFinite DEF GateCountsWork, Marking, Occupied
<1>2. requests = {} /\ Marking = {} /\ Occupied = {}
  BY <1>1, CountedAreFinite, FS_EmptySet
<1>3. Queued = {}
  BY <1>2, MergeAssumption DEF Queued, Marking, Occupied, Actors
<1> QED
  BY <1>2, <1>3, WorkIs

\* What the daemon merged changes only when a merge of it lands.
LEMMA MergedStays ==
    ASSUME Types, Placed, MergedBy, [Next]_vars, \A a \in Actors : ~Lands(a)
    PROVE  MergedByUs' = MergedByUs
<1>1. ASSUME NEW k \in PRs
      PROVE  prov'[k].by \in Actors <=> prov[k].by \in Actors
  BY ProvStep, MergeAssumption DEF MergedBy
<1> QED
  BY <1>1 DEF MergedByUs

\* The barrier moves only when the daemon is prepared.
LEMMA BarrierStays ==
    ASSUME Types, Placed, [Next]_vars, ~Prepare
    PROVE  BarrierState' = BarrierState
<1>1. UNCHANGED prep /\ gate'.phase = gate.phase /\ gate'.loadErr = gate.loadErr
  BY GateKinds
<1> QED
  BY <1>1 DEF BarrierState, Admits

\* Who is admitted finds the barrier open: a frozen row is not that of an open
\* phase.
LEMMA AdmitsIsOpen ==
    ASSUME Phased, Admits
    PROVE  BarrierState = "open"
  BY DEF Phased, Admits, BarrierState

\* Work that is admitted joins, work that is given up or answered ends, and a
\* merge is written by admitted work.
LEMMA WorkSteps ==
    ASSUME MergeInv, [Next]_vars, ~Prepare
    PROVE  [Barrier!Next]_(Barrier!barrierVars)
<1>0. Types /\ Placed /\ GateCountsWork /\ Phased /\ MergedBy
  BY DEF MergeInv, GateInv
<1>1. BarrierState' = BarrierState
  BY <1>0, BarrierStays
<1>2. MergedByUs' \in SUBSET PRs
  BY DEF MergedByUs
<1>3. ASSUME NEW w \in {"request", "queued"} \X Actors, Barrier!Admit(w) \/ Barrier!End(w)
      PROVE  Barrier!Next
  BY <1>3 DEF Barrier!Next
<1>4. \A h \in Handles : << "queued", h >> \in {"request", "queued"} \X Actors
  BY DEF Actors
<1>5. ASSUME requests' = requests, Queued' = Queued, \A a \in Actors : ~Lands(a)
      PROVE  UNCHANGED Barrier!barrierVars
  BY <1>0, <1>1, <1>5, SameWork, MergedStays DEF Barrier!barrierVars
<1>6. ASSUME NEW h \in Handles, requests' = requests, h \in Queued, Queued' = Queued \ {h}
      PROVE  Barrier!Next
  BY <1>1, <1>3, <1>4, <1>6, QueueShrinks
<1>7. ASSUME NEW a \in Actors, pc[a] # "merge"
      PROVE  ~Lands(a)
  BY <1>7 DEF Lands, MergeCall
<1>8. ASSUME NEW a \in Actors, Lands(a)
      PROVE  Barrier!Next
  <2>1. requests' = requests /\ pending' = pending /\ UNCHANGED << gate, prep >>
    BY <1>8 DEF Lands, MergeCall
  <2>2. pc[a] = "merge" /\ \E l \in {"sync", AfterNoMerge(a)} : Goto(a, l)
    BY <1>8 DEF Lands, MergeCall, Unmerged
  <2>3. \A h \in Handles : pc[h] = "mark" <=> pc'[h] = "mark"
    BY <1>0, <2>2 DEF AfterNoMerge, Goto, Types, Actors
  <2>4. AdmittedWork' = AdmittedWork
    BY <2>1, <2>3, SameWork DEF Queued
  <2>5. AdmittedWork # {}
    <3>1. PR(a) \in PRs /\ prov[PR(a)].state = "open"
      BY <1>0, <1>8 DEF Placed, Lands, MergeCall, ProviderMerges
    <3>2. CASE a \in Immediates
      <4>1. a \in requests
        BY <2>2, <3>2 DEF MergeInv, ImmediatesAreRequests
      <4>2. << "request", a >> \in {"request"} \X requests
        BY <4>1
      <4> QED
        BY <4>2, WorkIs
    <3>3. CASE a \in Handles
      <4>1. pending[PR(a)] = a
        BY <2>2, <3>1, <3>3 DEF MergeInv, LiveWorkerIsPending, SupersededIsMerged, MergePCs
      <4>2. << "queued", a >> \in {"queued"} \X Queued
        BY <3>1, <3>3, <4>1 DEF Queued
      <4> QED
        BY <4>2, WorkIs
    <3> QED
      BY <3>2, <3>3 DEF Actors
  <2> QED
    BY <1>1, <1>2, <2>4, <2>5 DEF Barrier!Next, Barrier!Write
<1>9. CASE \A a \in Actors : ~Lands(a)
  <2>1. ASSUME NEW a \in Actors, NEW l \in PCs, Moves(a, l)
        PROVE  UNCHANGED Barrier!barrierVars
    <3>1. requests' = requests /\ pending' = pending
      BY <2>1 DEF Moves, Kept
    <3>2. \A h \in Handles : pc[h] = "mark" <=> pc'[h] = "mark"
      BY <1>0, <2>1 DEF Moves, Goto, Types, Actors
    <3> QED
      BY <1>5, <1>9, <3>1, <3>2 DEF Queued
  <2>2. ASSUME NEW h \in Handles, NEW l \in PCs, Clears(h, l)
        PROVE  UNCHANGED Barrier!barrierVars \/ Barrier!Next
    <3>1. requests' = requests /\ pc[h] \notin Early /\ l \notin Early
      BY <2>2 DEF Clears, Early, Live, WorkerPCs, MergePCs
    <3>2. \A g \in Handles : pc[g] = "mark" <=> pc'[g] = "mark"
      BY <1>0, <2>2, <3>1 DEF Clears, Goto, Types, Actors, Early
    <3>3. CASE pending' = pending
      BY <1>5, <1>9, <3>1, <3>2, <3>3 DEF Queued
    <3>4. CASE PR(h) \in PRs /\ pending[PR(h)] = h /\ pending' = [pending EXCEPT ![PR(h)] = None]
      BY <1>0, <1>6, <3>1, <3>2, <3>4, PlaceIsLost
    <3> QED
      BY <1>0, <2>2, <3>1, <3>3, <3>4, ClearEffect DEF Clears
  <2>3. ASSUME NEW h \in Handles, DeferAdmit(h), BeginDeferredMerge, Goto(h, "mark")
        PROVE  Barrier!Next
    <3>1. requests' = requests /\ pending' = pending /\ pc[h] = "admit"
      BY <2>3 DEF DeferAdmit, merging
    <3>2. h \notin Queued
      <4>1. \A k \in PRs : pending[k] # h
        BY <1>0, <3>1, PlaceIsOwn DEF Live, WorkerPCs, MergePCs
      <4> QED
        BY <3>1, <4>1 DEF Queued
    <3>3. Queued' = Queued \union {h}
      BY <1>0, <2>3, <3>1 DEF Queued, Goto, Types, Actors
    <3>4. /\ << "queued", h >> \notin AdmittedWork
          /\ AdmittedWork' = AdmittedWork \union {<< "queued", h >>}
      BY <3>1, <3>2, <3>3, QueueGrows
    <3>5. BarrierState = "open"
      BY <1>0, <2>3, AdmitsIsOpen DEF BeginDeferredMerge
    <3>6. MergedByUs' = MergedByUs
      BY <1>0, <1>9, MergedStays
    <3>7. Barrier!Admit(<< "queued", h >>)
      BY <1>1, <3>4, <3>5, <3>6 DEF Barrier!Admit
    <3> QED
      BY <1>3, <1>4, <3>7
  <2>4. ASSUME NEW h \in Handles, DeferMark(h)
        PROVE  UNCHANGED Barrier!barrierVars \/ Barrier!Next
    <3>1. requests' = requests /\ pc[h] = "mark" /\ PR(h) \in PRs
      BY <1>0, <2>4 DEF DeferMark, Placed, Actors
    <3>2. h \in Queued /\ \A k \in PRs : pending[k] # h
      BY <1>0, <3>1, PlaceIsOwn DEF Queued
    <3>3. CASE pending[PR(h)] = None
      <4>1. pending' = [pending EXCEPT ![PR(h)] = h] /\ pc' = [pc EXCEPT ![h] = "start"]
        BY <2>4, <3>3 DEF DeferMark, Goto
      <4>2. \A k \in PRs : pending'[k] = IF k = PR(h) THEN h ELSE pending[k]
        BY <1>0, <4>1 DEF Types
      <4>3. \A g \in Handles : pc'[g] = IF g = h THEN "start" ELSE pc[g]
        BY <1>0, <4>1 DEF Types, Actors
      <4>4. \A g \in Handles : g \in Queued' <=> g \in Queued
        BY <3>1, <3>2, <3>3, <4>2, <4>3, MergeAssumption DEF Queued, Actors
      <4>5. Queued' = Queued
        BY <4>4 DEF Queued
      <4> QED
        BY <1>5, <1>9, <3>1, <4>5
    <3>4. CASE pending[PR(h)] # None
      <4>1. pending' = pending /\ pc' = [pc EXCEPT ![h] = "done"]
        BY <2>4, <3>4 DEF DeferMark, Goto
      <4>2. \A g \in Handles : pc'[g] = IF g = h THEN "done" ELSE pc[g]
        BY <1>0, <4>1 DEF Types, Actors
      <4>3. \A g \in Handles : g \in Queued' <=> g \in Queued /\ g # h
        BY <3>2, <4>1, <4>2 DEF Queued
      <4>4. Queued' = Queued \ {h}
        BY <4>3 DEF Queued
      <4> QED
        BY <1>6, <3>1, <3>2, <4>4
    <3> QED
      BY <3>3, <3>4
  <2>5. ASSUME NEW a \in Actors, MergeSupersede(a)
        PROVE  UNCHANGED Barrier!barrierVars \/ Barrier!Next
    <3>1. /\ requests' = requests /\ pc[a] = "supersede" /\ PR(a) \in PRs
          /\ SupersedePending(PR(a)) /\ Goto(a, AfterMerge(a))
      BY <1>0, <2>5 DEF MergeSupersede, Placed
    <3>2. \A g \in Handles : pc[g] = "mark" <=> pc'[g] = "mark"
      BY <1>0, <3>1 DEF AfterMerge, Goto, Types, Actors
    <3>3. CASE pending' = pending
      BY <1>5, <1>9, <3>1, <3>2, <3>3 DEF Queued
    <3>4. ASSUME NEW h \in Handles, pending[PR(a)] = h, pending' = [pending EXCEPT ![PR(a)] = None]
          PROVE  Barrier!Next
      BY <1>0, <1>6, <3>1, <3>2, <3>4, PlaceIsLost
    <3> QED
      BY <1>0, <3>1, <3>3, <3>4, SupersedeEffect
  <2>6. ASSUME NEW a \in Actors, NEW k \in PRs, NEW l \in {"read", "preflight"}, Request(a, k, l)
        PROVE  Barrier!Next
    <3>1. /\ pc[a] = "idle" /\ a \notin requests /\ requests' = requests \union {a}
          /\ pending' = pending /\ Goto(a, l)
      BY <1>0, <2>6 DEF Request, Placed
    <3>2. \A g \in Handles : pc[g] = "mark" <=> pc'[g] = "mark"
      BY <1>0, <3>1 DEF Goto, Types, Actors
    <3>3. Queued' = Queued
      BY <3>1, <3>2 DEF Queued
    <3>4. /\ << "request", a >> \notin AdmittedWork
          /\ AdmittedWork' = AdmittedWork \union {<< "request", a >>}
      BY <3>1, <3>3, WorkIs
    <3>5. BarrierState = "open"
      BY <1>0, <2>6, AdmitsIsOpen DEF Request, Admit
    <3>6. MergedByUs' = MergedByUs
      BY <1>0, <1>9, MergedStays
    <3>7. Barrier!Admit(<< "request", a >>)
      BY <1>1, <3>4, <3>5, <3>6 DEF Barrier!Admit
    <3> QED
      BY <1>3, <3>7
  <2>7. ASSUME NEW a \in Actors, Respond(a)
        PROVE  Barrier!Next
    <3>1. a \in requests /\ requests' = requests \ {a} /\ pending' = pending /\ pc' = pc
      BY <2>7 DEF Respond, merging
    <3>2. Queued' = Queued
      BY <3>1 DEF Queued
    <3>3. << "request", a >> \in AdmittedWork /\ AdmittedWork' = AdmittedWork \ {<< "request", a >>}
      BY <3>1, <3>2, WorkIs
    <3>4. Barrier!End(<< "request", a >>)
      BY <1>1, <1>2, <3>3 DEF Barrier!End
    <3> QED
      BY <1>3, <3>4
  <2>8. CASE Outside
    BY <1>5, <1>9, <2>8 DEF Outside, Kept, Queued
  <2> QED
    BY <1>0, <2>1, <2>2, <2>3, <2>4, <2>5, <2>6, <2>7, <2>8, Kinds
<1> QED
  BY <1>8, <1>9

\* A preparation closes the barrier, opens it again, or freezes it when nothing
\* is at work.
LEMMA PrepareSteps ==
    ASSUME MergeInv, [Next]_vars, Prepare
    PROVE  [Barrier!Next]_(Barrier!barrierVars)
<1>0. Types /\ Placed /\ GateCountsWork /\ Phased /\ MergedBy
  BY DEF MergeInv, GateInv
<1>1. AdmittedWork' = AdmittedWork /\ MergedByUs' = MergedByUs
  BY DEF Prepare, others, AdmittedWork, MergedByUs
<1>2. ASSUME BarrierState' # "frozen"
      PROVE  Barrier!Next
  BY <1>1, <1>2 DEF BarrierState, Barrier!Next, Barrier!Switch
<1>3. ASSUME BarrierState' = "frozen", prep.drain # NoGeneration
      PROVE  UNCHANGED Barrier!barrierVars
  BY <1>1, <1>3 DEF BarrierState, Barrier!barrierVars
<1>4. ASSUME BarrierState' = "frozen", prep.drain = NoGeneration
      PROVE  Barrier!Next
  <2>1. prep'.drain # NoGeneration
    BY <1>4 DEF BarrierState
  <2>2. Freezes
    <3>1. CASE BeginQuiesce(Enrollment)
      BY <1>4, <2>1, <3>1 DEF BeginQuiesce
    <3>2. CASE Status(0)
      BY <1>4, <2>1, <3>2 DEF Status
    <3>3. CASE AbortPreparation
      BY <2>1, <3>3 DEF AbortPreparation, OpenRow
    <3> QED
      BY <3>1, <3>2, <3>3 DEF Prepare
  <2>3. AdmittedWork = {}
    BY <1>0, <2>2, DrainedIsIdle DEF Freezes
  <2>4. BarrierState = "closed"
    BY <1>0, <1>4, <2>2 DEF BarrierState, Freezes, Admits, Phased
  <2> QED
    BY <1>1, <1>4, <2>3, <2>4 DEF Barrier!Next, Barrier!Freeze
<1> QED
  BY <1>2, <1>3, <1>4

\* Admission, queue and freeze implement the barrier, for any number of pull
\* requests, deferred and immediate merges: work joins while the gate admits,
\* only admitted work merges, and the generation is frozen when none is left.
THEOREM GateIsBarrier == Spec => IsWriteBarrier
<1>1. Init => Barrier!Init
  <2> SUFFICES ASSUME Init PROVE Barrier!Init
    OBVIOUS
  <2>1. BarrierState = "open"
    BY DEF Init, BarrierState, Admits, OpenRow, NewGate
  <2>2. requests = {} /\ Queued = {}
    BY MergeAssumption DEF Init, Queued, Actors
  <2> QED
    BY <2>1, <2>2, WorkIs DEF Barrier!Init, MergedByUs
<1>2. MergeInv /\ [Next]_vars => [Barrier!Next]_(Barrier!barrierVars)
  BY WorkSteps, PrepareSteps
<1> QED
  BY <1>1, <1>2, MergeInvAlways, PTL DEF Spec, IsWriteBarrier, Barrier!Spec

-----------------------------------------------------------------------------
(* The archive skips no update.  An update waits, or is stored, once the    *)
(* watermark or a committed page has gone past it: what lies behind the     *)
(* cursor of a maintenance scan was listed (Listed), a page shows what lies *)
(* between its cursor and the next (Shown), and when the row is complete    *)
(* everything before it was listed (Synced).                                *)

LEMMA ArchiveFacts == MaxTime \in Nat \ {0} /\ MaxScans \in Nat /\ MaxMoves \in Nat
  BY ArchiveAssumption DEF Arch!ArchiveConstants

\* What the worker holds.
Works == [scan : Arch!Scans \union {<< "", "" >>}, generation : Nat,
          cursor : SUBSET (Arch!Items \union Arch!Times), since : Arch!Times, started : Arch!Times,
          page : [Arch!Items -> Arch!Times], next : SUBSET (Arch!Items \union Arch!Times),
          exhausted : BOOLEAN, item : Seq(Arch!Items)]

ArchiveTypes ==
    /\ clock \in Arch!Times /\ moves \in 0 .. MaxMoves /\ early \in BOOLEAN
    /\ updated \in [Arch!Items -> Arch!Times] /\ stored \in [Arch!Items -> Arch!Times]
    /\ archive \in Arch!Archive
    /\ scan \in [Arch!Scans -> Arch!Scan]
    /\ item \in [Arch!Items -> Arch!Item]
    /\ archivePc \in Arch!PCs /\ work \in Works
    /\ archivePc \in {"read", "commit"} => work.scan \in Arch!Scans
    /\ archivePc \in {"sync", "settle"} => work.item[1] \in Arch!Items
    /\ \A s \in Arch!Streams : scan[Arch!Maintenance(s)].cursor \subseteq Arch!Times
    /\ archivePc \in {"read", "commit"} /\ work.scan[1] = "maintenance" =>
          work.cursor \subseteq Arch!Times /\ work.next \subseteq Arch!Times

\* No mark lies in the future, and nobody claims to have seen an update that
\* was not made.
Past ==
    /\ clock >= 1
    /\ archive.watermark <= clock /\ archive.completed <= clock
    /\ archive.started <= clock /\ work.started <= clock
    /\ \A i \in Arch!Items : updated[i] <= clock /\ item[i].evidence <= updated[i]
    /\ archivePc = "commit" => \A i \in Arch!Items : work.page[i] <= updated[i]

\* Where maintenance resumes.
Resume == IF archive.watermark # 0 THEN archive.watermark ELSE 1

\* The boundary of the scans is that of the row, and the worker's is the row's.
Bounded ==
    /\ archivePc = "begin" => work.since = Resume
    /\ archive.started # 0 => archive.since = Resume
    /\ archivePc = "complete" \/ (archivePc \in {"read", "commit"} /\ work.scan[1] = "maintenance") =>
          archive.started # 0 /\ work.started = archive.started /\ work.since = archive.since

Waits(i) == stored[i] = updated[i] \/ item[i].status \in {"pending", "failed"}

\* An update the maintenance scans have to list.
InScan(i) == updated[i] \in archive.since .. archive.started - 1

Behind(i, cursor) == \E t \in cursor : t <= updated[i]

\* What lies behind a cursor was listed.
Listed ==
    archive.started # 0 =>
        \A s \in Arch!Streams : \A i \in Arch!ItemsOf[s] :
            /\ InScan(i)
            /\ Arch!Complete(Arch!Maintenance(s)) \/ Behind(i, scan[Arch!Maintenance(s)].cursor)
            => Waits(i)

\* A page shows every item between its cursor and the next one.
Shown ==
    archivePc = "commit" /\ work.scan[1] = "maintenance" =>
        \A i \in Arch!ItemsOf[work.scan[2]] :
            InScan(i) /\ ~Behind(i, work.cursor) /\ (work.exhausted \/ Behind(i, work.next))
                => work.page[i] = updated[i]

\* An item that changed since it was synchronised will be listed again.
Synced ==
    archivePc = "settle" =>
        \/ stored[work.item[1]] = updated[work.item[1]]
        \/ updated[work.item[1]] >= archive.watermark
              /\ updated[work.item[1]] >= archive.started

Archiving ==
    Bounded /\ Listed /\ Shown /\ Synced /\ \A i \in Arch!Items : Arch!Kept(i)

ArchiveInv == ArchiveTypes /\ Past /\ (early \/ Archiving)

-----------------------------------------------------------------------------
(* Operators. *)

\* A set of naturals has its minimum.
LEMMA LeastTime ==
    ASSUME NEW N \in SUBSET Nat, N # {}
    PROVE  Arch!Min(N) \in N /\ \A y \in N : Arch!Min(N) <= y
<1>1. PICK x \in N : \A y \in N : <<y, x>> \notin OpToRel(<, Nat)
  BY WFMin, NatLessThanWellFounded, Zenon
<1>2. \A y \in N : ~(y < x)
  BY <1>1 DEF OpToRel
<1>3. \A y \in N : x <= y
  BY <1>2
<1> QED
  BY <1>3 DEF Arch!Min

LEMMA ScanNames ==
    /\ \A s \in Arch!Streams : Arch!Maintenance(s) \in Arch!Scans /\ Arch!Inventory(s) \in Arch!Scans
    /\ \A s \in Arch!Streams : Arch!Maintenance(s)[1] = "maintenance" /\ Arch!Maintenance(s)[2] = s
    /\ \A s \in Arch!Streams : Arch!Inventory(s)[1] = "inventory"
    /\ \A k \in Arch!Scans : k[2] \in Arch!Streams /\ k = << k[1], k[2] >>
    /\ \A k \in Arch!Scans : k[1] = "maintenance" => k = Arch!Maintenance(k[2])
    /\ \A k \in Arch!Scans : k[1] = "inventory" \/ k[1] = "maintenance"
  BY DEF Arch!Scans, Arch!Maintenance, Arch!Inventory, Arch!Streams

LEMMA StreamItems ==
    /\ \A s \in Arch!Streams : Arch!ItemsOf[s] \subseteq Arch!Items
    /\ \A i \in Arch!Items : \E s \in Arch!Streams : i \in Arch!ItemsOf[s]
  BY DEF Arch!Streams, Arch!ItemsOf, Arch!Items

LEMMA WorkTypes ==
    /\ Arch!NoWork \in Works
    /\ \A a, b \in Arch!Times : Arch!Boundary(a, b) \in Works
<1>1. 0 \in Arch!Times /\ [i \in Arch!Items |-> 0] \in [Arch!Items -> Arch!Times]
  BY ArchiveFacts DEF Arch!Times
<1>2. << >> \in Seq(Arch!Items) /\ << "", "" >> \in Arch!Scans \union {<< "", "" >>}
  OBVIOUS
<1>3. Arch!NoWork \in Works
  BY <1>1, <1>2 DEF Arch!NoWork, Works
<1>4. ASSUME NEW a \in Arch!Times, NEW b \in Arch!Times PROVE Arch!Boundary(a, b) \in Works
  BY <1>3, <1>4 DEF Arch!Boundary, Works
<1> QED
  BY <1>3, <1>4

\* Where the worker goes on: the end of the streams, or the cursor of one.
LEMMA StreamFollows ==
    ASSUME NEW past, NEW scans \in [Arch!Scans -> Arch!Scan], NEW base \in Works,
           Arch!NextStream(past, scans, base)
    PROVE  \/ archivePc' = "complete" /\ work' = base
           \/ \E s \in Arch!Streams :
                 /\ archivePc' = "read"
                 /\ work' = [base EXCEPT !.scan = Arch!Maintenance(s),
                                         !.generation = scans[Arch!Maintenance(s)].generation,
                                         !.cursor = scans[Arch!Maintenance(s)].cursor]
<1> DEFINE open == {s \in Arch!Streams \ past :
                      scans[Arch!Maintenance(s)].status \in {"pending", "running"}}
<1>1. CASE open = {}
  BY <1>1 DEF Arch!NextStream
<1>2. CASE open # {}
  <2>1. (IF "issues" \in open THEN "issues" ELSE "merge_requests") \in Arch!Streams
    BY DEF Arch!Streams
  <2> QED
    BY <1>2, <2>1 DEF Arch!NextStream
<1> QED
  BY <1>1, <1>2

\* It keeps the bounds it was given.
LEMMA FollowsTyped ==
    ASSUME NEW past, NEW scans \in [Arch!Scans -> Arch!Scan], NEW a \in Arch!Times, NEW b \in Arch!Times,
           \A s \in Arch!Streams : scans[Arch!Maintenance(s)].cursor \subseteq Arch!Times,
           Arch!NextStream(past, scans, Arch!Boundary(a, b))
    PROVE  /\ archivePc' \in {"complete", "read"} /\ work' \in Works
           /\ work'.started = a /\ work'.since = b
           /\ archivePc' = "read" =>
                 /\ work'.scan \in Arch!Scans /\ work'.scan[1] = "maintenance"
                 /\ work'.cursor \subseteq Arch!Times /\ work'.next \subseteq Arch!Times
<1> DEFINE base == Arch!Boundary(a, b)
<1>1. base \in Works /\ base.started = a /\ base.since = b /\ base.next = {}
  BY WorkTypes DEF Arch!Boundary, Arch!NoWork
<1>2. CASE archivePc' = "complete" /\ work' = base
  BY <1>1, <1>2
<1>3. ASSUME NEW s \in Arch!Streams, archivePc' = "read",
             work' = [base EXCEPT !.scan = Arch!Maintenance(s),
                                  !.generation = scans[Arch!Maintenance(s)].generation,
                                  !.cursor = scans[Arch!Maintenance(s)].cursor]
      PROVE  /\ archivePc' \in {"complete", "read"} /\ work' \in Works
             /\ work'.started = a /\ work'.since = b
             /\ archivePc' = "read" =>
                   /\ work'.scan \in Arch!Scans /\ work'.scan[1] = "maintenance"
                   /\ work'.cursor \subseteq Arch!Times /\ work'.next \subseteq Arch!Times
  <2> DEFINE k == Arch!Maintenance(s)
  <2>1. /\ k \in Arch!Scans /\ k[1] = "maintenance"
        /\ scans[k].generation \in Nat /\ scans[k].cursor \subseteq Arch!Times
    BY ScanNames DEF Arch!Scan
  <2> HIDE DEF k, base
  <2>2. work' \in Works /\ work'.scan = k /\ work'.cursor = scans[k].cursor
        /\ work'.next = base.next /\ work'.started = base.started /\ work'.since = base.since
    BY <1>1, <1>3, <2>1 DEF Works, k
  <2> QED
    BY <1>1, <1>3, <2>1, <2>2
<1>4. \/ archivePc' = "complete" /\ work' = base
      \/ \E s \in Arch!Streams :
            /\ archivePc' = "read"
            /\ work' = [base EXCEPT !.scan = Arch!Maintenance(s),
                                    !.generation = scans[Arch!Maintenance(s)].generation,
                                    !.cursor = scans[Arch!Maintenance(s)].cursor]
  BY <1>1, StreamFollows
<1> QED
  BY <1>2, <1>3, <1>4

-----------------------------------------------------------------------------
(* The shape of the state. *)

LEMMA ArchiveStarts == Arch!Init => ArchiveTypes /\ Past /\ Archiving
<1> SUFFICES ASSUME Arch!Init PROVE ArchiveTypes /\ Past /\ Archiving
  OBVIOUS
<1>1. /\ clock = 1 /\ 1 \in Arch!Times /\ 0 \in Arch!Times
      /\ \A n \in Arch!Times : n \in Nat
  BY ArchiveFacts DEF Arch!Init, Arch!Times
<1>2. updated \in [Arch!Items -> Arch!Times] /\ stored \in [Arch!Items -> Arch!Times]
      /\ \A i \in Arch!Items : updated[i] \in {0, 1}
  BY <1>1 DEF Arch!Init
<1>3. item \in [Arch!Items -> Arch!Item] /\ \A i \in Arch!Items : item[i].evidence = 0
  BY <1>1 DEF Arch!Init, Arch!Item
<1>4. scan \in [Arch!Scans -> Arch!Scan] /\ \A k \in Arch!Scans : scan[k].cursor = {}
  BY DEF Arch!Init, Arch!Scan
<1>5. /\ archive \in Arch!Archive /\ archive.watermark = 0 /\ archive.started = 0
      /\ archive.completed = 0
  BY <1>1 DEF Arch!Init, Arch!Archive
<1>6. ArchiveTypes
  <2>1. \A s \in Arch!Streams : scan[Arch!Maintenance(s)].cursor \subseteq Arch!Times
    BY <1>4, ScanNames
  <2>2. moves \in 0 .. MaxMoves /\ early \in BOOLEAN /\ archivePc = "idle" /\ work = Arch!NoWork
    <3>1. moves = 0 /\ early = FALSE /\ archivePc = "idle" /\ work = Arch!NoWork
      BY Zenon DEF Arch!Init
    <3>2. moves \in 0 .. MaxMoves
      BY <3>1, ArchiveFacts
    <3>3. early \in BOOLEAN
      BY <3>1, Zenon
    <3> QED
      BY <3>1, <3>2, <3>3, Zenon
  <2>3. archivePc \in Arch!PCs /\ work \in Works
    BY <2>2, WorkTypes DEF Arch!PCs
  <2> QED
    BY <1>1, <1>2, <1>3, <1>4, <1>5, <2>1, <2>2, <2>3 DEF ArchiveTypes
<1>7. Past
  <2>1. archivePc = "idle" /\ work.started = 0
    BY DEF Arch!Init, Arch!NoWork
  <2> QED
    BY <1>1, <1>2, <1>3, <1>5, <2>1 DEF Past
<1>8. Archiving
  BY <1>1, <1>2, <1>5
     DEF Archiving, Bounded, Listed, Shown, Synced, Arch!Kept, Arch!Init
<1> QED
  BY <1>6, <1>7, <1>8

\* What a page adds to an item.
LEMMA ObservedTyped ==
    ASSUME NEW it \in Arch!Item, NEW seen \in Arch!Times
    PROVE  /\ Arch!Observed(it, seen) \in Arch!Item
           /\ Arch!Observed(it, seen).evidence = it.evidence \/ Arch!Observed(it, seen).evidence = seen
           /\ it.status \in {"pending", "failed"} =>
                 Arch!Observed(it, seen).status \in {"pending", "failed"}
           /\ work.scan[1] = "maintenance" /\ seen >= it.evidence =>
                 Arch!Observed(it, seen).status = "pending"
           /\ it.status = "complete" => Arch!Observed(it, seen).status \in {"pending", "complete"}
<1>1. it.evidence \in Nat /\ seen \in Nat /\ it.evidence \in Arch!Times
  BY ArchiveFacts DEF Arch!Item, Arch!Times
<1>2. Arch!Max({it.evidence, seen}) \in {it.evidence, seen}
  <2>1. \E x \in {it.evidence, seen} : \A y \in {it.evidence, seen} : x >= y
    BY <1>1
  <2> QED
    BY <2>1 DEF Arch!Max
<1> DEFINE top == Arch!Max({it.evidence, seen})
<1> HIDE DEF top
<1>3. top \in Arch!Times /\ (top = it.evidence \/ top = seen)
  BY <1>1, <1>2 DEF top
<1>4. CASE it.status = "absent"
  <2>1. Arch!Observed(it, seen) = [it EXCEPT !.evidence = seen, !.status = "pending"]
    BY <1>4 DEF Arch!Observed
  <2> QED
    BY <1>1, <1>4, <2>1 DEF Arch!Item
<1>5. CASE it.status # "absent"
  <2> DEFINE reopen == work.scan[1] = "maintenance" /\ seen >= it.evidence
  <2>1. Arch!Observed(it, seen) =
          [evidence |-> top, status |-> IF reopen THEN "pending" ELSE it.status,
           generation |-> IF reopen THEN it.generation + 2 ELSE it.generation]
    BY <1>5 DEF Arch!Observed, top
  <2>2. CASE reopen
    BY <1>3, <1>5, <2>1, <2>2 DEF Arch!Item
  <2>3. CASE ~reopen
    BY <1>3, <1>5, <2>1, <2>3 DEF Arch!Item
  <2> QED
    BY <2>2, <2>3
<1> QED
  BY <1>4, <1>5

\* The transactions' completion mark is a time.
LEMMA InitialTyped ==
    ASSUME ArchiveTypes, NEW scans, NEW items PROVE Arch!InitialTime(scans, items) \in Arch!Times
  BY DEF Arch!InitialTime, ArchiveTypes, Arch!Archive

\* The archive row's fields.
LEMMA RowTypes ==
    ASSUME ArchiveTypes
    PROVE  /\ archive.watermark \in Arch!Times /\ archive.started \in Arch!Times
           /\ archive.since \in Arch!Times /\ archive.completed \in Arch!Times
           /\ clock \in Nat /\ Arch!Times \subseteq Nat /\ 0 \in Arch!Times /\ 1 \in Arch!Times
  BY ArchiveFacts DEF ArchiveTypes, Arch!Archive, Arch!Times

LEMMA FreshTypes ==
    ASSUME ArchiveTypes
    PROVE  /\ Arch!Fresh \in [Arch!Scans -> Arch!Scan]
           /\ \A s \in Arch!Streams : /\ Arch!Fresh[Arch!Maintenance(s)].cursor = {}
                                 /\ Arch!Fresh[Arch!Maintenance(s)].status = "pending"
<1>1. ASSUME NEW k \in Arch!Scans PROVE Arch!Reset(k) \in Arch!Scan
  BY <1>1 DEF ArchiveTypes, Arch!Scan, Arch!Reset
<1>2. Arch!Fresh \in [Arch!Scans -> Arch!Scan]
  BY <1>1 DEF Arch!Fresh, ArchiveTypes
<1>3. ASSUME NEW s \in Arch!Streams PROVE Arch!Fresh[Arch!Maintenance(s)] = Arch!Reset(Arch!Maintenance(s))
  BY <1>3, ScanNames DEF Arch!Fresh
<1>4. \A k : Arch!Reset(k).cursor = {} /\ Arch!Reset(k).status = "pending"
  BY DEF Arch!Reset
<1> QED
  BY <1>2, <1>3, <1>4, Zenon

\* What Begin may do.
LEMMA Begins ==
    ASSUME ArchiveTypes, Arch!Begin
    PROVE  \/ /\ archivePc' = "idle" /\ work' = Arch!NoWork /\ UNCHANGED << archive, scan >>
           \/ /\ archive.started # 0 /\ UNCHANGED << archive, scan >>
              /\ Arch!NextStream({}, scan, Arch!Boundary(archive.started, archive.since))
           \/ /\ archive.started = 0
              /\ archive' = [archive EXCEPT !.started = clock, !.since = work.since]
              /\ scan' = Arch!Fresh
              /\ Arch!NextStream({}, Arch!Fresh, Arch!Boundary(clock, work.since))
  BY Zenon DEF Arch!Begin, Arch!Goes

\* The end of a stream of pages.
LEMMA StreamEndsTyped ==
    ASSUME ArchiveTypes, NEW scans \in [Arch!Scans -> Arch!Scan], archivePc \in {"read", "commit"},
           \A s \in Arch!Streams : scans[Arch!Maintenance(s)].cursor \subseteq Arch!Times,
           Arch!StreamEnds(scans)
    PROVE  /\ archivePc' \in {"idle", "complete", "read"} /\ work' \in Works
           /\ archivePc' = "read" =>
                 /\ work'.scan \in Arch!Scans /\ work'.scan[1] = "maintenance"
                 /\ work'.cursor \subseteq Arch!Times /\ work'.next \subseteq Arch!Times
           /\ archivePc' # "idle" => /\ work.scan[1] = "maintenance"
                              /\ work'.started = work.started /\ work'.since = work.since
<1>1. work.started \in Arch!Times /\ work.since \in Arch!Times
  BY DEF ArchiveTypes, Works
<1>2. CASE work.scan[1] = "inventory"
  BY <1>2, WorkTypes DEF Arch!StreamEnds, Arch!Goes
<1>3. CASE work.scan[1] # "inventory"
  <2>1. PICK past : Arch!NextStream(past, scans, Arch!Boundary(work.started, work.since))
    BY <1>3 DEF Arch!StreamEnds
  <2>2. work.scan[1] = "maintenance"
    BY <1>3, ScanNames DEF ArchiveTypes
  <2>3. /\ archivePc' \in {"complete", "read"} /\ work' \in Works
        /\ work'.started = work.started /\ work'.since = work.since
        /\ archivePc' = "read" =>
              /\ work'.scan \in Arch!Scans /\ work'.scan[1] = "maintenance"
              /\ work'.cursor \subseteq Arch!Times /\ work'.next \subseteq Arch!Times
    BY <1>1, <2>1, FollowsTyped
  <2> QED
    BY <2>2, <2>3
<1> QED
  BY <1>2, <1>3

\* A page goes into the items and the scan's row in one transaction, or nowhere.
Merged == [i \in Arch!Items |-> IF work.page[i] # 0 THEN Arch!Observed(item[i], work.page[i])
                                               ELSE item[i]]
Advanced == [scan EXCEPT ![work.scan].cursor = work.next,
                         ![work.scan].status = IF work.exhausted THEN "complete"
                                                                 ELSE "running"]
NextPage == [Arch!Boundary(work.started, work.since) EXCEPT
               !.scan = work.scan, !.generation = work.generation, !.cursor = work.next]

LEMMA Commits ==
    ASSUME ArchiveTypes, Arch!CommitPage
    PROVE  /\ archivePc = "commit" /\ UNCHANGED << clock, updated, stored, moves, early >>
           /\ \/ /\ scan[work.scan].cursor = work.cursor
                 /\ item' = Merged /\ scan' = Advanced
                 /\ archive' = [archive EXCEPT !.deferred = FALSE,
                                               !.completed = Arch!InitialTime(Advanced, Merged)]
              \/ UNCHANGED << archive, scan, item >>
           /\ \/ Arch!StreamEnds(scan')
              \/ work.scan[1] = "maintenance" /\ archivePc' = "read" /\ work' = NextPage
<1>1. work.scan \in Arch!Scans
  BY DEF ArchiveTypes, Arch!CommitPage
<1>2. work.scan[1] = "inventory" \/ work.scan[1] = "maintenance"
  BY <1>1, ScanNames
<1>3. /\ archivePc = "commit" /\ UNCHANGED << Arch!world, Arch!move >>
      /\ IF archive.active /\ Arch!MayAdvance
         THEN /\ item' = Merged /\ scan' = Advanced
              /\ archive' = [archive EXCEPT !.deferred = FALSE,
                                            !.completed = Arch!InitialTime(Advanced, Merged)]
         ELSE UNCHANGED << archive, scan, item >>
      /\ IF (archive.active /\ ~Arch!MayAdvance) \/ work.exhausted \/ work.scan[1] = "inventory"
         THEN Arch!StreamEnds(scan')
         ELSE archivePc' = "read" /\ work' = NextPage
  BY Zenon DEF Arch!CommitPage, Merged, Advanced, NextPage
<1>4. UNCHANGED << clock, updated, stored, moves, early >>
  BY <1>3 DEF Arch!world, Arch!move
<1>5. archive.active /\ Arch!MayAdvance => scan[work.scan].cursor = work.cursor
  BY DEF Arch!MayAdvance
<1> QED
  BY <1>2, <1>3, <1>4, <1>5, Zenon

LEMMA MergedTyped ==
    ASSUME ArchiveTypes
    PROVE  /\ Merged \in [Arch!Items -> Arch!Item]
           /\ archivePc = "commit" => Advanced \in [Arch!Scans -> Arch!Scan]
           /\ archivePc = "commit" => \A s \in Arch!Streams :
                 Advanced[Arch!Maintenance(s)].cursor \subseteq Arch!Times
<1>1. ASSUME NEW i \in Arch!Items
      PROVE  (IF work.page[i] # 0 THEN Arch!Observed(item[i], work.page[i]) ELSE item[i]) \in Arch!Item
  <2>1. item[i] \in Arch!Item /\ work.page[i] \in Arch!Times
    BY DEF ArchiveTypes, Works
  <2> QED
    BY <2>1, ObservedTyped
<1>2. Merged \in [Arch!Items -> Arch!Item]
  BY <1>1 DEF Merged
<1>3. ASSUME archivePc = "commit" PROVE Advanced \in [Arch!Scans -> Arch!Scan]
  <2>1. work.scan \in Arch!Scans /\ work.next \in SUBSET (Arch!Items \union Arch!Times)
    BY <1>3 DEF ArchiveTypes, Works
  <2>2. scan[work.scan] \in Arch!Scan
    BY <2>1 DEF ArchiveTypes
  <2>3. [scan[work.scan] EXCEPT !.cursor = work.next,
                                !.status = IF work.exhausted THEN "complete" ELSE "running"]
          \in Arch!Scan
    BY <2>1, <2>2 DEF Arch!Scan
  <2>4. Advanced = [scan EXCEPT ![work.scan] =
          [@ EXCEPT !.cursor = work.next,
                    !.status = IF work.exhausted THEN "complete" ELSE "running"]]
    BY <2>1 DEF Advanced, ArchiveTypes
  <2> QED
    BY <2>1, <2>3, <2>4 DEF ArchiveTypes
<1>4. ASSUME archivePc = "commit", NEW s \in Arch!Streams
      PROVE  Advanced[Arch!Maintenance(s)].cursor \subseteq Arch!Times
  <2>1. work.scan \in Arch!Scans /\ Arch!Maintenance(s) \in Arch!Scans
    BY <1>4, ScanNames DEF ArchiveTypes
  <2>2. CASE work.scan = Arch!Maintenance(s)
    <3>1. work.next \subseteq Arch!Times
      BY <1>4, <2>2, ScanNames DEF ArchiveTypes
    <3>2. Advanced[Arch!Maintenance(s)].cursor = work.next
      BY <2>1, <2>2 DEF Advanced, ArchiveTypes, Arch!Scan
    <3> QED
      BY <3>1, <3>2
  <2>3. CASE work.scan # Arch!Maintenance(s)
    BY <2>1, <2>3 DEF Advanced, ArchiveTypes
  <2> QED
    BY <2>2, <2>3
<1> QED
  BY <1>2, <1>3, <1>4

\* What an action changes of the row, and what it leaves of the worker.
LEMMA ArchiveTypesStep == ArchiveTypes /\ [Arch!Next]_(Arch!vars) => ArchiveTypes'
<1> SUFFICES ASSUME ArchiveTypes, [Arch!Next]_(Arch!vars) PROVE ArchiveTypes'
  OBVIOUS
<1>0. /\ archive.watermark \in Arch!Times /\ archive.started \in Arch!Times
      /\ archive.since \in Arch!Times /\ archive.completed \in Arch!Times
      /\ clock \in Nat /\ Arch!Times \subseteq Nat /\ 0 \in Arch!Times /\ 1 \in Arch!Times
  BY RowTypes
<1> DEFINE Provider == clock \in Arch!Times /\ updated \in [Arch!Items -> Arch!Times]
                         /\ stored \in [Arch!Items -> Arch!Times]
           Row    == moves \in 0 .. MaxMoves /\ early \in BOOLEAN /\ archive \in Arch!Archive
           Rows   == scan \in [Arch!Scans -> Arch!Scan] /\ item \in [Arch!Items -> Arch!Item]
                       /\ \A s \in Arch!Streams : scan[Arch!Maintenance(s)].cursor \subseteq Arch!Times
           Worker == /\ archivePc \in Arch!PCs /\ work \in Works
                     /\ archivePc \in {"read", "commit"} => work.scan \in Arch!Scans
                     /\ archivePc \in {"sync", "settle"} => work.item[1] \in Arch!Items
                     /\ archivePc \in {"read", "commit"} /\ work.scan[1] = "maintenance" =>
                           work.cursor \subseteq Arch!Times /\ work.next \subseteq Arch!Times
<1>a. Provider /\ Row /\ Rows /\ Worker
  BY DEF ArchiveTypes
<1>b. Provider' /\ Row' /\ Rows' /\ Worker' => ArchiveTypes'
  BY DEF ArchiveTypes
<1>c. UNCHANGED << clock, updated, stored >> => Provider'
  BY <1>a
<1>d. UNCHANGED << moves, early, archive >> => Row'
  BY <1>a
<1>e. UNCHANGED << scan, item >> => Rows'
  BY <1>a
<1>f. UNCHANGED << archivePc, work >> => Worker'
  BY <1>a
<1>g. archivePc' = "idle" /\ work' = Arch!NoWork => Worker'
  BY WorkTypes DEF Arch!PCs
<1>1. CASE Arch!Tick
  <2>1. Provider'
    BY <1>1, <1>a, ArchiveFacts DEF Arch!Tick, Arch!Times
  <2> QED
    BY <1>1, <2>1, <1>b, <1>d, <1>e, <1>f DEF Arch!Tick, Arch!move
<1>2. ASSUME NEW i \in Arch!Items, Arch!Update(i) PROVE ArchiveTypes'
  <2>1. Provider'
    BY <1>2, <1>a, <1>0 DEF Arch!Update
  <2> QED
    BY <1>2, <2>1, <1>b, <1>d, <1>e, <1>f DEF Arch!Update, Arch!move
<1>3. CASE Arch!Pause \/ Arch!Start \/ Arch!RetryDue
  <2>1. archive' \in Arch!Archive
    <3>1. CASE Arch!Pause
      BY <3>1, <1>a DEF Arch!Pause, Arch!Archive
    <3>2. CASE Arch!Start
      <4>1. Arch!InitialTime(scan, item) \in Arch!Times
        BY InitialTyped
      <4> QED
        BY <3>2, <4>1, <1>a DEF Arch!Start, Arch!Archive
    <3>3. CASE Arch!RetryDue
      BY <3>3, <1>a DEF Arch!RetryDue, Arch!Archive
    <3> QED
      BY <1>3, <3>1, <3>2, <3>3
  <2> QED
    BY <1>3, <2>1, <1>a, <1>b, <1>c, <1>e, <1>f DEF Arch!Pause, Arch!Start, Arch!RetryDue, Arch!world,
      Arch!move
<1>4. CASE Arch!QueuePrompt
  <2>1. Arch!Coalesced \in Arch!Times
    BY <1>0 DEF Arch!Coalesced
  <2>2. archive' \in Arch!Archive
    BY <1>4, <1>a, <1>0, <2>1 DEF Arch!QueuePrompt, Arch!Archive
  <2>4. moves' \in 0 .. MaxMoves
    BY <1>4, <1>a, ArchiveFacts DEF Arch!QueuePrompt
  <2>3. early' \in BOOLEAN
    BY <1>4, Zenon DEF Arch!QueuePrompt
  <2> QED
    BY <1>4, <2>2, <2>3, <2>4, <1>b, <1>c, <1>e, <1>f DEF Arch!QueuePrompt, Arch!world
<1>5. ASSUME NEW s \in Arch!Streams, Arch!StartInventory(s) PROVE ArchiveTypes'
  <2>1. Arch!Inventory(s) \in Arch!Scans /\ scan[Arch!Inventory(s)] \in Arch!Scan
          /\ Arch!Inventory(s)[1] # "maintenance"
    BY <1>a, ScanNames
  <2>2. /\ archivePc' = "read"
        /\ work' = [work EXCEPT !.scan = Arch!Inventory(s),
                                !.generation = scan[Arch!Inventory(s)].generation,
                                !.cursor = scan[Arch!Inventory(s)].cursor]
    BY <1>5 DEF Arch!StartInventory, Arch!Takes
  <2>3. work' \in Works /\ work'.scan = Arch!Inventory(s)
    BY <1>a, <2>1, <2>2 DEF Works, Arch!Scan
  <2>4. Worker'
    BY <2>1, <2>2, <2>3 DEF Arch!PCs
  <2> QED
    BY <1>5, <2>4, <1>b, <1>c, <1>d, <1>e DEF Arch!StartInventory, Arch!world, Arch!move
<1>6. CASE Arch!StartPrompt
  <2>1. Worker'
    BY <1>6, <1>0, WorkTypes DEF Arch!StartPrompt, Works, Arch!PCs
  <2> QED
    BY <1>6, <2>1, <1>b, <1>c, <1>d, <1>e DEF Arch!StartPrompt, Arch!world, Arch!move
<1>7. ASSUME NEW i \in Arch!Items, Arch!StartHydration(i) PROVE ArchiveTypes'
  <2>1. item[i].generation \in Nat
    BY <1>a DEF Arch!Item
  <2>2. << i >> \in Seq(Arch!Items) /\ << i >>[1] = i
    OBVIOUS
  <2>3. work' \in Works /\ work'.item = << i >>
    BY <1>7, <2>1, <2>2, WorkTypes DEF Arch!StartHydration, Works
  <2>4. Worker'
    BY <1>7, <2>2, <2>3 DEF Arch!StartHydration, Arch!PCs
  <2> QED
    BY <1>7, <2>4, <1>b, <1>c, <1>d, <1>e DEF Arch!StartHydration, Arch!world, Arch!move
<1>8. CASE Arch!Drop
  <2>1. Row'
    BY <1>8, <1>a DEF Arch!Drop, Arch!Archive, Arch!move
  <2> QED
    BY <1>8, <2>1, <1>b, <1>c, <1>e, <1>g DEF Arch!Drop, Arch!Goes, Arch!world
<1>9. CASE Arch!Begin
  <2>0. /\ UNCHANGED << clock, updated, stored, item, moves, early >> /\ archivePc = "begin"
        /\ work.since \in Arch!Times
    BY <1>9, <1>a DEF Arch!Begin, Arch!world, Arch!move, Works
  <2>1. CASE archivePc' = "idle" /\ work' = Arch!NoWork /\ UNCHANGED << archive, scan >>
    BY <2>0, <2>1, <1>b, <1>c, <1>d, <1>e, <1>g
  <2>2. CASE /\ UNCHANGED << archive, scan >>
             /\ Arch!NextStream({}, scan, Arch!Boundary(archive.started, archive.since))
    <3>1. Worker'
      BY <2>2, <1>0, <1>a, FollowsTyped DEF Arch!PCs
    <3> QED
      BY <2>0, <2>2, <3>1, <1>b, <1>c, <1>d, <1>e
  <2>3. CASE /\ archive' = [archive EXCEPT !.started = clock, !.since = work.since]
             /\ scan' = Arch!Fresh
             /\ Arch!NextStream({}, Arch!Fresh, Arch!Boundary(clock, work.since))
    <3>1. \A s \in Arch!Streams : Arch!Fresh[Arch!Maintenance(s)].cursor \subseteq Arch!Times
      BY FreshTypes
    <3>2. Worker'
      BY <2>0, <2>3, <3>1, <1>a, FollowsTyped, FreshTypes DEF Arch!PCs
    <3>3. Row'
      BY <2>0, <2>3, <1>a DEF Arch!Archive
    <3>4. Rows'
      BY <2>0, <2>3, <3>1, <1>a, FreshTypes
    <3> QED
      BY <2>0, <3>2, <3>3, <3>4, <1>b, <1>c
  <2> QED
    BY <1>9, <2>1, <2>2, <2>3, Begins
<1>10. CASE Arch!SkipStream
  <2>1. Worker'
    BY <1>10, <1>a, <1>g, StreamEndsTyped DEF Arch!SkipStream, Arch!PCs
  <2> QED
    BY <1>10, <2>1, <1>b, <1>c, <1>d, <1>e DEF Arch!SkipStream, Arch!world, Arch!move
<1>11. ASSUME NEW items \in SUBSET Arch!Items, NEW next, NEW exhausted \in BOOLEAN,
              Arch!Page(items, next, exhausted), archivePc = "read",
              next \in SUBSET (Arch!Items \union Arch!Times),
              work.scan[1] = "maintenance" => next \subseteq Arch!Times,
              UNCHANGED << Arch!world, archive, scan, item, Arch!move >>
       PROVE  ArchiveTypes'
  <2>1. [i \in Arch!Items |-> IF i \in items THEN updated[i] ELSE 0] \in [Arch!Items -> Arch!Times]
    BY <1>a, <1>0
  <2>2. /\ work' \in Works /\ work'.scan = work.scan /\ work'.cursor = work.cursor
        /\ work'.next = next /\ archivePc' = "commit"
    BY <1>11, <2>1, <1>a DEF Arch!Page, Works
  <2>3. Worker'
    BY <1>11, <2>2, <1>a DEF Arch!PCs
  <2> QED
    BY <1>11, <2>3, <1>b, <1>c, <1>d, <1>e DEF Arch!world, Arch!move
<1>12. CASE Arch!ReadInventory
  <2> DEFINE rest == {i \in Arch!ItemsOf[work.scan[2]] : updated[i] # 0} \ work.cursor
  <2>1. work.scan \in Arch!Scans /\ archivePc = "read" /\ work.scan[1] # "maintenance"
    BY <1>12, <1>a DEF Arch!ReadInventory
  <2>2. rest \subseteq Arch!Items /\ work.cursor \in SUBSET (Arch!Items \union Arch!Times)
    BY <2>1, <1>a, ScanNames, StreamItems DEF Works
  <2>3. PICK items \in SUBSET rest :
              \/ items # {} /\ Arch!Page(items, work.cursor \union items, FALSE)
              \/ items = rest /\ Arch!Page(items, {}, TRUE)
    BY <1>12 DEF Arch!ReadInventory
  <2>4. work.cursor \union items \in SUBSET (Arch!Items \union Arch!Times)
    BY <2>2, <2>3
  <2>5. UNCHANGED << Arch!world, archive, scan, item, Arch!move >>
    BY <1>12 DEF Arch!ReadInventory
  <2>6. items \in SUBSET Arch!Items
    BY <2>2, <2>3
  <2> HIDE DEF rest
  <2>7. CASE Arch!Page(items, work.cursor \union items, FALSE)
    BY <1>11, <2>1, <2>4, <2>5, <2>6, <2>7
  <2>8. CASE Arch!Page(items, {}, TRUE)
    <3> DEFINE next == {}
    <3>1. next \in SUBSET (Arch!Items \union Arch!Times) /\ next \subseteq Arch!Times
      OBVIOUS
    <3>2. Arch!Page(items, next, TRUE)
      BY <2>8
    <3> HIDE DEF next
    <3> QED
      BY <1>11, <2>1, <2>5, <2>6, <3>1, <3>2
  <2> QED
    BY <2>3, <2>7, <2>8
<1>13. CASE Arch!ReadUpdated
  <2> DEFINE newest == IF work.cursor = {} THEN clock ELSE Arch!Min(work.cursor) - 1
  <2>1. work.scan \in Arch!Scans /\ archivePc = "read" /\ work.scan[1] = "maintenance"
        /\ work.cursor \subseteq Arch!Times /\ work.since \in Arch!Times
    BY <1>13, <1>a DEF Arch!ReadUpdated, Works
  <2>2. newest < MaxTime + 1 /\ newest \in Int
    BY <2>1, <1>a, <1>0, LeastTime, ArchiveFacts DEF Arch!Times
  <2>3. PICK oldest \in work.since .. newest :
             LET items == {i \in Arch!ItemsOf[work.scan[2]] : updated[i] \in oldest .. newest}
             IN  IF oldest = work.since
                 THEN Arch!Page(items, {}, TRUE)
                 ELSE Arch!Page(items, work.cursor \union (oldest .. newest), FALSE)
    BY <1>13 DEF Arch!ReadUpdated
  <2> DEFINE items == {i \in Arch!ItemsOf[work.scan[2]] : updated[i] \in oldest .. newest}
  <2>4. oldest .. newest \subseteq Arch!Times
    BY <2>1, <2>2, ArchiveFacts DEF Arch!Times
  <2>5. items \in SUBSET Arch!Items
    BY <2>1, ScanNames, StreamItems
  <2>6. UNCHANGED << Arch!world, archive, scan, item, Arch!move >>
    BY <1>13 DEF Arch!ReadUpdated
  <2> DEFINE none == {}
             next == work.cursor \union (oldest .. newest)
  <2>7. /\ none \in SUBSET (Arch!Items \union Arch!Times) /\ none \subseteq Arch!Times
        /\ next \in SUBSET (Arch!Items \union Arch!Times) /\ next \subseteq Arch!Times
    BY <2>1, <2>4
  <2>8. Arch!Page(items, none, TRUE) \/ Arch!Page(items, next, FALSE)
    BY <2>3
  <2> HIDE DEF items, none, next, newest
  <2>9. CASE Arch!Page(items, none, TRUE)
    BY <1>11, <2>1, <2>5, <2>6, <2>7, <2>9
  <2>10. CASE Arch!Page(items, next, FALSE)
    BY <1>11, <2>1, <2>5, <2>6, <2>7, <2>10
  <2> QED
    BY <2>8, <2>9, <2>10
<1>14. CASE Arch!ReadFails
  <2>0. /\ archivePc = "read" /\ work.scan \in Arch!Scans
        /\ UNCHANGED << clock, updated, stored, item, moves, early >>
    BY <1>14, <1>a DEF Arch!ReadFails, Arch!world, Arch!move
  <2>1. CASE /\ scan' = IF Arch!Claimed THEN [scan EXCEPT ![work.scan].status = "blocked"] ELSE scan
             /\ Arch!StreamEnds(scan') /\ UNCHANGED archive
    <3>1. scan' \in [Arch!Scans -> Arch!Scan]
      BY <2>0, <2>1, <1>a DEF Arch!Scan
    <3>2. \A k \in Arch!Scans : scan'[k].cursor = scan[k].cursor
      BY <2>0, <2>1, <1>a DEF Arch!Scan
    <3>3. Rows'
      BY <2>0, <3>1, <3>2, <1>a, ScanNames
    <3>4. Worker'
      BY <2>0, <2>1, <3>3, <1>g, StreamEndsTyped DEF Arch!PCs
    <3> QED
      BY <2>0, <2>1, <3>3, <3>4, <1>b, <1>c, <1>d
  <2>2. CASE /\ archive' = [archive EXCEPT !.deferred = @ \/ Arch!Claimed]
             /\ Arch!Goes("idle") /\ UNCHANGED scan
    <3>1. archive' \in Arch!Archive
      BY <2>2, <1>a DEF Arch!Archive
    <3> QED
      BY <2>0, <2>2, <3>1, <1>a, <1>b, <1>c, <1>e, <1>g DEF Arch!Goes
  <2> QED
    BY <1>14, <2>1, <2>2 DEF Arch!ReadFails
<1>15. CASE Arch!CommitPage
  <2>0. archivePc = "commit" /\ UNCHANGED << clock, updated, stored, moves, early >>
    BY <1>15, Commits
  <2>1. Row' /\ Rows'
    <3>1. CASE UNCHANGED << archive, scan, item >>
      BY <2>0, <3>1, <1>d, <1>e
    <3>2. CASE /\ item' = Merged /\ scan' = Advanced
               /\ archive' = [archive EXCEPT !.deferred = FALSE,
                                             !.completed = Arch!InitialTime(Advanced, Merged)]
      <4>1. Arch!InitialTime(Advanced, Merged) \in Arch!Times
        BY InitialTyped
      <4>2. archive' \in Arch!Archive
        BY <3>2, <4>1, <1>a DEF Arch!Archive
      <4> QED
        BY <2>0, <3>2, <4>2, <1>a, MergedTyped
    <3> QED
      BY <1>15, <3>1, <3>2, Commits
  <2>2. Worker'
    <3>1. CASE Arch!StreamEnds(scan')
      BY <2>0, <2>1, <3>1, <1>g, StreamEndsTyped DEF Arch!PCs
    <3>2. CASE work.scan[1] = "maintenance" /\ archivePc' = "read" /\ work' = NextPage
      <4>1. /\ work.started \in Arch!Times /\ work.since \in Arch!Times /\ work.generation \in Nat
            /\ work.scan \in Arch!Scans /\ work.next \subseteq Arch!Times
        BY <2>0, <3>2, <1>a DEF Works
      <4>2. Arch!Boundary(work.started, work.since) \in Works
            /\ Arch!Boundary(work.started, work.since).next = {}
        BY <4>1, WorkTypes DEF Arch!Boundary, Arch!NoWork
      <4>3. /\ work' \in Works /\ work'.scan = work.scan /\ work'.cursor = work.next
            /\ work'.next = {}
        BY <3>2, <4>1, <4>2 DEF NextPage, Works
      <4> QED
        BY <3>2, <4>1, <4>3 DEF Arch!PCs
    <3> QED
      BY <1>15, <3>1, <3>2, Commits
  <2> QED
    BY <2>0, <2>1, <2>2, <1>b, <1>c
<1>16. CASE Arch!CompletePrompt
  <2>1. archive' \in Arch!Archive /\ Rows'
    <3>1. CASE UNCHANGED << archive, scan >>
      BY <1>16, <3>1, <1>a DEF Arch!CompletePrompt
    <3>2. CASE /\ archive' = [archive EXCEPT !.watermark = work.started, !.succeeded = clock,
                                          !.started = 0, !.since = 0, !.deferred = FALSE]
               /\ scan' = Arch!Fresh
      <4>1. work.started \in Arch!Times
        BY <1>a DEF Works
      <4>2. archive' \in Arch!Archive
        BY <3>2, <4>1, <1>a, <1>0 DEF Arch!Archive
      <4>3. \A s \in Arch!Streams : Arch!Fresh[Arch!Maintenance(s)].cursor \subseteq Arch!Times
        BY FreshTypes
      <4> QED
        BY <1>16, <3>2, <4>2, <4>3, <1>a, FreshTypes DEF Arch!CompletePrompt
    <3> QED
      BY <1>16, <3>1, <3>2 DEF Arch!CompletePrompt
  <2> QED
    BY <1>16, <2>1, <1>a, <1>b, <1>c, <1>g DEF Arch!CompletePrompt, Arch!Goes, Arch!world, Arch!move
<1>17. CASE Arch!SyncItem
  <2>1. Provider'
    BY <1>17, <1>a DEF Arch!SyncItem
  <2>2. Worker'
    BY <1>17, <1>a DEF Arch!SyncItem, Arch!PCs
  <2> QED
    BY <1>17, <2>1, <2>2, <1>b, <1>d, <1>e DEF Arch!SyncItem, Arch!move
<1>18. CASE Arch!SyncFails \/ Arch!SettleItem
  <2>0. archivePc \in {"sync", "settle"} /\ work.item[1] \in Arch!Items
    BY <1>18, <1>a DEF Arch!SyncFails, Arch!SettleItem
  <2>1. item' \in [Arch!Items -> Arch!Item]
    BY <1>18, <2>0, <1>a DEF Arch!SyncFails, Arch!SettleItem, Arch!Item
  <2>2. archive' \in Arch!Archive
    <3>1. CASE Arch!SyncFails
      BY <3>1, <1>a DEF Arch!SyncFails, Arch!Archive
    <3>2. CASE Arch!SettleItem
      <4> DEFINE items == [item EXCEPT ![work.item[1]].status = "complete"]
      <4>1. Arch!InitialTime(scan, items) \in Arch!Times
        BY InitialTyped
      <4>2. \/ archive' = [archive EXCEPT !.deferred = FALSE,
                                          !.completed = Arch!InitialTime(scan, items)]
            \/ UNCHANGED archive
        BY <3>2 DEF Arch!SettleItem
      <4> HIDE DEF items
      <4> QED
        BY <4>1, <4>2, <1>a DEF Arch!Archive
    <3> QED
      BY <1>18, <3>1, <3>2
  <2> QED
    BY <1>18, <2>1, <2>2, <1>a, <1>b, <1>c, <1>g DEF Arch!SyncFails, Arch!SettleItem, Arch!Goes,
      Arch!world, Arch!move
<1>19. CASE UNCHANGED Arch!vars
  BY <1>19, <1>b, <1>c, <1>d, <1>e, <1>f DEF Arch!vars
<1> QED
  BY <1>1, <1>2, <1>3, <1>4, <1>5, <1>6, <1>7, <1>8, <1>9, <1>10, <1>12, <1>13, <1>14,
     <1>15, <1>16, <1>17, <1>18, <1>19 DEF Arch!Next

-----------------------------------------------------------------------------
(* Marks and observations lie in the past. *)

LEMMA PastStep == ArchiveTypes /\ Past /\ [Arch!Next]_(Arch!vars) => Past'
<1> SUFFICES ASSUME ArchiveTypes, Past, [Arch!Next]_(Arch!vars) PROVE Past'
  OBVIOUS
<1>0. /\ archive.watermark \in Nat /\ archive.started \in Nat /\ archive.completed \in Nat /\ clock \in Nat
      /\ Arch!Times \subseteq Nat /\ Arch!NoWork.started = 0
  BY RowTypes DEF Arch!NoWork
<1> DEFINE Marks == /\ clock >= 1 /\ archive.watermark <= clock /\ archive.completed <= clock
                    /\ archive.started <= clock /\ work.started <= clock
           Seen  == \A i \in Arch!Items : updated[i] <= clock /\ item[i].evidence <= updated[i]
           Paged == archivePc = "commit" => \A i \in Arch!Items : work.page[i] <= updated[i]
<1>a. Marks /\ Seen /\ Paged /\ (Marks' /\ Seen' /\ Paged' => Past')
  BY DEF Past
<1>b. \A i \in Arch!Items : updated[i] \in Nat /\ item[i].evidence \in Nat /\ work.page[i] \in Nat
      /\ work.page[i] \in Arch!Times /\ item[i] \in Arch!Item
  BY <1>0 DEF ArchiveTypes, Arch!Item, Works
<1>c. work.started \in Nat /\ work.since \in Nat /\ work.started \in Arch!Times
      /\ work.since \in Arch!Times
  BY <1>0 DEF ArchiveTypes, Works
<1>d. UNCHANGED << clock, updated, item >> => Seen'
  BY <1>a
<1>e. UNCHANGED << clock, archive >> /\ work'.started <= clock => Marks'
  BY <1>a
<1>f. UNCHANGED << updated, archivePc, work >> => Paged'
  BY <1>a
<1>1. CASE Arch!Tick
  <2>1. clock' = clock + 1 /\ UNCHANGED << updated, stored, archive, scan, item, archivePc, work >>
    BY <1>1 DEF Arch!Tick
  <2>2. Marks' /\ Seen'
    BY <2>1, <1>a, <1>0, <1>b, <1>c
  <2> QED
    BY <2>1, <2>2, <1>a, <1>f
<1>2. ASSUME NEW j \in Arch!Items, Arch!Update(j) PROVE Past'
  <2>1. /\ updated' = [updated EXCEPT ![j] = clock]
        /\ UNCHANGED << clock, archive, item, archivePc, work >>
    BY <1>2 DEF Arch!Update
  <2>2. \A i \in Arch!Items : updated'[i] >= updated[i] /\ updated'[i] <= clock
                         /\ updated'[i] \in Nat
    BY <2>1, <1>a, <1>0, <1>b DEF ArchiveTypes
  <2> QED
    BY <2>1, <2>2, <1>a, <1>b, <1>e
<1>3. ASSUME UNCHANGED << clock, updated, item, archivePc, work >>, archive' \in Arch!Archive,
             archive'.watermark <= clock, archive'.completed <= clock,
             archive'.started = archive.started
      PROVE  Past'
  BY <1>3, <1>a, <1>d, <1>f
<1>4. archive \in Arch!Archive /\ \A scans, items : Arch!InitialTime(scans, items) <= clock
  BY <1>a, <1>0 DEF Arch!InitialTime, ArchiveTypes
<1>5. CASE Arch!Pause \/ Arch!RetryDue
  BY <1>3, <1>4, <1>5, <1>a DEF Arch!Pause, Arch!RetryDue, Arch!Archive, Arch!world
<1>6. CASE Arch!Start
  <2>1. Arch!InitialTime(scan, item) <= clock /\ Arch!InitialTime(scan, item) \in Arch!Times
    BY <1>4, InitialTyped
  <2> QED
    BY <1>3, <1>4, <1>6, <2>1, <1>a DEF Arch!Start, Arch!Archive, Arch!world
<1>7. CASE Arch!QueuePrompt
  <2>1. Arch!Coalesced <= clock /\ Arch!Coalesced \in Arch!Times
    BY <1>a, <1>0, RowTypes DEF Arch!Coalesced
  <2>2. /\ archive' = [archive EXCEPT !.watermark = Arch!Coalesced, !.succeeded = 0]
        /\ UNCHANGED << clock, updated, item, archivePc, work >> /\ 0 \in Arch!Times
    BY <1>7, RowTypes DEF Arch!QueuePrompt, Arch!world
  <2> QED
    BY <1>3, <1>4, <2>1, <2>2, <1>a DEF Arch!Archive
<1>8. ASSUME NEW s \in Arch!Streams, Arch!StartInventory(s) PROVE Past'
  <2>1. work' = [work EXCEPT !.scan = Arch!Inventory(s), !.generation = scan[Arch!Inventory(s)].generation,
                             !.cursor = scan[Arch!Inventory(s)].cursor] /\ archivePc' = "read"
        /\ UNCHANGED << clock, updated, item, archive >>
    BY <1>8 DEF Arch!StartInventory, Arch!Takes, Arch!world
  <2>2. work'.started = work.started
    BY <2>1 DEF ArchiveTypes, Works
  <2> QED
    BY <2>1, <2>2, <1>a, <1>d, <1>e
<1>9. ASSUME UNCHANGED << clock, updated, item, archive >>, archivePc' # "commit",
             work'.started <= clock
      PROVE  Past'
  BY <1>9, <1>a, <1>d, <1>e
<1>10. CASE Arch!StartPrompt \/ (\E i \in Arch!Items : Arch!StartHydration(i))
  <2>1. work'.started = 0 /\ archivePc' # "commit"
    BY <1>10 DEF Arch!StartPrompt, Arch!StartHydration, Arch!NoWork
  <2>2. UNCHANGED << clock, updated, item, archive >>
    BY <1>10 DEF Arch!StartPrompt, Arch!StartHydration, Arch!world
  <2> QED
    BY <1>9, <1>0, <2>1, <2>2
<1>11. CASE Arch!Drop \/ Arch!SyncFails
  <2>1. /\ archive' \in Arch!Archive /\ archive'.watermark = archive.watermark
        /\ archive'.completed = archive.completed /\ archive'.started = archive.started
    BY <1>4, <1>11 DEF Arch!Drop, Arch!SyncFails, Arch!Archive
  <2>2. archivePc' = "idle" /\ work' = Arch!NoWork /\ UNCHANGED << clock, updated >>
    BY <1>11 DEF Arch!Drop, Arch!SyncFails, Arch!Goes, Arch!world
  <2>3. \A i \in Arch!Items : item'[i].evidence = item[i].evidence
    BY <1>11, <1>b DEF Arch!Drop, Arch!SyncFails, ArchiveTypes, Arch!Item
  <2> QED
    BY <2>1, <2>2, <2>3, <1>0, <1>a
<1>12. CASE Arch!Begin
  <2>0. UNCHANGED << clock, updated, item >>
    BY <1>12 DEF Arch!Begin, Arch!world
  <2>1. CASE archivePc' = "idle" /\ work' = Arch!NoWork /\ UNCHANGED << archive, scan >>
    BY <2>0, <2>1, <1>0, <1>9
  <2>2. CASE /\ UNCHANGED << archive, scan >>
             /\ Arch!NextStream({}, scan, Arch!Boundary(archive.started, archive.since))
    <3>1. archivePc' # "commit" /\ work'.started = archive.started
      BY <2>2, RowTypes, FollowsTyped DEF ArchiveTypes
    <3> QED
      BY <2>0, <2>2, <3>1, <1>9, <1>a
  <2>3. CASE /\ archive' = [archive EXCEPT !.started = clock, !.since = work.since]
             /\ scan' = Arch!Fresh
             /\ Arch!NextStream({}, Arch!Fresh, Arch!Boundary(clock, work.since))
    <3>1. \A s \in Arch!Streams : Arch!Fresh[Arch!Maintenance(s)].cursor \subseteq Arch!Times
      BY FreshTypes
    <3>2. archivePc' # "commit" /\ work'.started = clock
      BY <2>3, <3>1, <1>c, FollowsTyped, FreshTypes DEF ArchiveTypes
    <3>3. /\ archive'.watermark = archive.watermark /\ archive'.started = clock
          /\ archive'.completed = archive.completed
      BY <2>3, <1>4 DEF Arch!Archive
    <3> QED
      BY <2>0, <3>2, <3>3, <1>0, <1>a, <1>d
  <2> QED
    BY <1>12, <2>1, <2>2, <2>3, Begins
<1>13. ASSUME NEW scans \in [Arch!Scans -> Arch!Scan], archivePc \in {"read", "commit"},
                Arch!StreamEnds(scans),
              \A s \in Arch!Streams : scans[Arch!Maintenance(s)].cursor \subseteq Arch!Times
       PROVE  archivePc' # "commit" /\ work'.started <= clock
  <2>1. archivePc' = "idle" => work' = Arch!NoWork
    BY <1>13, StreamFollows, WorkTypes, <1>c DEF Arch!StreamEnds, Arch!Goes
  <2> QED
    BY <1>13, <2>1, <1>0, <1>a, StreamEndsTyped
<1>14. CASE Arch!SkipStream
  <2>1. archivePc' # "commit" /\ work'.started <= clock
    BY <1>13, <1>14 DEF Arch!SkipStream, ArchiveTypes
  <2> QED
    BY <1>9, <1>14, <2>1 DEF Arch!SkipStream, Arch!world
<1>15. CASE Arch!ReadFails
  <2>0. UNCHANGED << clock, updated, item >> /\ archivePc = "read" /\ work.scan \in Arch!Scans
    BY <1>15 DEF Arch!ReadFails, Arch!world, ArchiveTypes
  <2>1. CASE /\ scan' = IF Arch!Claimed THEN [scan EXCEPT ![work.scan].status = "blocked"] ELSE scan
             /\ Arch!StreamEnds(scan') /\ UNCHANGED archive
    <3>1. scan' \in [Arch!Scans -> Arch!Scan]
      BY <2>0, <2>1 DEF Arch!Scan, ArchiveTypes
    <3>2. \A k \in Arch!Scans : scan'[k].cursor = scan[k].cursor
      BY <2>0, <2>1 DEF Arch!Scan, ArchiveTypes
    <3>3. \A s \in Arch!Streams : scan'[Arch!Maintenance(s)].cursor \subseteq Arch!Times
      BY <3>2, ScanNames DEF ArchiveTypes
    <3>4. archivePc' # "commit" /\ work'.started <= clock
      BY <1>13, <2>0, <2>1, <3>1, <3>3
    <3> QED
      BY <1>9, <2>0, <2>1, <3>4
  <2>2. CASE /\ archive' = [archive EXCEPT !.deferred = @ \/ Arch!Claimed]
             /\ Arch!Goes("idle") /\ UNCHANGED scan
    <3>1. /\ archive'.watermark = archive.watermark
          /\ archive'.completed = archive.completed /\ archive'.started = archive.started
      BY <1>4, <2>2 DEF Arch!Archive
    <3> QED
      BY <2>0, <2>2, <3>1, <1>0, <1>a, <1>d DEF Arch!Goes
  <2> QED
    BY <1>15, <2>1, <2>2 DEF Arch!ReadFails
<1>16. ASSUME NEW items, NEW next, NEW exhausted, Arch!Page(items, next, exhausted),
              UNCHANGED << Arch!world, archive, scan, item, Arch!move >>
       PROVE  Past'
  <2>1. /\ work'.page = [i \in Arch!Items |-> IF i \in items THEN updated[i] ELSE 0]
        /\ work'.started = work.started
    BY <1>16 DEF Arch!Page, ArchiveTypes, Works
  <2>2. \A i \in Arch!Items : work'.page[i] <= updated[i]
    BY <2>1, <1>b
  <2> QED
    BY <1>16, <2>1, <2>2, <1>a, <1>d, <1>e DEF Arch!world
<1>17. CASE Arch!ReadInventory \/ Arch!ReadUpdated
  <2>1. \E items, next, exhausted : Arch!Page(items, next, exhausted)
    BY <1>17 DEF Arch!ReadInventory, Arch!ReadUpdated
  <2>2. UNCHANGED << Arch!world, archive, scan, item, Arch!move >>
    BY <1>17 DEF Arch!ReadInventory, Arch!ReadUpdated
  <2> QED
    BY <1>16, <2>1, <2>2
<1>18. CASE Arch!CommitPage
  <2>0. /\ archivePc = "commit" /\ UNCHANGED << clock, updated >>
        /\ work.scan \in Arch!Scans
    BY <1>18, Commits DEF ArchiveTypes
  <2>1. archivePc' # "commit" /\ work'.started <= clock
    <3>1. CASE Arch!StreamEnds(scan')
      <4>1. scan' \in [Arch!Scans -> Arch!Scan]
            /\ \A s \in Arch!Streams : scan'[Arch!Maintenance(s)].cursor \subseteq Arch!Times
        BY <1>18, <2>0, Commits, MergedTyped DEF ArchiveTypes
      <4> QED
        BY <1>13, <2>0, <3>1, <4>1
    <3>2. CASE archivePc' = "read" /\ work' = NextPage
      <4>1. Arch!Boundary(work.started, work.since) \in Works
            /\ Arch!Boundary(work.started, work.since).started = work.started
        BY <1>c, WorkTypes DEF Arch!Boundary, Arch!NoWork
      <4>2. work'.started = work.started
        BY <3>2, <4>1 DEF NextPage, Works
      <4> QED
        BY <3>2, <4>2, <1>a
    <3> QED
      BY <1>18, <3>1, <3>2, Commits
  <2>2. CASE UNCHANGED << archive, scan, item >>
    BY <1>9, <2>0, <2>1, <2>2
  <2>3. CASE /\ item' = Merged /\ scan' = Advanced
             /\ archive' = [archive EXCEPT !.deferred = FALSE,
                                           !.completed = Arch!InitialTime(Advanced, Merged)]
    <3>1. Arch!InitialTime(Advanced, Merged) <= clock
      BY <1>4
    <3>2. /\ archive'.watermark = archive.watermark /\ archive'.started = archive.started
          /\ archive'.completed <= clock
      BY <1>4, <2>3, <3>1 DEF Arch!Archive
    <3>3. ASSUME NEW i \in Arch!Items PROVE item'[i].evidence <= updated[i]
      <4>1. CASE work.page[i] = 0
        BY <2>3, <4>1, <1>a DEF Merged
      <4>2. CASE work.page[i] # 0
        <5>1. item'[i] = Arch!Observed(item[i], work.page[i])
          BY <2>3, <4>2 DEF Merged
        <5>2. item'[i].evidence = item[i].evidence \/ item'[i].evidence = work.page[i]
          BY <5>1, <1>b, ObservedTyped
        <5> QED
          BY <2>0, <5>2, <1>a
      <4> QED
        BY <4>1, <4>2
    <3> QED
      BY <2>0, <2>1, <3>2, <3>3, <1>a
  <2> QED
    BY <1>18, <2>2, <2>3, Commits
<1>19. CASE Arch!CompletePrompt
  <2>1. archivePc' = "idle" /\ work' = Arch!NoWork /\ UNCHANGED << clock, updated, item >>
    BY <1>19 DEF Arch!CompletePrompt, Arch!Goes, Arch!world
  <2>2. CASE UNCHANGED << archive, scan >>
    BY <1>9, <1>0, <2>1, <2>2
  <2>3. CASE archive' = [archive EXCEPT !.watermark = work.started, !.succeeded = clock,
                                        !.started = 0, !.since = 0, !.deferred = FALSE]
    <3>1. archive'.watermark = work.started /\ archive'.started = 0
          /\ archive'.completed = archive.completed
      BY <1>4, <2>3 DEF Arch!Archive
    <3> QED
      BY <2>1, <3>1, <1>0, <1>a, <1>d
  <2> QED
    BY <1>19, <2>2, <2>3 DEF Arch!CompletePrompt
<1>20. CASE Arch!SyncItem
  BY <1>9, <1>20, <1>a DEF Arch!SyncItem
<1>21. CASE Arch!SettleItem
  <2> DEFINE items == [item EXCEPT ![work.item[1]].status = "complete"]
  <2>1. \/ item' = items /\ archive' = [archive EXCEPT !.deferred = FALSE,
                                              !.completed = Arch!InitialTime(scan, items)]
        \/ UNCHANGED << archive, item >>
    BY <1>21 DEF Arch!SettleItem
  <2>2. archivePc' = "idle" /\ work' = Arch!NoWork /\ UNCHANGED << clock, updated >>
    BY <1>21 DEF Arch!SettleItem, Arch!Goes, Arch!world
  <2>3. Arch!InitialTime(scan, items) <= clock
    BY <1>4
  <2>4. \A i \in Arch!Items : items[i].evidence = item[i].evidence
    BY <1>b DEF ArchiveTypes, Arch!Item
  <2>5. \A i \in Arch!Items : item'[i].evidence = item[i].evidence
    BY <2>1, <2>4, Zenon
  <2> HIDE DEF items
  <2>6. /\ archive'.watermark = archive.watermark /\ archive'.started = archive.started
        /\ archive'.completed <= clock
    BY <2>1, <2>3, <1>4, <1>a DEF Arch!Archive
  <2> QED
    BY <2>2, <2>5, <2>6, <1>0, <1>a
<1>22. CASE UNCHANGED Arch!vars
  BY <1>22, <1>a DEF Arch!vars
<1> QED
  BY <1>1, <1>2, <1>5, <1>6, <1>7, <1>8, <1>10, <1>11, <1>12, <1>14, <1>15, <1>17, <1>18,
     <1>19, <1>20, <1>21, <1>22 DEF Arch!Next

-----------------------------------------------------------------------------
(* No update falls between the scans. *)

LEMMA ArchivingStep ==
    ASSUME ArchiveTypes, ArchiveTypes', Past, Archiving, ~early', [Arch!Next]_(Arch!vars)
    PROVE  Archiving'
<1>0. /\ archive.watermark \in Nat /\ archive.started \in Nat /\ archive.since \in Nat
      /\ clock \in Nat /\ Arch!Times \subseteq Nat /\ archive \in Arch!Archive
      /\ \A i \in Arch!Items : updated[i] \in Nat /\ updated[i] <= clock /\ item[i] \in Arch!Item
      /\ \A i \in Arch!Items : item[i].evidence <= updated[i] /\ item[i].evidence \in Nat
      /\ archive.watermark <= clock /\ archive.started <= clock /\ clock >= 1
  BY RowTypes DEF ArchiveTypes, Past, Arch!Item
<1> DEFINE Same == /\ archive'.watermark = archive.watermark
                   /\ archive'.started = archive.started /\ archive'.since = archive.since
           WaitsOn == \A i \in Arch!Items :
              /\ Waits(i)
              /\ updated[i] < archive.watermark \/ updated[i] < archive.started
              => Waits(i)'
           NoMore == \A s \in Arch!Streams : \A i \in Arch!ItemsOf[s] :
              Arch!Complete(Arch!Maintenance(s))' \/ Behind(i, scan[Arch!Maintenance(s)].cursor)'
                 => Arch!Complete(Arch!Maintenance(s)) \/ Behind(i, scan[Arch!Maintenance(s)].cursor)
           Later == /\ (\/ archivePc' = "complete"
                        \/ archivePc' \in {"read", "commit"} /\ work'.scan[1] = "maintenance")
                         => /\ archive.started # 0
                            /\ work'.started = archive.started /\ work'.since = archive.since
                    /\ archivePc' # "begin"
<1> HIDE DEF Same, WaitsOn, NoMore, Later
<1>a. Bounded /\ Listed /\ Shown /\ Synced /\ \A i \in Arch!Items : Arch!Kept(i)
  BY DEF Archiving
<1>b. Bounded' /\ Listed' /\ Shown' /\ Synced' /\ (\A i \in Arch!Items : Arch!Kept(i)') => Archiving'
  BY DEF Archiving
<1>c. ASSUME Same, UNCHANGED updated, WaitsOn PROVE \A i \in Arch!Items : Arch!Kept(i)'
  BY <1>c, <1>a, <1>0 DEF Arch!Kept, Same, WaitsOn, Waits
<1>d. ASSUME Same, UNCHANGED updated, WaitsOn, NoMore PROVE Listed'
  <2> SUFFICES ASSUME archive.started # 0, NEW s \in Arch!Streams, NEW i \in Arch!ItemsOf[s], InScan(i)',
                      Arch!Complete(Arch!Maintenance(s))' \/ Behind(i, scan[Arch!Maintenance(s)].cursor)'
               PROVE  Waits(i)'
    BY <1>d DEF Listed, Same
  <2>1. i \in Arch!Items
    BY StreamItems
  <2>2. InScan(i) /\ updated[i] < archive.started
    BY <1>d, <1>0, <2>1 DEF InScan, Same
  <2>3. Waits(i)
    BY <1>a, <1>d, <2>2 DEF Listed, NoMore
  <2> QED
    BY <1>d, <2>1, <2>2, <2>3 DEF WaitsOn
<1>e. ASSUME Same, Later PROVE Bounded'
  BY <1>a, <1>e DEF Bounded, Same, Later, Resume
<1>f. archivePc' # "settle" => Synced'
  BY DEF Synced
<1>g. archivePc' # "commit" \/ work'.scan[1] # "maintenance" => Shown'
  BY DEF Shown
<1>h. UNCHANGED << updated, scan >> => NoMore
  BY DEF NoMore, Arch!Complete, Behind
<1>i. UNCHANGED << updated, stored, item >> => WaitsOn
  BY DEF WaitsOn, Waits
<1>j. UNCHANGED archive => Same
  BY DEF Same
\* A step of the worker that changes neither the row's marks nor the items.
<1>k. ASSUME UNCHANGED << updated, stored, scan, item >>, Same, Later,
             archivePc' # "settle", archivePc' # "commit" \/ work'.scan[1] # "maintenance"
      PROVE  Archiving'
  BY <1>k, <1>b, <1>c, <1>d, <1>e, <1>f, <1>g, <1>h, <1>i
<1>l. ASSUME UNCHANGED << updated, stored, scan, item, archivePc, work >>, Same PROVE Archiving'
  <2>1. Bounded'
    BY <1>a, <1>l DEF Bounded, Same, Resume
  <2>2. Shown'
    BY <1>a, <1>l DEF Shown, InScan, Behind, Same
  <2>3. Synced'
    BY <1>a, <1>l DEF Synced, Same
  <2> QED
    BY <1>l, <1>b, <1>c, <1>d, <1>h, <1>i, <2>1, <2>2, <2>3
<1>1. CASE Arch!Tick
  BY <1>1, <1>l, <1>j DEF Arch!Tick
<1>2. ASSUME NEW j \in Arch!Items, Arch!Update(j) PROVE Archiving'
  <2>1. /\ updated' = [updated EXCEPT ![j] = clock]
        /\ stored' = [stored EXCEPT ![j] = IF @ = clock THEN 0 ELSE @]
        /\ UNCHANGED << archive, scan, item, archivePc, work >>
    BY <1>2 DEF Arch!Update
  <2>2. updated'[j] = clock /\ \A i \in Arch!Items \ {j} : updated'[i] = updated[i]
                                                  /\ stored'[i] = stored[i]
    BY <2>1, <1>2 DEF ArchiveTypes
  <2>3. \A i \in Arch!Items : (updated'[i] < archive.watermark \/ updated'[i] < archive.started) =>
           i # j
    BY <2>2, <1>0
  <2>4. Bounded'
    BY <2>1, <1>a DEF Bounded, Resume
  <2>5. Listed'
    <3> SUFFICES ASSUME archive.started # 0, NEW s \in Arch!Streams, NEW i \in Arch!ItemsOf[s], InScan(i)',
                        Arch!Complete(Arch!Maintenance(s))' \/ Behind(i, scan[Arch!Maintenance(s)].cursor)'
                 PROVE  Waits(i)'
      BY <2>1 DEF Listed
    <3>1. i \in Arch!Items
      BY StreamItems
    <3>2. updated'[i] < archive.started
      BY <2>1, <2>2, <3>1, <1>0 DEF InScan
    <3>3. i # j /\ updated'[i] = updated[i]
      BY <2>2, <2>3, <3>1, <3>2
    <3>4. Waits(i)
      BY <1>a, <2>1, <3>3 DEF Listed, InScan, Arch!Complete, Behind
    <3> QED
      BY <2>1, <2>2, <3>1, <3>3, <3>4 DEF Waits
  <2>6. Shown'
    <3> SUFFICES ASSUME archivePc = "commit", work.scan[1] = "maintenance",
                        NEW i \in Arch!ItemsOf[work.scan[2]], InScan(i)', ~Behind(i, work.cursor)',
                        work.exhausted \/ Behind(i, work.next)'
                 PROVE  work.page[i] = updated'[i]
      BY <2>1 DEF Shown
    <3>1. i \in Arch!Items
      BY StreamItems, ScanNames DEF ArchiveTypes
    <3>2. updated'[i] < archive.started
      BY <2>1, <2>2, <3>1, <1>0 DEF InScan
    <3>3. i # j /\ updated'[i] = updated[i]
      BY <2>2, <2>3, <3>1, <3>2
    <3> QED
      BY <1>a, <2>1, <3>3 DEF Shown, InScan, Behind
  <2>7. Synced'
    <3> SUFFICES ASSUME archivePc = "settle" PROVE Synced'
      BY <2>1 DEF Synced
    <3>1. work.item[1] \in Arch!Items
      BY DEF ArchiveTypes
    <3> QED
      BY <1>a, <1>0, <2>1, <2>2, <3>1 DEF Synced
  <2>8. ASSUME NEW i \in Arch!Items PROVE Arch!Kept(i)'
    BY <1>a, <1>0, <2>1, <2>2, <2>3 DEF Arch!Kept
  <2> QED
    BY <1>b, <2>4, <2>5, <2>6, <2>7, <2>8
<1>3. CASE Arch!Pause \/ Arch!Start \/ Arch!RetryDue
  <2>1. Same
    BY <1>3, <1>0 DEF Same, Arch!Pause, Arch!Start, Arch!RetryDue, Arch!Archive
  <2> QED
    BY <1>3, <1>l, <2>1 DEF Arch!Pause, Arch!Start, Arch!RetryDue, Arch!world
<1>4. CASE Arch!QueuePrompt
  <2>1. archive.watermark # 0
    BY <1>4 DEF Arch!QueuePrompt
  <2>2. Arch!Coalesced = archive.watermark
    BY <2>1 DEF Arch!Coalesced
  <2>3. Same
    BY <1>4, <1>0, <2>2 DEF Same, Arch!QueuePrompt, Arch!Archive
  <2> QED
    BY <1>4, <1>l, <2>3 DEF Arch!QueuePrompt, Arch!world
<1>5. ASSUME NEW s \in Arch!Streams, Arch!StartInventory(s) PROVE Archiving'
  <2>1. work'.scan = Arch!Inventory(s) /\ archivePc' = "read"
    BY <1>5 DEF Arch!StartInventory, Arch!Takes, ArchiveTypes, Works
  <2>2. Later
    BY <2>1, ScanNames DEF Later
  <2> QED
    BY <1>5, <1>j, <1>k, <2>1, <2>2 DEF Arch!StartInventory, Arch!world
<1>6. CASE Arch!StartPrompt
  <2>1. archivePc' = "begin" /\ work'.since = Resume
          /\ UNCHANGED << clock, updated, stored, archive, scan, item >>
    BY <1>6 DEF Arch!StartPrompt, Resume, Arch!NoWork, Arch!world
  <2>2. Bounded'
    BY <1>a, <2>1 DEF Bounded, Resume
  <2> QED
    BY <2>1, <2>2, <1>b, <1>c, <1>d, <1>f, <1>g, <1>h, <1>i, <1>j
<1>7. ASSUME NEW i \in Arch!Items, Arch!StartHydration(i) PROVE Archiving'
  <2>1. Later /\ archivePc' = "sync"
    BY <1>7 DEF Arch!StartHydration, Later
  <2> QED
    BY <1>7, <1>j, <1>k, <2>1 DEF Arch!StartHydration, Arch!world
<1>8. CASE Arch!Drop
  <2>1. Same
    BY <1>8, <1>0 DEF Same, Arch!Drop, Arch!Archive
  <2>2. Later /\ archivePc' = "idle"
    BY <1>8 DEF Arch!Drop, Arch!Goes, Later
  <2> QED
    BY <1>8, <1>k, <2>1, <2>2 DEF Arch!Drop, Arch!world
<1>9. CASE Arch!Begin
  <2>0. UNCHANGED << updated, stored, item >> /\ archivePc = "begin" /\ work.since = Resume
    BY <1>9, <1>a DEF Arch!Begin, Arch!world, Bounded
  <2>1. CASE archivePc' = "idle" /\ work' = Arch!NoWork /\ UNCHANGED << archive, scan >>
    BY <2>0, <2>1, <1>j, <1>k DEF Later
  <2>2. CASE /\ archive.started # 0 /\ UNCHANGED << archive, scan >>
             /\ Arch!NextStream({}, scan, Arch!Boundary(archive.started, archive.since))
    <3>1. /\ archivePc' \in {"complete", "read"}
          /\ work'.started = archive.started /\ work'.since = archive.since
      BY <2>2, RowTypes, FollowsTyped DEF ArchiveTypes
    <3>2. Later
      BY <2>2, <3>1 DEF Later
    <3> QED
      BY <2>0, <2>2, <3>1, <3>2, <1>j, <1>k
  <2>3. CASE /\ archive' = [archive EXCEPT !.started = clock, !.since = work.since]
             /\ scan' = Arch!Fresh
             /\ Arch!NextStream({}, Arch!Fresh, Arch!Boundary(clock, work.since))
    <3>1. \A s \in Arch!Streams : Arch!Fresh[Arch!Maintenance(s)].cursor \subseteq Arch!Times
      BY FreshTypes
    <3>2. clock \in Arch!Times /\ work.since \in Arch!Times
      BY DEF ArchiveTypes, Works
    <3>3. archivePc' \in {"complete", "read"} /\ work'.started = clock /\ work'.since = work.since
      BY <2>3, <3>1, <3>2, FollowsTyped, FreshTypes
    <3>4. /\ archive'.watermark = archive.watermark /\ archive'.started = clock
          /\ archive'.since = work.since
      BY <2>3, <1>0 DEF Arch!Archive
    <3>5. Bounded'
      BY <1>0, <2>0, <3>3, <3>4 DEF Bounded, Resume
    <3>6. Listed'
      BY <2>3, FreshTypes DEF Listed, Arch!Complete, Behind
    <3>7. \A i \in Arch!Items : Arch!Kept(i)'
      BY <1>a, <2>0, <3>4 DEF Arch!Kept
    <3> QED
      BY <1>b, <1>f, <1>g, <3>3, <3>5, <3>6, <3>7
  <2> QED
    BY <1>9, <2>1, <2>2, <2>3, Begins
<1>10. ASSUME NEW scans \in [Arch!Scans -> Arch!Scan], archivePc \in {"read", "commit"},
                Arch!StreamEnds(scans),
              \A s \in Arch!Streams : scans[Arch!Maintenance(s)].cursor \subseteq Arch!Times
       PROVE  Later /\ archivePc' \in {"idle", "complete", "read"}
  BY <1>10, <1>a, StreamEndsTyped DEF Later, Bounded
<1>11. CASE Arch!SkipStream
  <2>1. Later /\ archivePc' \in {"idle", "complete", "read"}
    BY <1>10, <1>11 DEF Arch!SkipStream, ArchiveTypes
  <2> QED
    BY <1>11, <2>1, <1>j, <1>k DEF Arch!SkipStream, Arch!world
<1>12. CASE Arch!ReadInventory
  <2>1. /\ work.scan[1] = "inventory" /\ UNCHANGED << Arch!world, archive, scan, item, Arch!move >>
        /\ \E items, next, exhausted : Arch!Page(items, next, exhausted)
    BY <1>12 DEF Arch!ReadInventory
  <2>2. archivePc' = "commit" /\ work'.scan = work.scan
    BY <2>1 DEF Arch!Page, ArchiveTypes, Works
  <2>3. Later
    BY <2>1, <2>2 DEF Later
  <2> QED
    BY <2>1, <2>2, <2>3, <1>j, <1>k DEF Arch!world
<1>13. CASE Arch!ReadUpdated
  <2> DEFINE newest == IF work.cursor = {} THEN clock ELSE Arch!Min(work.cursor) - 1
  <2>1. /\ work.scan \in Arch!Scans /\ archivePc = "read" /\ work.scan[1] = "maintenance"
        /\ work.cursor \subseteq Nat /\ work.since \in Nat
        /\ UNCHANGED << clock, updated, stored, archive, scan, item >>
    BY <1>13, <1>0 DEF Arch!ReadUpdated, ArchiveTypes, Works, Arch!world
  <2>2. PICK oldest \in work.since .. newest :
             LET items == {i \in Arch!ItemsOf[work.scan[2]] : updated[i] \in oldest .. newest}
             IN  IF oldest = work.since
                 THEN Arch!Page(items, {}, TRUE)
                 ELSE Arch!Page(items, work.cursor \union (oldest .. newest), FALSE)
    BY <1>13 DEF Arch!ReadUpdated
  <2> DEFINE items == {i \in Arch!ItemsOf[work.scan[2]] : updated[i] \in oldest .. newest}
             next == work.cursor \union (oldest .. newest)
  <2>3. newest \in Int /\ oldest \in Nat /\ oldest >= work.since
    <3>1. newest \in Int
      BY <2>1, <1>0, LeastTime
    <3> QED
      BY <2>1, <3>1
  <2>4. \/ Arch!Page(items, {}, TRUE) /\ oldest = work.since
        \/ Arch!Page(items, next, FALSE)
    BY <2>2
  <2>5. /\ archivePc' = "commit" /\ work'.scan = work.scan /\ work'.cursor = work.cursor
        /\ work'.page = [i \in Arch!Items |-> IF i \in items THEN updated[i] ELSE 0]
        /\ work'.started = work.started /\ work'.since = work.since
        /\ \/ work'.exhausted /\ work'.next = {} /\ oldest = work.since
           \/ ~work'.exhausted /\ work'.next = next
    <3> HIDE DEF items, next
    <3> QED
      BY <2>4 DEF Arch!Page, ArchiveTypes, Works
  <2>6. archive.started # 0 /\ work.started = archive.started /\ work.since = archive.since
    BY <1>a, <2>1 DEF Bounded
  <2>7. Bounded'
    BY <2>1, <2>5, <2>6, <1>a DEF Bounded, Resume
  <2>8. Shown'
    <3> SUFFICES ASSUME NEW i \in Arch!ItemsOf[work.scan[2]], InScan(i)', ~Behind(i, work.cursor)',
                        work'.exhausted \/ Behind(i, work.next)'
                 PROVE  work'.page[i] = updated[i]
      BY <2>1, <2>5 DEF Shown
    <3>1. i \in Arch!Items /\ updated[i] \in Nat
      BY <2>1, <1>0, StreamItems, ScanNames
    <3>2. updated[i] >= work.since
      BY <2>1, <2>6, <3>1, <1>0 DEF InScan
    <3>3. \A t \in work.cursor : ~(t <= updated[i])
      BY <2>1, <2>5 DEF Behind
    <3>4. updated[i] <= newest
      <4>1. CASE work.cursor = {}
        BY <4>1, <3>1, <1>0
      <4>2. CASE work.cursor # {}
        <5>1. Arch!Min(work.cursor) \in work.cursor /\ Arch!Min(work.cursor) \in Nat
          BY <2>1, <4>2, LeastTime
        <5> QED
          BY <3>1, <3>3, <4>2, <5>1
      <4> QED
        BY <4>1, <4>2
    <3>5. updated[i] >= oldest
      <4>1. CASE oldest = work.since
        BY <3>2, <4>1
      <4>2. CASE ~work'.exhausted /\ work'.next = next
        <5>1. PICK t \in next : t <= updated[i]
          BY <2>1, <4>2 DEF Behind
        <5>2. t \in oldest .. newest
          BY <3>3, <5>1
        <5> QED
          BY <2>3, <3>1, <5>1, <5>2
      <4> QED
        BY <2>5, <4>1, <4>2
    <3>6. i \in items
      BY <2>3, <3>1, <3>4, <3>5
    <3> QED
      BY <2>5, <3>1, <3>6
  <2> QED
    BY <1>b, <1>c, <1>d, <1>f, <1>h, <1>i, <1>j, <2>1, <2>5, <2>7, <2>8
<1>14. CASE Arch!ReadFails
  <2>0. /\ archivePc = "read" /\ work.scan \in Arch!Scans /\ UNCHANGED << updated, stored, item >>
    BY <1>14 DEF Arch!ReadFails, Arch!world, ArchiveTypes
  <2>1. CASE /\ scan' = IF Arch!Claimed THEN [scan EXCEPT ![work.scan].status = "blocked"] ELSE scan
             /\ Arch!StreamEnds(scan') /\ UNCHANGED archive
    <3>1. scan' \in [Arch!Scans -> Arch!Scan]
          /\ \A s \in Arch!Streams : scan'[Arch!Maintenance(s)].cursor \subseteq Arch!Times
      BY DEF ArchiveTypes
    <3>2. \A k \in Arch!Scans : /\ scan'[k].cursor = scan[k].cursor
                           /\ scan'[k].status \in {scan[k].status, "blocked"}
      BY <2>0, <2>1 DEF ArchiveTypes, Arch!Scan
    <3>3. NoMore
      BY <2>0, <3>2, ScanNames DEF NoMore, Arch!Complete, Behind
    <3>4. Later /\ archivePc' \in {"idle", "complete", "read"}
      BY <1>10, <2>0, <2>1, <3>1
    <3> QED
      BY <2>0, <2>1, <3>3, <3>4, <1>b, <1>c, <1>d, <1>e, <1>f, <1>g, <1>i, <1>j
  <2>2. CASE /\ archive' = [archive EXCEPT !.deferred = @ \/ Arch!Claimed]
             /\ Arch!Goes("idle") /\ UNCHANGED scan
    <3>1. Same
      BY <2>2, <1>0 DEF Same, Arch!Archive
    <3>2. Later /\ archivePc' = "idle"
      BY <2>2 DEF Later, Arch!Goes
    <3> QED
      BY <2>0, <2>2, <3>1, <3>2, <1>k
  <2> QED
    BY <1>14, <2>1, <2>2 DEF Arch!ReadFails
<1>15. CASE Arch!CommitPage
  <2>0. /\ archivePc = "commit" /\ UNCHANGED << clock, updated, stored >>
        /\ work.scan \in Arch!Scans
    BY <1>15, Commits DEF ArchiveTypes
  <2>1. Later /\ archivePc' \in {"idle", "complete", "read"}
    <3>1. CASE Arch!StreamEnds(scan')
      BY <1>10, <2>0, <3>1 DEF ArchiveTypes
    <3>2. CASE work.scan[1] = "maintenance" /\ archivePc' = "read" /\ work' = NextPage
      <4>1. work.started \in Arch!Times /\ work.since \in Arch!Times
        BY DEF ArchiveTypes, Works
      <4>2. /\ Arch!Boundary(work.started, work.since) \in Works
            /\ Arch!Boundary(work.started, work.since).started = work.started
            /\ Arch!Boundary(work.started, work.since).since = work.since
        BY <4>1, WorkTypes DEF Arch!Boundary, Arch!NoWork
      <4>3. work'.started = work.started /\ work'.since = work.since
        BY <3>2, <4>2 DEF NextPage, Works
      <4> QED
        BY <2>0, <3>2, <4>3, <1>a DEF Later, Bounded
    <3> QED
      BY <1>15, <3>1, <3>2, Commits
  <2>2. CASE UNCHANGED << archive, scan, item >>
    BY <2>0, <2>1, <2>2, <1>j, <1>k
  <2>3. CASE /\ scan[work.scan].cursor = work.cursor
             /\ item' = Merged /\ scan' = Advanced
             /\ archive' = [archive EXCEPT !.deferred = FALSE,
                                           !.completed = Arch!InitialTime(Advanced, Merged)]
    <3>1. Same
      BY <2>3, <1>0 DEF Same, Arch!Archive
    <3>2. ASSUME NEW i \in Arch!Items
          PROVE  /\ Waits(i) => Waits(i)'
                 /\ work.scan[1] = "maintenance" /\ work.page[i] = updated[i]
                       /\ updated[i] # 0 => Waits(i)'
      <4>1. work.page[i] \in Arch!Times /\ item[i].evidence \in Nat /\ item[i].evidence <= updated[i]
        BY <1>0 DEF ArchiveTypes, Works
      <4>2. CASE work.page[i] = 0
        BY <2>0, <2>3, <4>2 DEF Merged, Waits
      <4>3. CASE work.page[i] # 0
        <5>1. item'[i] = Arch!Observed(item[i], work.page[i])
          BY <2>3, <4>3 DEF Merged
        <5>2. item[i] \in Arch!Item
          BY <1>0
        <5>3. /\ item[i].status \in {"pending", "failed"} =>
                    item'[i].status \in {"pending", "failed"}
              /\ work.scan[1] = "maintenance" /\ work.page[i] >= item[i].evidence =>
                    item'[i].status = "pending"
          BY <4>1, <5>1, <5>2, ObservedTyped
        <5> QED
          BY <2>0, <4>1, <5>3 DEF Waits
      <4> QED
        BY <4>2, <4>3
    <3>3. WaitsOn
      BY <3>2 DEF WaitsOn
    <3>4. Listed'
      <4> SUFFICES ASSUME archive.started # 0, NEW s \in Arch!Streams, NEW i \in Arch!ItemsOf[s],
                          InScan(i)',
                          Arch!Complete(Arch!Maintenance(s))'
                            \/ Behind(i, scan[Arch!Maintenance(s)].cursor)'
                   PROVE  Waits(i)'
        BY <3>1 DEF Listed, Same
      <4>1. i \in Arch!Items /\ InScan(i) /\ updated[i] \in Nat
        BY <1>0, <2>0, <3>1, StreamItems DEF InScan, Same
      <4>2. CASE work.scan # Arch!Maintenance(s)
        <5>1. scan'[Arch!Maintenance(s)] = scan[Arch!Maintenance(s)]
          BY <2>0, <2>3, <4>2, ScanNames DEF Advanced, ArchiveTypes
        <5> QED
          BY <2>0, <3>2, <4>1, <5>1, <1>a DEF Listed, Arch!Complete, Behind
      <4>3. CASE work.scan = Arch!Maintenance(s)
        <5>1. work.scan[1] = "maintenance" /\ work.scan[2] = s
          BY <4>3, ScanNames
        <5>2. CASE Behind(i, work.cursor)
          BY <2>3, <3>2, <4>1, <4>3, <5>2, <1>a DEF Listed
        <5>3. CASE ~Behind(i, work.cursor)
          <6>1. /\ scan'[work.scan].cursor = work.next
                /\ scan'[work.scan].status = "complete" => work.exhausted
            BY <2>0, <2>3 DEF Advanced, ArchiveTypes, Arch!Scan
          <6>2. work.exhausted \/ Behind(i, work.next)
            BY <2>0, <4>3, <6>1 DEF Arch!Complete, Behind
          <6>3. work.page[i] = updated[i]
            BY <2>0, <4>1, <5>1, <5>3, <6>2, <1>a DEF Shown
          <6>4. updated[i] # 0
            <7>1. archive.since >= 1
              BY <1>a, <1>0 DEF Bounded, Resume
            <7> QED
              BY <4>1, <7>1, <1>0 DEF InScan
          <6> QED
            BY <3>2, <4>1, <5>1, <6>3, <6>4
        <5> QED
          BY <5>2, <5>3
      <4> QED
        BY <4>2, <4>3
    <3> QED
      BY <2>0, <2>1, <3>1, <3>3, <3>4, <1>b, <1>c, <1>e, <1>f, <1>g
  <2> QED
    BY <1>15, <2>2, <2>3, Commits
<1>16. CASE Arch!CompletePrompt
  <2>0. /\ archivePc = "complete" /\ archivePc' = "idle" /\ UNCHANGED << clock, updated, stored, item >>
        /\ archive.started # 0 /\ work.started = archive.started
    BY <1>16, <1>a DEF Arch!CompletePrompt, Arch!Goes, Arch!world, Bounded
  <2>1. CASE UNCHANGED << archive, scan >>
    BY <2>0, <2>1, <1>j, <1>k DEF Later
  <2>2. CASE /\ \A s \in Arch!Streams : Arch!Complete(Arch!Maintenance(s))
             /\ archive' = [archive EXCEPT !.watermark = work.started, !.succeeded = clock,
                                        !.started = 0, !.since = 0, !.deferred = FALSE]
    <3>1. archive'.watermark = archive.started /\ archive'.started = 0
      BY <2>0, <2>2, <1>0 DEF Arch!Archive
    <3>2. ASSUME NEW i \in Arch!Items PROVE Arch!Kept(i)'
      <4> SUFFICES ASSUME updated[i] \in 1 .. archive.started - 1 PROVE Waits(i)
        BY <2>0, <3>1 DEF Arch!Kept, Waits
      <4>1. CASE updated[i] >= archive.since
        <5>1. PICK s \in Arch!Streams : i \in Arch!ItemsOf[s]
          BY StreamItems
        <5>2. InScan(i)
          BY <4>1, <1>0 DEF InScan
        <5> QED
          BY <1>a, <2>0, <2>2, <5>1, <5>2 DEF Listed
      <4>2. CASE ~(updated[i] >= archive.since)
        <5>1. archive.since = Resume
          BY <1>a, <2>0 DEF Bounded
        <5>2. updated[i] \in 1 .. archive.watermark - 1
          BY <4>2, <5>1, <1>0 DEF Resume
        <5> QED
          BY <1>a, <5>2 DEF Arch!Kept, Waits
      <4> QED
        BY <4>1, <4>2
    <3>3. Bounded' /\ Listed'
      BY <2>0, <3>1 DEF Bounded, Listed
    <3> QED
      BY <2>0, <3>2, <3>3, <1>b, <1>f, <1>g
  <2> QED
    BY <1>16, <2>1, <2>2 DEF Arch!CompletePrompt
<1>17. CASE Arch!SyncItem
  <2>0. /\ archivePc = "sync" /\ archivePc' = "settle" /\ work' = work /\ work.item[1] \in Arch!Items
        /\ stored' = [stored EXCEPT ![work.item[1]] = updated[work.item[1]]]
        /\ UNCHANGED << clock, updated, archive, scan, item >>
    BY <1>17 DEF Arch!SyncItem, ArchiveTypes
  <2>1. \A i \in Arch!Items : stored'[i] = IF i = work.item[1] THEN updated[i] ELSE stored[i]
    BY <2>0 DEF ArchiveTypes
  <2>2. WaitsOn
    BY <2>0, <2>1 DEF WaitsOn, Waits
  <2>3. Synced'
    BY <2>0, <2>1 DEF Synced
  <2>4. Later
    BY <2>0 DEF Later
  <2> QED
    BY <2>0, <2>2, <2>3, <2>4, <1>b, <1>c, <1>d, <1>e, <1>g, <1>h, <1>j
<1>18. CASE Arch!SyncFails
  <2>0. /\ archivePc \in {"sync", "settle"} /\ archivePc' = "idle" /\ work.item[1] \in Arch!Items
        /\ UNCHANGED << clock, updated, stored, scan >>
    BY <1>18 DEF Arch!SyncFails, Arch!Goes, Arch!world, ArchiveTypes
  <2>1. Same
    BY <1>18, <1>0 DEF Same, Arch!SyncFails, Arch!Archive
  <2>2. \A i \in Arch!Items : item'[i].status \in {item[i].status, "failed"}
    BY <1>18, <2>0, <1>0 DEF Arch!SyncFails, ArchiveTypes, Arch!Item
  <2>3. WaitsOn /\ Later
    BY <2>0, <2>2 DEF WaitsOn, Waits, Later
  <2> QED
    BY <2>0, <2>1, <2>3, <1>b, <1>c, <1>d, <1>e, <1>f, <1>g, <1>h
<1>19. CASE Arch!SettleItem
  <2> DEFINE items == [item EXCEPT ![work.item[1]].status = "complete"]
             j == work.item[1]
  <2>0. /\ archivePc = "settle" /\ archivePc' = "idle" /\ j \in Arch!Items
        /\ UNCHANGED << clock, updated, stored, scan >>
    BY <1>19 DEF Arch!SettleItem, Arch!Goes, Arch!world, ArchiveTypes
  <2>1. \/ item' = items /\ archive' = [archive EXCEPT !.deferred = FALSE,
                                              !.completed = Arch!InitialTime(scan, items)]
        \/ UNCHANGED << archive, item >>
    BY <1>19 DEF Arch!SettleItem
  <2>2. Same
    <3> HIDE DEF items
    <3> QED
      BY <2>1, <1>0 DEF Same, Arch!Archive
  <2>3. \A i \in Arch!Items \ {j} : item'[i] = item[i]
    BY <2>1, <1>0 DEF ArchiveTypes
  <2>4. stored[j] = updated[j] \/ ~(updated[j] < archive.watermark \/ updated[j] < archive.started)
    BY <1>a, <1>0, <2>0 DEF Synced
  <2>5. WaitsOn /\ Later
    BY <2>0, <2>3, <2>4 DEF WaitsOn, Waits, Later
  <2> QED
    BY <2>0, <2>2, <2>5, <1>b, <1>c, <1>d, <1>e, <1>f, <1>g, <1>h
<1>20. CASE UNCHANGED Arch!vars
  BY <1>20, <1>j, <1>l DEF Arch!vars
<1> QED
  BY <1>1, <1>2, <1>3, <1>4, <1>5, <1>6, <1>7, <1>8, <1>9, <1>11, <1>12, <1>13, <1>14,
     <1>15, <1>16, <1>17, <1>18, <1>19, <1>20 DEF Arch!Next

\* An exception once made stays made, and it is made only before the first
\* watermark.
LEMMA EarlyStays == [Arch!Next]_(Arch!vars) => (early => early')
<1> SUFFICES ASSUME [Arch!Next]_(Arch!vars), early PROVE early'
  OBVIOUS
<1> QED
  BY DEF Arch!Next, Arch!vars, Arch!move, Arch!Tick, Arch!Update, Arch!Pause, Arch!Start, Arch!RetryDue,
    Arch!QueuePrompt, Arch!StartInventory,
         Arch!StartPrompt, Arch!StartHydration, Arch!Drop, Arch!Begin, Arch!SkipStream,
           Arch!ReadInventory, Arch!ReadUpdated,
         Arch!ReadFails, Arch!CommitPage, Arch!CompletePrompt, Arch!SyncItem, Arch!SyncFails,
           Arch!SettleItem

LEMMA ArchiveInvSkips == Arch!Spec => []Arch!NoUpdateIsSkipped
<1>1. Arch!Init => ArchiveInv
  BY ArchiveStarts DEF ArchiveInv
<1>2. ArchiveInv /\ [Arch!Next]_(Arch!vars) => ArchiveInv'
  <2> SUFFICES ASSUME ArchiveInv, [Arch!Next]_(Arch!vars) PROVE ArchiveInv'
    OBVIOUS
  <2>1. ArchiveTypes' /\ Past'
    BY ArchiveTypesStep, PastStep DEF ArchiveInv
  <2>2. CASE early
    BY <2>1, <2>2, EarlyStays DEF ArchiveInv
  <2>3. CASE Archiving
    BY <2>1, <2>3, ArchivingStep DEF ArchiveInv
  <2> QED
    BY <2>2, <2>3 DEF ArchiveInv
<1>3. ArchiveInv => Arch!NoUpdateIsSkipped
  BY DEF ArchiveInv, Archiving, Arch!NoUpdateIsSkipped
<1> QED
  BY <1>1, <1>2, <1>3, PTL DEF Arch!Spec

\* Variables keep their types: above all the cursors of the scans, which name
\* items or times, and the row's marks, which are times.
THEOREM ArchiveTypeOK == Arch!Spec => []Arch!TypeOK
<1>1. Arch!Init => ArchiveTypes /\ Past
  BY ArchiveStarts DEF ArchiveInv
<1>2. (ArchiveTypes /\ Past) /\ [Arch!Next]_(Arch!vars) => (ArchiveTypes /\ Past)'
  BY ArchiveTypesStep, PastStep
<1>3. ArchiveTypes => Arch!TypeOK
  BY DEF ArchiveTypes, Arch!TypeOK
<1> QED
  BY <1>1, <1>2, <1>3, PTL DEF Arch!Spec

\* The archive passes over no update, whatever the merge queue does beside it,
\* through pauses between pages, updates during a scan and restarts.
THEOREM ArchiveSkipsNothing == MCSpec => []NoUpdateIsSkipped
<1>1. MCInit => Arch!Init
  BY DEF MCInit
<1>2. [MCNext]_<< vars, part, archiveVars >> => [Arch!Next]_(Arch!vars)
  BY DEF MCNext, archiveVars, Arch!vars
<1> QED
  BY <1>1, <1>2, ArchiveInvSkips, PTL DEF MCSpec, Arch!Spec, NoUpdateIsSkipped
=============================================================================
