------------------------------ MODULE SyncRun -------------------------------
(***************************************************************************)
(* The sync engine's single-flight slot (internal/github/sync.go).         *)
(*                                                                         *)
(* A pass over the configured repositories is started by the ticker        *)
(* (RunOnce) or by an explicit trigger (TriggerRun, TriggerRunWithPriority,*)
(* TriggerRunForRepos).  One pass owns the slot; requests accepted         *)
(* meanwhile are merged into one pending run, which the ending pass turns  *)
(* into its successor without giving the slot up.  Airplane mode may be    *)
(* switched at any time, and Stop races with all of it.  What happens      *)
(* inside a pass is the subject of SyncPass.                               *)
(*                                                                         *)
(* DisableSync is called before the syncer is exposed, so SyncEnabled is   *)
(* constantly true here.  Every daemon caller detaches its context before  *)
(* it triggers a run, so a triggered pass is canceled only by Stop, and    *)
(* the ticker's passes by Stop or by the daemon's root context.            *)
(***************************************************************************)
EXTENDS Integers, FiniteSets

CONSTANTS
    Repos,         \* configured repositories
    Runs,          \* goroutines started for claimed runs
    Ticker,        \* the background goroutine of Start
    NoPending,     \* s.pendingRun == nil
    Nobody,        \* no goroutine
    MaxTriggers    \* bound: explicit triggers

ASSUME RunAssumption ==
    /\ Ticker \notin Runs
    /\ Nobody \notin Runs \union {Ticker}
    /\ NoPending \notin [bypass : BOOLEAN, full : BOOLEAN, priority : SUBSET Repos,
                         only : SUBSET Repos, bypassRepos : SUBSET Repos]
    /\ MaxTriggers \in Nat

Procs == Runs \union {Ticker}

(* A pass and a pending run have the same five fields.  onlyRepos == nil   *)
(* in the code is full here; the lists are kept free of duplicates by the  *)
(* code (appendUniqueRepoRefs) and are sets here.                          *)
Requests == [bypass : BOOLEAN, full : BOOLEAN, priority : SUBSET Repos,
             only : SUBSET Repos, bypassRepos : SUBSET Repos]

VARIABLES
    pc,          \* where each goroutine is
    args,        \* the pass a goroutine runs, or is about to launch
    running,     \* s.running
    exclusive,   \* s.exclusiveRun
    pending,     \* s.pendingRun
    statusMu,    \* holder of s.statusMu across more than one step
    shown,       \* Running flag of the last published status
    airplane,    \* s.airplaneMode
    rootDone,    \* the context given to Start is done
    stop,        \* progress of Stop
    triggers,    \* explicit triggers so far
    (* Observation only. *)
    wanted,      \* repositories of accepted triggers that no pass has reached
    scoped,      \* the part of wanted asked for by name
    scheduled    \* a scheduled pass was accepted behind a scoped one

slot   == << running, exclusive, pending >>
ghosts == << wanted, scoped, scheduled >>
runVars == << pc, args, slot, statusMu, shown, airplane, rootDone, stop,
              triggers, ghosts >>

(* idle     - not running; the ticker waits in its select                  *)
(* admit    - the ticker read AutomaticSyncEnabled and goes for the slot   *)
(* claimed  - owns the slot, has not published Running                     *)
(* working  - inside the pass                                              *)
(* ending   - the pass is over, its deferred function starts               *)
(* publish  - gave the slot up, holds statusMu, publishes the result       *)
(* launch   - owns the slot for the follow-up in args                      *)
(* abandon  - the follow-up could not be launched                          *)
(* exited   - the ticker's goroutine returned                              *)
PCs == {"idle", "admit", "claimed", "working", "ending", "publish", "launch",
        "abandon", "exited"}

Owning == {"claimed", "working", "ending", "launch", "abandon"}
Owners == {g \in Procs : pc[g] \in Owning}

RunTypeOK ==
    /\ pc \in [Procs -> PCs]
    /\ args \in [Procs -> Requests]
    /\ running \in BOOLEAN
    /\ exclusive \in BOOLEAN
    /\ pending \in Requests \union {NoPending}
    /\ (pending # NoPending /\ pending.full) => pending.only = {}
    /\ statusMu \in Procs \union {Nobody}
    /\ shown \in BOOLEAN
    /\ airplane \in BOOLEAN
    /\ rootDone \in BOOLEAN
    /\ stop \in {"no", "marked", "canceled", "drained", "timedOut"}
    /\ triggers \in Nat
    /\ wanted \in SUBSET Repos
    /\ scoped \in SUBSET Repos
    /\ scheduled \in BOOLEAN

NoWork == [bypass |-> FALSE, full |-> TRUE, priority |-> {}, only |-> {},
           bypassRepos |-> {}]

RunInit ==
    /\ pc = [g \in Procs |-> "idle"]
    /\ args = [g \in Procs |-> NoWork]
    /\ running = FALSE
    /\ exclusive = FALSE
    /\ pending = NoPending
    /\ statusMu = Nobody
    /\ shown = FALSE
    /\ airplane \in BOOLEAN
    /\ rootDone = FALSE
    /\ stop = "no"
    /\ triggers = 0
    /\ wanted = {}
    /\ scoped = {}
    /\ scheduled = FALSE

stopped == stop # "no"

\* The context of g's pass is done.
CtxDone(g) == stop \notin {"no", "marked"} \/ (g = Ticker /\ rootDone)

\* Repositories that a pass dispatches past the cadence gate.
Reaches(r) ==
    LET selected == IF r.full THEN Repos ELSE r.only
    IN  IF r.bypass THEN selected ELSE selected \intersect r.bypassRepos

-----------------------------------------------------------------------------
(* coalescePendingRunLocked. *)

CoalesceLastWins(bypass, full, priority, only) ==                  \* mutant
    pending' = [bypass |-> bypass /\ full, full |-> full, priority |-> priority,
                only |-> only, bypassRepos |-> IF bypass /\ ~full THEN only ELSE {}]

Coalesce(bypass, full, priority, only) ==
    LET scopedNow == IF bypass /\ ~full THEN only ELSE {}
        old == IF pending # NoPending THEN pending
               ELSE [NoWork EXCEPT !.full = FALSE]
        nowFull == full \/ old.full
    IN  pending' =
          [bypass      |-> old.bypass \/ (bypass /\ full),
           full        |-> nowFull,
           priority    |-> old.priority \union priority
                             \union (IF nowFull THEN old.only \union only ELSE {}),
           only        |-> IF nowFull THEN {} ELSE old.only \union only,
           bypassRepos |-> old.bypassRepos \union scopedNow]

-----------------------------------------------------------------------------
(* Explicit triggers. *)

Accept(full, only) ==
    /\ wanted' = wanted \union (IF full THEN Repos ELSE only)
    /\ scoped' = scoped \union only
    /\ UNCHANGED scheduled

\* triggerRunWithCadence behind an active run: retained as pending work.
TriggerBehind(full, priority, only) ==
    /\ ~stopped
    /\ triggers < MaxTriggers
    /\ triggers' = triggers + 1
    /\ running
    /\ Coalesce(TRUE, full, priority, only)
    /\ Accept(full, only)
    /\ UNCHANGED << pc, args, running, exclusive, statusMu, shown, airplane,
                    rootDone, stop >>

TriggerNowUnchecked(g, full, priority, only) ==                    \* mutant
    /\ triggers < MaxTriggers
    /\ triggers' = triggers + 1
    /\ ~running
    /\ pc[g] = "idle"
    /\ running' = TRUE
    /\ exclusive' = ~full
    /\ pc' = [pc EXCEPT ![g] = "claimed"]
    /\ args' = [args EXCEPT ![g] = [bypass |-> TRUE, full |-> full, only |-> only,
                                    priority |-> priority, bypassRepos |-> {}]]
    /\ Accept(full, only)
    /\ UNCHANGED << pending, statusMu, shown, airplane, rootDone, stop >>

\* triggerRunWithCadence with the slot free: claimed and started.
TriggerNow(g, full, priority, only) ==
    /\ ~stopped
    /\ triggers < MaxTriggers
    /\ triggers' = triggers + 1
    /\ ~running
    /\ pc[g] = "idle"
    /\ running' = TRUE
    /\ exclusive' = ~full
    /\ pc' = [pc EXCEPT ![g] = "claimed"]
    /\ args' = [args EXCEPT ![g] = [bypass |-> TRUE, full |-> full, only |-> only,
                                    priority |-> priority, bypassRepos |-> {}]]
    /\ Accept(full, only)
    /\ UNCHANGED << pending, statusMu, shown, airplane, rootDone, stop >>

\* TriggerRun, TriggerRunWithPriority and TriggerRunForRepos.
Trigger ==
    \E repos \in SUBSET Repos :
        \/ TriggerBehind(TRUE, repos, {}) \/ TriggerBehind(FALSE, {}, repos)
        \/ \E g \in Runs : \/ TriggerNow(g, TRUE, repos, {})
                           \/ TriggerNow(g, FALSE, {}, repos)

-----------------------------------------------------------------------------
(* The ticker. *)

\* RunOnce reads AutomaticSyncEnabled before it goes for the slot.
Tick ==
    /\ pc[Ticker] = "idle"
    /\ ~airplane
    /\ pc' = [pc EXCEPT ![Ticker] = "admit"]
    /\ UNCHANGED << args, slot, statusMu, shown, airplane, rootDone, stop,
                    triggers, ghosts >>

\* runOnceWithSlot without a claimed slot.
TickBehind ==
    /\ pc[Ticker] = "admit"
    /\ running
    /\ IF exclusive
         THEN /\ Coalesce(FALSE, TRUE, {}, {})
              /\ scheduled' = TRUE
         ELSE UNCHANGED << pending, scheduled >>
    /\ pc' = [pc EXCEPT ![Ticker] = "idle"]
    /\ UNCHANGED << args, running, exclusive, statusMu, shown, airplane, rootDone,
                    stop, triggers, wanted, scoped >>

TickNow ==
    /\ pc[Ticker] = "admit"
    /\ ~running
    /\ running' = TRUE
    /\ exclusive' = FALSE
    /\ args' = [args EXCEPT ![Ticker] = NoWork]
    /\ pc' = [pc EXCEPT ![Ticker] = "claimed"]
    /\ UNCHANGED << pending, statusMu, shown, airplane, rootDone, stop, triggers,
                    ghosts >>

\* The select of the ticker's loop; a tick that is due may still win.
TickerReturns ==
    /\ pc[Ticker] = "idle"
    /\ CtxDone(Ticker)
    /\ pc' = [pc EXCEPT ![Ticker] = "exited"]
    /\ UNCHANGED << args, slot, statusMu, shown, airplane, rootDone, stop,
                    triggers, ghosts >>

-----------------------------------------------------------------------------
(* A pass and its deferred function. *)

\* The pass reads its repositories and publishes Running.
Begin(g) ==
    /\ pc[g] = "claimed"
    /\ statusMu = Nobody
    /\ shown' = TRUE
    /\ wanted' = wanted \ Reaches(args[g])
    /\ scoped' = scoped \ Reaches(args[g])
    /\ scheduled' = (scheduled /\ ~args[g].full)
    /\ pc' = [pc EXCEPT ![g] = "working"]
    /\ UNCHANGED << args, slot, statusMu, airplane, rootDone, stop, triggers >>

Finish(g) ==
    /\ pc[g] = "working"
    /\ pc' = [pc EXCEPT ![g] = "ending"]
    /\ UNCHANGED << args, slot, statusMu, shown, airplane, rootDone, stop,
                    triggers, ghosts >>

DrainedForgetsBypass ==                                            \* mutant
    IF pending = NoPending \/ (airplane /\ ~pending.bypass)
    THEN NoPending ELSE pending

\* The pending run as the ending pass takes it: airplane mode keeps only
\* what was asked for explicitly.
Drained ==
    IF pending = NoPending \/ ~airplane \/ pending.bypass THEN pending
    ELSE IF pending.bypassRepos = {} THEN NoPending
    ELSE [pending EXCEPT !.full = FALSE, !.only = pending.bypassRepos]

HandOverWithoutStatusMu(g) ==                                      \* mutant
    /\ pc[g] = "ending"
    /\ statusMu = Nobody
    /\ pending' = NoPending
    /\ scheduled' = (scheduled /\ ~airplane)
    /\ IF Drained = NoPending
         THEN /\ running' = FALSE
              /\ exclusive' = FALSE
              /\ pc' = [pc EXCEPT ![g] = "publish"]
              /\ UNCHANGED << statusMu, args >>
         ELSE /\ exclusive' = ~Drained.full
              /\ args' = [args EXCEPT ![g] = Drained]
              /\ pc' = [pc EXCEPT ![g] = "launch"]
              /\ UNCHANGED << running, statusMu >>
    /\ UNCHANGED << shown, airplane, rootDone, stop, triggers, wanted, scoped >>

HandOverReleasing(g) ==                                            \* mutant
    /\ pc[g] = "ending"
    /\ statusMu = Nobody
    /\ pending' = NoPending
    /\ scheduled' = (scheduled /\ ~airplane)
    /\ running' = FALSE
    /\ exclusive' = FALSE
    /\ IF Drained = NoPending
         THEN /\ statusMu' = g
              /\ pc' = [pc EXCEPT ![g] = "publish"]
              /\ UNCHANGED args
         ELSE /\ args' = [args EXCEPT ![g] = Drained]
              /\ pc' = [pc EXCEPT ![g] = "launch"]
              /\ UNCHANGED statusMu
    /\ UNCHANGED << shown, airplane, rootDone, stop, triggers, wanted, scoped >>

\* Under statusMu and runMu: release the slot, or keep it for the follow-up.
HandOver(g) ==
    /\ pc[g] = "ending"
    /\ statusMu = Nobody
    /\ pending' = NoPending
    /\ scheduled' = (scheduled /\ ~airplane)
    /\ IF Drained = NoPending
         THEN /\ running' = FALSE
              /\ exclusive' = FALSE
              /\ statusMu' = g
              /\ pc' = [pc EXCEPT ![g] = "publish"]
              /\ UNCHANGED args
         ELSE /\ exclusive' = ~Drained.full
              /\ args' = [args EXCEPT ![g] = Drained]
              /\ pc' = [pc EXCEPT ![g] = "launch"]
              /\ UNCHANGED << running, statusMu >>
    /\ UNCHANGED << shown, airplane, rootDone, stop, triggers, wanted, scoped >>

\* The terminal status, still under statusMu.
PublishStatus(g) ==
    /\ pc[g] = "publish"
    /\ shown' = FALSE
    /\ statusMu' = Nobody
    /\ pc' = [pc EXCEPT ![g] = "idle"]
    /\ UNCHANGED << args, slot, airplane, rootDone, stop, triggers, ghosts >>

\* launchClaimedRun: registered under lifecycleMu unless Stop came first.
Launch(g, h) ==
    /\ pc[g] = "launch"
    /\ pc[h] = "idle"
    /\ ~stopped
    /\ args' = [args EXCEPT ![h] = args[g]]
    /\ pc' = [pc EXCEPT ![g] = "idle", ![h] = "claimed"]
    /\ UNCHANGED << slot, statusMu, shown, airplane, rootDone, stop, triggers,
                    ghosts >>

LaunchFails(g) ==
    /\ pc[g] = "launch"
    /\ stopped
    /\ pc' = [pc EXCEPT ![g] = "abandon"]
    /\ UNCHANGED << args, slot, statusMu, shown, airplane, rootDone, stop,
                    triggers, ghosts >>

\* releaseRunSlotWithStatus: everything pending is dropped with the slot.
Abandon(g) ==
    /\ pc[g] = "abandon"
    /\ statusMu = Nobody
    /\ running' = FALSE
    /\ exclusive' = FALSE
    /\ pending' = NoPending
    /\ statusMu' = g
    /\ pc' = [pc EXCEPT ![g] = "publish"]
    /\ UNCHANGED << args, shown, airplane, rootDone, stop, triggers, ghosts >>

-----------------------------------------------------------------------------
(* The environment: settings, the daemon's root context and Stop. *)

\* Airplane mode drops what is only scheduled, at the next hand-over.
SetAirplaneMode ==
    /\ airplane' = ~airplane
    /\ UNCHANGED << pc, args, slot, statusMu, shown, rootDone, stop, triggers,
                    ghosts >>

RootCanceled ==
    /\ ~rootDone
    /\ rootDone' = TRUE
    /\ UNCHANGED << pc, args, slot, statusMu, shown, airplane, stop, triggers,
                    ghosts >>

\* Stop marks the syncer under lifecycleMu, then cancels the runs.
StopMark ==
    /\ stop = "no"
    /\ stop' = "marked"
    /\ UNCHANGED << pc, args, slot, statusMu, shown, airplane, rootDone,
                    triggers, ghosts >>

StopCancel ==
    /\ stop = "marked"
    /\ stop' = "canceled"
    /\ UNCHANGED << pc, args, slot, statusMu, shown, airplane, rootDone,
                    triggers, ghosts >>

\* wg.Wait returns, or the shutdown budget runs out first.
StopReturns ==
    /\ stop = "canceled"
    /\ \/ /\ pc[Ticker] = "exited"
          /\ \A g \in Runs : pc[g] = "idle"
          /\ stop' = "drained"
       \/ stop' = "timedOut"
    /\ UNCHANGED << pc, args, slot, statusMu, shown, airplane, rootDone,
                    triggers, ghosts >>

Pass(g) ==
    \/ Begin(g) \/ Finish(g) \/ HandOver(g) \/ PublishStatus(g)
    \/ \E h \in Runs : Launch(g, h)
    \/ LaunchFails(g) \/ Abandon(g)

RunNext ==
    \/ Trigger
    \/ Tick \/ TickBehind \/ TickNow \/ TickerReturns
    \/ \E g \in Procs : Pass(g)
    \/ SetAirplaneMode \/ RootCanceled
    \/ StopMark \/ StopCancel \/ StopReturns

RunSpec == RunInit /\ [][RunNext]_runVars

(* Goroutines are scheduled and a pass ends: provider requests carry       *)
(* deadlines.  Nothing forces ticks, triggers, airplane mode or Stop.      *)
RunFairSpec == RunSpec /\ \A g \in Procs : WF_runVars(Pass(g))

-----------------------------------------------------------------------------
(* The slot as SyncSlot has it: until Stop, a repository that is wanted is   *)
(* reached by the pass that is due, or waits behind it.                      *)

Stage ==
    IF \E g \in Procs : pc[g] \in {"claimed", "launch", "abandon"} THEN "due"
    ELSE IF \E g \in Procs : pc[g] \in {"working", "ending"} THEN "passing"
    ELSE "free"

DueReaches ==
    {r \in wanted : ~stopped /\ \E g \in Procs :
                      pc[g] \in {"claimed", "launch"} /\ r \in Reaches(args[g])}

Slot == INSTANCE SyncSlot WITH
    Items <- Repos,
    stage <- Stage,
    next <- DueReaches,
    later <- IF stopped THEN {} ELSE wanted \ DueReaches,
    life <- IF ~stopped THEN "on" ELSE IF stop = "drained" THEN "closed" ELSE "stopping"

-----------------------------------------------------------------------------
(* Properties. *)

\* Single flight: at most one goroutine owns the slot, and the slot is
\* taken exactly while one does, hand-over to a follow-up included.
SingleFlight ==
    /\ \A g, h \in Owners : g = h
    /\ running <=> Owners # {}

\* The requests that still have their whole pass ahead of them.
Carriers ==
    (IF pending = NoPending THEN {} ELSE {pending})
        \union {args[g] : g \in {h \in Procs : pc[h] \in {"claimed", "launch"}}}

\* TriggerRun returned true: until Stop, every repository of the request is
\* reached, past the cadence gate, by the pending run or by the pass that
\* holds the slot and has not begun - whatever else was coalesced with it
\* and whatever airplane mode did in between.
AcceptedIsRetained == ~stopped => \A r \in wanted : \E c \in Carriers : r \in Reaches(c)

\* A scheduled pass that met a scoped pass is kept as a full follow-up,
\* unless airplane mode is on when the scoped pass ends, or Stop comes.
ScheduledIsRetained == (scheduled /\ ~stopped) => \E c \in Carriers : c.full

\* Work asked for by name and subsumed by a full pass is dispatched first.
ScopedGoesFirst ==
    ~stopped => \A r \in scoped : \E c \in Carriers :
                    r \in Reaches(c) /\ (c.full => r \in c.priority)

\* No coalescing, hand-over or switch of airplane mode loses or weakens what
\* Trigger accepted or the ticker scheduled: scope, cadence bypass, full pass
\* and priority are all still ahead.
RequestsRetained == AcceptedIsRetained /\ ScheduledIsRetained /\ ScopedGoesFirst

\* The status subscribers last saw is true: a begun pass shows as running,
\* and when the slot is free and nobody is publishing it shows as ended.  A
\* new pass may claim the slot at once, but its Running never comes before
\* the terminal status of the pass it follows.
StatusIsTrue ==
    /\ (\E g \in Procs : pc[g] \in {"working", "ending"}) => shown
    /\ (~running /\ statusMu = Nobody) => ~shown

\* Stop that saw the wait group drain leaves nothing behind: no goroutine is
\* in a pass, and the slot is free.
DrainedIsQuiet ==
    stop = "drained" => /\ \A g \in Procs : pc[g] \in {"idle", "exited"}
                        /\ ~running

\* Claiming, coalescing, hand-over, airplane mode and Stop implement the slot:
\* passes come one at a time, what is accepted waits for at most the pass under
\* way and the one that is due, and nothing runs after a Stop that drained.
IsSyncSlot == Slot!Spec

\* Every accepted trigger is eventually reached by a pass, or Stop comes.
AcceptedIsReached == \A r \in Repos : r \in wanted ~> (r \notin wanted \/ stopped)
=============================================================================
