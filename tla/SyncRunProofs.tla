--------------------------- MODULE SyncRunProofs ----------------------------
(***************************************************************************)
(* The sync engine's slot, for any set of repositories, any number of run  *)
(* goroutines and any number of triggers.                                  *)
(*                                                                         *)
(* Single flight needs only the types.  What a request is promised rests on    *)
(* it: since one goroutine owns the slot, the pass that begins and the     *)
(* pass that ends are the only carriers besides the pending run.           *)
(***************************************************************************)
EXTENDS SyncRun, TLAPS

\* An unlaunchable follow-up is only ever abandoned to Stop.
AbandonedToStop == \A g \in Procs : pc[g] = "abandon" => stopped

\* statusMu is held across steps exactly by a goroutine that publishes its
\* terminal status; no pass is past its claim meanwhile.
PublisherHoldsStatus ==
    /\ \A g \in Procs : statusMu = g <=> pc[g] = "publish"
    /\ statusMu # Nobody =>
          \A g \in Procs : pc[g] \notin {"working", "ending", "launch", "abandon"}

TypeInv == RunTypeOK /\ SingleFlight

StatusInv == PublisherHoldsStatus /\ StatusIsTrue

\* Merging a request into the pending run yields a well-formed pending run.
LEMMA CoalesceType ==
    ASSUME RunTypeOK, NEW bypass \in BOOLEAN, NEW full \in BOOLEAN,
           NEW priority \in SUBSET Repos, NEW only \in SUBSET Repos,
           Coalesce(bypass, full, priority, only)
    PROVE  pending' \in Requests /\ (pending'.full => pending'.only = {})
  BY DEF Coalesce, RunTypeOK, Requests, NoWork

\* What the ending pass takes over is a request.
LEMMA DrainedType == RunTypeOK => Drained \in Requests \union {NoPending}
  BY DEF Drained, RunTypeOK, Requests

\* A trigger asks for everything or for named repositories, and is either
\* merged into the pending run or given the slot.
LEMMA TriggerCases ==
    ASSUME Trigger
    PROVE  \E full \in BOOLEAN : \E priority, only \in SUBSET Repos :
              /\ full => only = {}
              /\ \/ TriggerBehind(full, priority, only)
                 \/ \E g \in Runs : TriggerNow(g, full, priority, only)
<1>1. PICK repos \in SUBSET Repos :
        \/ TriggerBehind(TRUE, repos, {}) \/ TriggerBehind(FALSE, {}, repos)
        \/ \E g \in Runs : \/ TriggerNow(g, TRUE, repos, {})
                           \/ TriggerNow(g, FALSE, {}, repos)
  BY DEF Trigger
<1>2. TRUE \in BOOLEAN /\ FALSE \in BOOLEAN /\ {} \in SUBSET Repos
  OBVIOUS
<1> QED
  BY <1>1, <1>2

\* An idle syncer is well formed and its slot is free.
LEMMA InitTypeInv == RunInit => TypeInv
<1> SUFFICES ASSUME RunInit PROVE TypeInv
  OBVIOUS
<1>1. RunTypeOK
  BY RunAssumption DEF RunInit, RunTypeOK, PCs, Requests, NoWork, Procs
<1>2. Owners = {}
  BY DEF RunInit, Owners, Owning
<1>3. SingleFlight
  BY <1>2 DEF RunInit, SingleFlight
<1> QED
  BY <1>1, <1>3 DEF TypeInv

\* Every operation keeps the state well formed and the slot single.
LEMMA StepTypeInv == TypeInv /\ [RunNext]_runVars => TypeInv'
<1> SUFFICES ASSUME TypeInv, [RunNext]_runVars PROVE TypeInv'
  OBVIOUS
<1>0. RunTypeOK /\ SingleFlight
  BY DEF TypeInv
<1> USE RunAssumption DEF Procs, PCs, Owners, Owning
<1>1. ASSUME NEW full \in BOOLEAN, NEW priority \in SUBSET Repos, NEW only \in SUBSET Repos,
             TriggerBehind(full, priority, only)
      PROVE  TypeInv'
  <2>1. pending' \in Requests /\ (pending'.full => pending'.only = {})
    BY <1>0, <1>1, CoalesceType DEF TriggerBehind
  <2> QED
    BY <1>0, <1>1, <2>1 DEF TypeInv, RunTypeOK, SingleFlight, TriggerBehind, Accept
<1>2. ASSUME NEW g \in Runs, NEW full \in BOOLEAN, NEW priority \in SUBSET Repos,
             NEW only \in SUBSET Repos, TriggerNow(g, full, priority, only)
      PROVE  TypeInv'
  <2>1. RunTypeOK'
    BY <1>0, <1>2 DEF RunTypeOK, TriggerNow, Accept, Requests
  <2>2. SingleFlight'
    BY <1>0, <1>2 DEF RunTypeOK, SingleFlight, TriggerNow
  <2> QED
    BY <2>1, <2>2 DEF TypeInv
<1>3. CASE Tick
  BY <1>0, <1>3 DEF TypeInv, RunTypeOK, SingleFlight, Tick, slot, ghosts
<1>4. CASE TickBehind
  <2>1. RunTypeOK'
    <3>1. CASE exclusive
      <4>1. pending' \in Requests /\ (pending'.full => pending'.only = {})
        <5>1. Coalesce(FALSE, TRUE, {}, {})
          BY <1>4, <3>1 DEF TickBehind
        <5>2. FALSE \in BOOLEAN /\ TRUE \in BOOLEAN /\ {} \in SUBSET Repos
          OBVIOUS
        <5> QED
          BY <1>0, <5>1, <5>2, CoalesceType
      <4> QED
        BY <1>0, <1>4, <3>1, <4>1 DEF RunTypeOK, TickBehind
    <3>2. CASE ~exclusive
      BY <1>0, <1>4, <3>2 DEF RunTypeOK, TickBehind
    <3> QED
      BY <3>1, <3>2
  <2>2. SingleFlight'
    BY <1>0, <1>4 DEF RunTypeOK, SingleFlight, TickBehind
  <2> QED
    BY <2>1, <2>2 DEF TypeInv
<1>5. CASE TickNow
  <2>1. RunTypeOK'
    BY <1>0, <1>5 DEF RunTypeOK, TickNow, ghosts, Requests, NoWork
  <2>2. SingleFlight'
    BY <1>0, <1>5 DEF RunTypeOK, SingleFlight, TickNow
  <2> QED
    BY <2>1, <2>2 DEF TypeInv
<1>6. CASE TickerReturns
  BY <1>0, <1>6 DEF TypeInv, RunTypeOK, SingleFlight, TickerReturns, slot, ghosts
<1>7. ASSUME NEW g \in Procs, Begin(g) PROVE TypeInv'
  BY <1>0, <1>7 DEF TypeInv, RunTypeOK, SingleFlight, Begin, slot
<1>8. ASSUME NEW g \in Procs, Finish(g) PROVE TypeInv'
  BY <1>0, <1>8 DEF TypeInv, RunTypeOK, SingleFlight, Finish, slot, ghosts
<1>9. ASSUME NEW g \in Procs, HandOver(g) PROVE TypeInv'
  <2>1. RunTypeOK'
    <3>1. CASE Drained = NoPending
      BY <1>0, <1>9, <3>1 DEF RunTypeOK, HandOver
    <3>2. CASE Drained # NoPending
      <4>1. Drained \in Requests /\ Drained.full \in BOOLEAN
        BY <1>0, <3>2, DrainedType DEF Requests
      <4>2. args' \in [Procs -> Requests] /\ exclusive' \in BOOLEAN
        BY <1>0, <1>9, <3>2, <4>1 DEF RunTypeOK, HandOver
      <4>3. pc' \in [Procs -> PCs]
        BY <1>0, <1>9, <3>2 DEF RunTypeOK, HandOver
      <4> QED
        BY <1>0, <1>9, <3>2, <4>2, <4>3 DEF RunTypeOK, HandOver
    <3> QED
      BY <3>1, <3>2
  <2>2. SingleFlight'
    <3>1. CASE Drained = NoPending
      BY <1>0, <1>9, <3>1 DEF RunTypeOK, SingleFlight, HandOver
    <3>2. CASE Drained # NoPending
      BY <1>0, <1>9, <3>2 DEF RunTypeOK, SingleFlight, HandOver
    <3> QED
      BY <3>1, <3>2
  <2> QED
    BY <2>1, <2>2 DEF TypeInv
<1>10. ASSUME NEW g \in Procs, PublishStatus(g) PROVE TypeInv'
  <2>1. RunTypeOK'
    BY <1>0, <1>10 DEF RunTypeOK, PublishStatus, slot, ghosts
  <2>2. SingleFlight'
    BY <1>0, <1>10 DEF RunTypeOK, SingleFlight, PublishStatus, slot
  <2> QED
    BY <2>1, <2>2 DEF TypeInv
<1>11. ASSUME NEW g \in Procs, NEW h \in Runs, Launch(g, h) PROVE TypeInv'
  <2>1. RunTypeOK'
    BY <1>0, <1>11 DEF RunTypeOK, Launch, slot, ghosts
  <2>2. SingleFlight'
    BY <1>0, <1>11 DEF RunTypeOK, SingleFlight, Launch, slot
  <2> QED
    BY <2>1, <2>2 DEF TypeInv
<1>12. ASSUME NEW g \in Procs, LaunchFails(g) PROVE TypeInv'
  BY <1>0, <1>12 DEF TypeInv, RunTypeOK, SingleFlight, LaunchFails, slot, ghosts
<1>13. ASSUME NEW g \in Procs, Abandon(g) PROVE TypeInv'
  <2>1. RunTypeOK'
    BY <1>0, <1>13 DEF RunTypeOK, Abandon, ghosts
  <2>2. SingleFlight'
    BY <1>0, <1>13 DEF RunTypeOK, SingleFlight, Abandon
  <2> QED
    BY <2>1, <2>2 DEF TypeInv
<1>14. CASE SetAirplaneMode \/ RootCanceled \/ StopMark \/ StopCancel \/ StopReturns
  <2>1. RunTypeOK'
    <3>1. CASE SetAirplaneMode
      BY <1>0, <3>1 DEF RunTypeOK, SetAirplaneMode, slot, ghosts
    <3>2. CASE RootCanceled
      BY <1>0, <3>2 DEF RunTypeOK, RootCanceled, slot, ghosts
    <3>3. CASE StopMark \/ StopCancel \/ StopReturns
      BY <1>0, <3>3 DEF RunTypeOK, StopMark, StopCancel, StopReturns, slot, ghosts
    <3> QED
      BY <1>14, <3>1, <3>2, <3>3
  <2>2. UNCHANGED << pc, running >>
    BY <1>14 DEF SetAirplaneMode, RootCanceled, StopMark, StopCancel, StopReturns, slot
  <2>3. SingleFlight'
    BY <1>0, <2>2 DEF SingleFlight
  <2> QED
    BY <2>1, <2>3 DEF TypeInv
<1>15. CASE UNCHANGED runVars
  BY <1>0, <1>15 DEF TypeInv, RunTypeOK, SingleFlight, runVars, slot, ghosts
<1>16. ASSUME Trigger PROVE TypeInv'
  BY <1>1, <1>2, <1>16, TriggerCases
<1>17. ASSUME NEW g \in Procs, Pass(g) PROVE TypeInv'
  BY <1>7, <1>8, <1>9, <1>10, <1>11, <1>12, <1>13, <1>17 DEF Pass
<1> QED
  BY <1>3, <1>4, <1>5, <1>6, <1>14, <1>15, <1>16, <1>17 DEF RunNext

\* Types and single flight are an invariant.
LEMMA TypeInvariant == RunSpec => []TypeInv
  BY InitTypeInv, StepTypeInv, PTL DEF RunSpec

\* The syncer's state keeps its shape; a full pending run has no scope left.
THEOREM SyncRunTypeOK == RunSpec => []RunTypeOK
<1>1. TypeInv => RunTypeOK
  BY DEF TypeInv
<1> QED
  BY <1>1, TypeInvariant, PTL

\* One pass at a time: claiming, handing over, abandoning and releasing the
\* slot never leave two owners, nor a taken slot without an owner.
THEOREM SyncRunSingleFlight == RunSpec => []SingleFlight
<1>1. TypeInv => SingleFlight
  BY DEF TypeInv
<1> QED
  BY <1>1, TypeInvariant, PTL

-----------------------------------------------------------------------------
(* The published status. *)

\* The terminal status and the slot are handed over under statusMu.
LEMMA StepStatusInv == TypeInv /\ StatusInv /\ [RunNext]_runVars => StatusInv'
<1> SUFFICES ASSUME TypeInv, StatusInv, [RunNext]_runVars PROVE StatusInv'
  OBVIOUS
<1> USE RunAssumption DEF TypeInv, RunTypeOK, PCs, Procs, SingleFlight, Owners, Owning,
                          StatusInv, PublisherHoldsStatus, StatusIsTrue
<1>1. ASSUME NEW full \in BOOLEAN, NEW priority \in SUBSET Repos, NEW only \in SUBSET Repos,
             TriggerBehind(full, priority, only)
      PROVE  StatusInv'
  BY <1>1 DEF TriggerBehind
<1>2. ASSUME NEW g \in Runs, NEW full \in BOOLEAN, NEW priority \in SUBSET Repos,
             NEW only \in SUBSET Repos, TriggerNow(g, full, priority, only)
      PROVE  StatusInv'
  BY <1>2 DEF TriggerNow
<1>3. CASE Tick \/ TickBehind \/ TickerReturns
  <2>1. UNCHANGED << running, statusMu, shown >>
    BY <1>3 DEF Tick, TickBehind, TickerReturns, slot
  <2>2. /\ pc[Ticker] \in {"idle", "admit"}
        /\ \E to \in {"idle", "admit", "exited"} : pc' = [pc EXCEPT ![Ticker] = to]
    BY <1>3 DEF Tick, TickBehind, TickerReturns
  <2> QED
    BY <2>1, <2>2
<1>4. CASE TickNow
  BY <1>4 DEF TickNow
<1>5. ASSUME NEW g \in Procs, Begin(g) PROVE StatusInv'
  BY <1>5 DEF Begin, slot
<1>6. ASSUME NEW g \in Procs, Finish(g) PROVE StatusInv'
  BY <1>6 DEF Finish, slot
<1>7. ASSUME NEW g \in Procs, HandOver(g) PROVE StatusInv'
  BY <1>7 DEF HandOver
<1>8. ASSUME NEW g \in Procs, PublishStatus(g) PROVE StatusInv'
  BY <1>8 DEF PublishStatus, slot
<1>9. ASSUME NEW g \in Procs, NEW h \in Runs, Launch(g, h) PROVE StatusInv'
  BY <1>9 DEF Launch, slot
<1>10. ASSUME NEW g \in Procs, LaunchFails(g) PROVE StatusInv'
  BY <1>10 DEF LaunchFails, slot
<1>11. ASSUME NEW g \in Procs, Abandon(g) PROVE StatusInv'
  BY <1>11 DEF Abandon
<1>12. CASE \/ SetAirplaneMode \/ RootCanceled \/ StopMark \/ StopCancel \/ StopReturns
            \/ UNCHANGED runVars
  BY <1>12 DEF SetAirplaneMode, RootCanceled, StopMark, StopCancel, StopReturns, slot, runVars
<1> HIDE DEF TypeInv, RunTypeOK, SingleFlight, StatusInv
<1>13. ASSUME Trigger PROVE StatusInv'
  BY <1>1, <1>2, <1>13, TriggerCases
<1>14. ASSUME NEW g \in Procs, Pass(g) PROVE StatusInv'
  BY <1>5, <1>6, <1>7, <1>8, <1>9, <1>10, <1>11, <1>14 DEF Pass
<1> QED
  BY <1>3, <1>4, <1>12, <1>13, <1>14 DEF RunNext

\* No pass has run: the status shows an idle engine.
LEMMA InitStatusInv == RunInit => StatusInv
  BY RunAssumption DEF RunInit, StatusInv, PublisherHoldsStatus, StatusIsTrue, Procs

\* What subscribers last saw is true, whoever claims the slot next.
THEOREM SyncRunStatusIsTrue == RunSpec => []StatusIsTrue
<1>1. StatusInv => StatusIsTrue
  BY DEF StatusInv
<1> QED
  BY <1>1, InitStatusInv, StepStatusInv, TypeInvariant, PTL DEF RunSpec

-----------------------------------------------------------------------------
(* What an accepted request is promised. *)

Retained ==
    /\ AbandonedToStop
    /\ AcceptedIsRetained
    /\ ScheduledIsRetained
    /\ ScopedGoesFirst

\* A repository that one carrier reaches, first if the carrier is full.
First(r, c) == r \in Reaches(c) /\ (c.full => r \in c.priority)

\* The carriers are the pending run and what the slot's owner has ahead.
LEMMA CarrierCases ==
    \A c : c \in Carriers <=>
        \/ pending # NoPending /\ c = pending
        \/ \E g \in Procs : pc[g] \in {"claimed", "launch"} /\ c = args[g]
  BY DEF Carriers

\* Coalescing weakens nothing that was pending and retains what is new.
LEMMA CoalesceKeeps ==
    ASSUME RunTypeOK, NEW bypass \in BOOLEAN, NEW full \in BOOLEAN,
           NEW priority \in SUBSET Repos, NEW only \in SUBSET Repos,
           full => only = {}, Coalesce(bypass, full, priority, only)
    PROVE  /\ pending' # NoPending
           /\ pending # NoPending =>
                 /\ Reaches(pending) \subseteq Reaches(pending')
                 /\ \A r : First(r, pending) => First(r, pending')
                 /\ pending.full => pending'.full
           /\ full => pending'.full
           /\ (bypass /\ full) => Reaches(pending') = Repos
           /\ (bypass /\ ~full) => \A r \in only : First(r, pending')
<1>1. pending' \in Requests
  BY CoalesceType
<1>2. pending' # NoPending
  BY <1>1, RunAssumption DEF Requests
<1>3. ASSUME pending # NoPending
      PROVE  /\ Reaches(pending) \subseteq Reaches(pending')
             /\ \A r : First(r, pending) => First(r, pending')
             /\ pending.full => pending'.full
  BY <1>3 DEF RunTypeOK, Requests, Coalesce, Reaches, First
<1>4. full => pending'.full
  BY DEF Coalesce
<1>5. (bypass /\ full) => Reaches(pending') = Repos
  BY DEF Coalesce, Reaches
<1>6. (bypass /\ ~full) => \A r \in only : First(r, pending')
  BY DEF RunTypeOK, Requests, Coalesce, Reaches, First, NoWork
<1> QED
  BY <1>2, <1>3, <1>4, <1>5, <1>6

\* Airplane mode at the hand-over drops only what was merely scheduled.
LEMMA DrainedKeeps ==
    ASSUME RunTypeOK, pending # NoPending
    PROVE  /\ Drained = NoPending => Reaches(pending) = {}
           /\ Drained # NoPending =>
                 /\ Reaches(pending) \subseteq Reaches(Drained)
                 /\ \A r : First(r, pending) => First(r, Drained)
           /\ ~airplane => Drained = pending
<1>0. pending \in Requests
  BY DEF RunTypeOK
<1>1. CASE ~airplane \/ pending.bypass
  BY <1>1 DEF Drained
<1>2. CASE airplane /\ ~pending.bypass /\ pending.bypassRepos = {}
  <2>1. Drained = NoPending
    BY <1>2 DEF Drained
  <2>2. Reaches(pending) = {}
    BY <1>0, <1>2 DEF Reaches, Requests
  <2> QED
    BY <1>2, <2>1, <2>2
<1>3. CASE airplane /\ ~pending.bypass /\ pending.bypassRepos # {}
  <2>1. Drained = [pending EXCEPT !.full = FALSE, !.only = pending.bypassRepos]
    BY <1>3 DEF Drained
  <2>2. /\ Drained \in Requests /\ ~Drained.full
        /\ Reaches(Drained) = pending.bypassRepos
    BY <1>0, <1>3, <2>1 DEF Reaches, Requests
  <2>3. Reaches(pending) \subseteq pending.bypassRepos
    BY <1>0, <1>3 DEF Reaches, Requests
  <2>4. Drained # NoPending
    BY <2>2, RunAssumption DEF Requests
  <2> QED
    BY <1>3, <2>2, <2>3, <2>4 DEF First
<1> QED
  BY <1>0, <1>1, <1>2, <1>3 DEF Requests

\* Every operation keeps what is wanted in a carrier.
LEMMA StepRetained == TypeInv /\ Retained /\ [RunNext]_runVars => Retained'
<1> SUFFICES ASSUME TypeInv, Retained, [RunNext]_runVars PROVE Retained'
  OBVIOUS
<1>0. RunTypeOK /\ SingleFlight
  BY DEF TypeInv
<1> DEFINE Ahead(g) == pc[g] \in {"claimed", "launch"}
\* The three promises in one form, from any carriers kept by a step.
<1>a. ASSUME \A g \in Procs : pc'[g] = "abandon" => stopped',
             \A r \in wanted' : stopped' \/ \E c \in Carriers' : r \in Reaches(c),
             \A r \in scoped' : stopped' \/ \E c \in Carriers' : First(r, c),
             scheduled' => stopped' \/ \E c \in Carriers' : c.full
      PROVE  Retained'
  BY <1>a DEF Retained, AbandonedToStop, AcceptedIsRetained, ScheduledIsRetained,
     ScopedGoesFirst, First
<1>b. /\ \A g \in Procs : pc[g] = "abandon" => stopped
      /\ \A r \in wanted : stopped \/ \E c \in Carriers : r \in Reaches(c)
      /\ \A r \in scoped : stopped \/ \E c \in Carriers : First(r, c)
      /\ scheduled => stopped \/ \E c \in Carriers : c.full
  BY DEF Retained, AbandonedToStop, AcceptedIsRetained, ScheduledIsRetained,
     ScopedGoesFirst, First
\* A step that keeps the carriers, adds no debt and takes back no Stop.
<1>c. ASSUME Carriers \subseteq Carriers', UNCHANGED ghosts, stopped => stopped',
             \A g \in Procs : pc'[g] = "abandon" => pc[g] = "abandon" \/ stopped'
      PROVE  Retained'
  BY <1>a, <1>b, <1>c DEF ghosts
<1>1. ASSUME NEW full \in BOOLEAN, NEW priority \in SUBSET Repos, NEW only \in SUBSET Repos,
             full => only = {}, TriggerBehind(full, priority, only)
      PROVE  Retained'
  <2>1. /\ pending' # NoPending
        /\ pending # NoPending =>
              /\ Reaches(pending) \subseteq Reaches(pending')
              /\ \A r : First(r, pending) => First(r, pending')
              /\ pending.full => pending'.full
        /\ full => Reaches(pending') = Repos
        /\ ~full => \A r \in only : First(r, pending')
    <3>1. Coalesce(TRUE, full, priority, only) /\ TRUE \in BOOLEAN
      BY <1>1 DEF TriggerBehind
    <3> QED
      BY <1>0, <1>1, <3>1, CoalesceKeeps
  <2>2. pending' \in Carriers'
    BY <2>1 DEF Carriers
  <2>3. \A c \in Carriers : c \in Carriers' \/ (pending # NoPending /\ c = pending)
    BY <1>1, CarrierCases DEF TriggerBehind, Carriers
  <2>4. /\ wanted' = wanted \union (IF full THEN Repos ELSE only)
        /\ scoped' = scoped \union only
        /\ scheduled' = scheduled /\ pc' = pc /\ stop' = stop
    BY <1>1 DEF TriggerBehind, Accept
  <2>5. \A r \in wanted' : stopped' \/ \E c \in Carriers' : r \in Reaches(c)
    BY <1>b, <2>1, <2>2, <2>3, <2>4 DEF First, stopped
  <2>6. \A r \in scoped' : stopped' \/ \E c \in Carriers' : First(r, c)
    BY <1>1, <1>b, <2>1, <2>2, <2>3, <2>4 DEF stopped
  <2>7. scheduled' => stopped' \/ \E c \in Carriers' : c.full
    BY <1>b, <2>1, <2>2, <2>3, <2>4 DEF stopped
  <2> QED
    BY <1>a, <1>b, <2>4, <2>5, <2>6, <2>7 DEF stopped
<1>2. ASSUME NEW g \in Runs, NEW full \in BOOLEAN, NEW priority \in SUBSET Repos,
             NEW only \in SUBSET Repos, full => only = {},
             TriggerNow(g, full, priority, only)
      PROVE  Retained'
  <2>1. /\ args'[g] = [bypass |-> TRUE, full |-> full, only |-> only,
                       priority |-> priority, bypassRepos |-> {}]
        /\ pc'[g] = "claimed" /\ g \in Procs
    BY <1>0, <1>2 DEF TriggerNow, RunTypeOK, Procs
  <2>2. args'[g] \in Carriers'
    BY <2>1 DEF Carriers
  <2>3. Carriers \subseteq Carriers'
    BY <1>0, <1>2 DEF TriggerNow, RunTypeOK, Procs, Carriers
  <2>4. /\ Reaches(args'[g]) = IF full THEN Repos ELSE only
        /\ \A r \in only : First(r, args'[g])
    BY <1>2, <2>1 DEF Reaches, First
  <2>5. /\ wanted' = wanted \union (IF full THEN Repos ELSE only)
        /\ scoped' = scoped \union only
        /\ scheduled' = scheduled /\ stop' = stop
        /\ \A h \in Procs : pc'[h] = "abandon" => pc[h] = "abandon"
    BY <1>0, <1>2 DEF TriggerNow, Accept, RunTypeOK
  <2> QED
    BY <1>a, <1>b, <2>2, <2>3, <2>4, <2>5 DEF stopped
<1>3. CASE Tick \/ TickerReturns
  <2>1. Carriers' = Carriers
    BY <1>0, <1>3 DEF Tick, TickerReturns, RunTypeOK, Carriers, Procs, slot
  <2> QED
    BY <1>0, <1>3, <1>c, <2>1 DEF Tick, TickerReturns, RunTypeOK, stopped
<1>4. CASE TickBehind
  <2>1. CASE ~exclusive
    <3>1. Carriers' = Carriers
      BY <1>0, <1>4, <2>1 DEF TickBehind, RunTypeOK, Carriers, Procs
    <3> QED
      BY <1>0, <1>4, <1>c, <2>1, <3>1 DEF TickBehind, RunTypeOK, stopped, ghosts
  <2>2. CASE exclusive
    <3>1. /\ pending' # NoPending /\ pending'.full
          /\ pending # NoPending =>
                /\ Reaches(pending) \subseteq Reaches(pending')
                /\ \A r : First(r, pending) => First(r, pending')
      <4>1. Coalesce(FALSE, TRUE, {}, {})
        BY <1>4, <2>2 DEF TickBehind
      <4>2. FALSE \in BOOLEAN /\ TRUE \in BOOLEAN /\ {} \in SUBSET Repos
        OBVIOUS
      <4> QED
        BY <1>0, <4>1, <4>2, CoalesceKeeps
    <3>2. pending' \in Carriers'
      BY <3>1 DEF Carriers
    <3>3. \A c \in Carriers : c \in Carriers' \/ (pending # NoPending /\ c = pending)
      BY <1>0, <1>4 DEF TickBehind, RunTypeOK, Carriers, Procs
    <3>4. /\ wanted' = wanted /\ scoped' = scoped /\ stop' = stop
          /\ \A h \in Procs : pc'[h] = "abandon" => pc[h] = "abandon"
      BY <1>0, <1>4 DEF TickBehind, RunTypeOK
    <3> QED
      BY <1>a, <1>b, <3>1, <3>2, <3>3, <3>4 DEF stopped
  <2> QED
    BY <2>1, <2>2
<1>5. CASE TickNow
  <2>1. Carriers \subseteq Carriers'
    BY <1>0, <1>5 DEF TickNow, RunTypeOK, Procs, Carriers
  <2> QED
    BY <1>0, <1>5, <1>c, <2>1 DEF TickNow, RunTypeOK, stopped
<1>6. ASSUME NEW g \in Procs, Begin(g) PROVE Retained'
  <2>1. \A h \in Procs : Ahead(h) => h = g
    BY <1>0, <1>6 DEF Begin, SingleFlight, Owners, Owning
  <2>2. \A c \in Carriers : c \in Carriers' \/ c = args[g]
    BY <1>6, <2>1 DEF Begin, Carriers, slot
  <2>3. /\ wanted' = wanted \ Reaches(args[g])
        /\ scoped' = scoped \ Reaches(args[g])
        /\ scheduled' = (scheduled /\ ~args[g].full)
        /\ stop' = stop
        /\ \A h \in Procs : pc'[h] = "abandon" => pc[h] = "abandon"
    BY <1>0, <1>6 DEF Begin, RunTypeOK
  <2> QED
    BY <1>a, <1>b, <2>2, <2>3 DEF stopped, First
<1>7. ASSUME NEW g \in Procs, Finish(g) \/ PublishStatus(g) PROVE Retained'
  <2>1. Carriers' = Carriers
    BY <1>0, <1>7 DEF Finish, PublishStatus, RunTypeOK, Carriers, slot
  <2> QED
    BY <1>0, <1>7, <1>c, <2>1 DEF Finish, PublishStatus, RunTypeOK, stopped
<1>8. ASSUME NEW g \in Procs, HandOver(g) PROVE Retained'
  <2>1. \A h \in Procs : ~Ahead(h)
    BY <1>0, <1>8 DEF HandOver, SingleFlight, Owners, Owning
  <2>2. \A c \in Carriers : pending # NoPending /\ c = pending
    BY <2>1, CarrierCases
  <2>3. Drained # NoPending => Drained \in Carriers'
    <3>1. Drained # NoPending => args'[g] = Drained /\ pc'[g] = "launch"
      BY <1>0, <1>8 DEF HandOver, RunTypeOK
    <3> QED
      BY <3>1 DEF Carriers
  <2>4. /\ wanted' = wanted /\ scoped' = scoped
        /\ scheduled' = (scheduled /\ ~airplane)
        /\ stop' = stop
        /\ \A h \in Procs : pc'[h] = "abandon" => pc[h] = "abandon"
    BY <1>0, <1>8 DEF HandOver, RunTypeOK
  <2>5. pending # NoPending =>
          /\ \A r \in Reaches(pending) : Drained # NoPending /\ r \in Reaches(Drained)
          /\ \A r : First(r, pending) => Drained # NoPending /\ First(r, Drained)
          /\ ~airplane => Drained = pending
    BY <1>0, DrainedKeeps DEF First
  <2> QED
    BY <1>a, <1>b, <2>2, <2>3, <2>4, <2>5 DEF stopped
<1>9. ASSUME NEW g \in Procs, NEW h \in Runs, Launch(g, h) PROVE Retained'
  <2>1. \A k \in Procs : Ahead(k) => k = g
    BY <1>0, <1>9 DEF Launch, SingleFlight, Owners, Owning
  <2>2. args'[h] = args[g] /\ pc'[h] = "claimed" /\ h \in Procs
    BY <1>0, <1>9 DEF Launch, RunTypeOK, Procs
  <2>3. Carriers \subseteq Carriers'
    BY <1>9, <2>1, <2>2 DEF Launch, Carriers, slot
  <2> QED
    BY <1>0, <1>9, <1>c, <2>3 DEF Launch, RunTypeOK, stopped
<1>10. ASSUME NEW g \in Procs, LaunchFails(g) \/ Abandon(g) PROVE Retained'
  <2>1. stopped /\ stop' = stop
    BY <1>b, <1>10 DEF LaunchFails, Abandon
  <2> QED
    BY <1>a, <2>1 DEF stopped
<1>11. CASE \/ SetAirplaneMode \/ RootCanceled \/ StopMark \/ StopCancel \/ StopReturns
            \/ UNCHANGED runVars
  <2>1. UNCHANGED << pc, args, pending, ghosts >> /\ (stopped => stopped')
    BY <1>11 DEF SetAirplaneMode, RootCanceled, StopMark, StopCancel, StopReturns, slot,
       runVars, ghosts, stopped
  <2>2. Carriers' = Carriers
    BY <2>1 DEF Carriers
  <2> QED
    BY <1>c, <2>1, <2>2
<1>12. ASSUME Trigger PROVE Retained'
  BY <1>1, <1>2, <1>12, TriggerCases
<1>13. ASSUME NEW g \in Procs, Pass(g) PROVE Retained'
  BY <1>6, <1>7, <1>8, <1>9, <1>10, <1>13 DEF Pass
<1> QED
  BY <1>3, <1>4, <1>5, <1>11, <1>12, <1>13 DEF RunNext

\* Nothing is asked of a new syncer.
LEMMA InitRetained == RunInit => Retained
  BY DEF RunInit, Retained, AbandonedToStop, AcceptedIsRetained, ScheduledIsRetained,
     ScopedGoesFirst

\* The invariant behind the three promises.
LEMMA RetainedInvariant == RunSpec => []Retained
  BY InitRetained, StepRetained, TypeInvariant, PTL DEF RunSpec

\* TriggerRun returned true: until Stop the request is carried, with its
\* cadence bypass, for any repositories and any sequence of other requests.
THEOREM SyncRunAcceptedIsRetained == RunSpec => []AcceptedIsRetained
<1>1. Retained => AcceptedIsRetained
  BY DEF Retained
<1> QED
  BY <1>1, RetainedInvariant, PTL

\* A scheduled pass accepted behind a scoped one stays a full pass ahead.
THEOREM SyncRunScheduledIsRetained == RunSpec => []ScheduledIsRetained
<1>1. Retained => ScheduledIsRetained
  BY DEF Retained
<1> QED
  BY <1>1, RetainedInvariant, PTL

\* Scoped work that a full pass subsumes stays a priority of that pass.
THEOREM SyncRunScopedGoesFirst == RunSpec => []ScopedGoesFirst
<1>1. Retained => ScopedGoesFirst
  BY DEF Retained
<1> QED
  BY <1>1, RetainedInvariant, PTL

\* Together: whatever coalesces, nothing a caller was told is accepted is lost
\* or weakened.
THEOREM SyncRunRequestsRetained == RunSpec => []RequestsRetained
<1>1. Retained => RequestsRetained
  BY DEF Retained, RequestsRetained
<1> QED
  BY <1>1, RetainedInvariant, PTL

-----------------------------------------------------------------------------
(* Stop. *)

\* A drained syncer's ticker has returned, and nothing brings a run back: no
\* trigger and no launch gets past Stop's mark.
DrainedRuns == stop = "drained" => pc[Ticker] = "exited" /\ \A g \in Runs : pc[g] = "idle"

\* No operation starts a goroutine of a drained syncer.
LEMMA StepDrainedRuns == TypeInv /\ DrainedRuns /\ [RunNext]_runVars => DrainedRuns'
<1> SUFFICES ASSUME TypeInv, DrainedRuns, [RunNext]_runVars, stop' = "drained"
             PROVE  pc'[Ticker] = "exited" /\ \A g \in Runs : pc'[g] = "idle"
  BY DEF DrainedRuns
<1>1. CASE StopReturns
  BY <1>1 DEF StopReturns
<1>2. CASE StopMark \/ StopCancel
  BY <1>2 DEF StopMark, StopCancel
<1>3. CASE stop = "drained"
  <2>1. /\ stopped /\ pc[Ticker] = "exited"
        /\ \A g \in Procs : pc[g] \in {"idle", "exited"}
    BY <1>3 DEF DrainedRuns, stopped, Procs
  <2>2. ~Tick /\ ~TickBehind /\ ~TickNow /\ ~TickerReturns
    BY <2>1 DEF Tick, TickBehind, TickNow, TickerReturns
  <2>3. ~Trigger
    BY <2>1, TriggerCases DEF TriggerBehind, TriggerNow
  <2>4. \A g \in Procs : ~Pass(g)
    BY <2>1 DEF Pass, Begin, Finish, HandOver, PublishStatus, Launch, LaunchFails, Abandon
  <2>5. UNCHANGED pc
    BY <2>2, <2>3, <2>4
       DEF RunNext, SetAirplaneMode, RootCanceled, StopMark, StopCancel, StopReturns, runVars
  <2> QED
    BY <1>3, <2>5 DEF DrainedRuns
<1>4. stop' = stop \/ StopMark \/ StopCancel \/ StopReturns
  <2>1. ASSUME Trigger PROVE stop' = stop
    BY <2>1, TriggerCases DEF TriggerBehind, TriggerNow
  <2>2. ASSUME NEW g \in Procs, Pass(g) PROVE stop' = stop
    BY <2>2 DEF Pass, Begin, Finish, HandOver, PublishStatus, Launch, LaunchFails, Abandon
  <2>3. ASSUME \/ Tick \/ TickBehind \/ TickNow \/ TickerReturns
               \/ SetAirplaneMode \/ RootCanceled \/ UNCHANGED runVars
        PROVE  stop' = stop
    BY <2>3 DEF Tick, TickBehind, TickNow, TickerReturns, SetAirplaneMode, RootCanceled, runVars
  <2> QED
    BY <2>1, <2>2, <2>3 DEF RunNext
<1> QED
  BY <1>1, <1>2, <1>3, <1>4

\* Stop that saw the wait group drain leaves no goroutine in a pass and the
\* slot free, whatever is triggered afterwards.
THEOREM SyncRunDrainedIsQuiet == RunSpec => []DrainedIsQuiet
<1>1. RunInit => DrainedRuns
  BY DEF RunInit, DrainedRuns
<1>2. TypeInv /\ DrainedRuns => DrainedIsQuiet
  BY DEF TypeInv, SingleFlight, Owners, Owning, DrainedRuns, DrainedIsQuiet, Procs
<1> QED
  BY <1>1, <1>2, StepDrainedRuns, TypeInvariant, PTL DEF RunSpec

-----------------------------------------------------------------------------
(* The slot (SyncSlot).  Nothing can be pending while the slot is free, and  *)
(* nothing else carries a request then: so the slot is free only when        *)
(* nothing waits.  When the ending pass hands over, the follow-up is the one *)
(* carrier left, so it reaches all that waited.                              *)

PendingHeld == pending # NoPending => running

\* A request is only merged behind a pass, and the pending run goes with the slot.
LEMMA StepPendingHeld == TypeInv /\ PendingHeld /\ [RunNext]_runVars => PendingHeld'
<1> SUFFICES ASSUME TypeInv, PendingHeld, [RunNext]_runVars PROVE PendingHeld'
  OBVIOUS
<1>1. CASE Trigger
  BY <1>1, TriggerCases DEF TriggerBehind, TriggerNow, PendingHeld
<1>2. CASE Tick \/ TickBehind \/ TickNow \/ TickerReturns
  BY <1>2 DEF Tick, TickBehind, TickNow, TickerReturns, PendingHeld, slot
<1>3. ASSUME NEW g \in Procs, Pass(g) PROVE PendingHeld'
  BY <1>3 DEF Pass, Begin, Finish, HandOver, PublishStatus, Launch, LaunchFails, Abandon,
     PendingHeld, slot
<1>4. CASE SetAirplaneMode \/ RootCanceled \/ StopMark \/ StopCancel \/ StopReturns
           \/ UNCHANGED runVars
  BY <1>4 DEF SetAirplaneMode, RootCanceled, StopMark, StopCancel, StopReturns, runVars,
     PendingHeld, slot
<1> QED
  BY <1>1, <1>2, <1>3, <1>4 DEF RunNext

SlotInv == TypeInv /\ Retained /\ DrainedRuns /\ PendingHeld

LEMMA SlotInvariant == RunSpec => []SlotInv
<1>1. RunInit => DrainedRuns /\ PendingHeld
  BY DEF RunInit, DrainedRuns, PendingHeld
<1> QED
  BY <1>1, StepDrainedRuns, StepPendingHeld, TypeInvariant, RetainedInvariant, PTL DEF SlotInv, RunSpec

\* What the slot's owner, or its absence, says of the abstract slot.
SlotView ==
    /\ \A g \in Procs :
          /\ pc[g] \in {"claimed", "launch"} =>
                /\ Stage = "due"
                /\ DueReaches = {r \in wanted : ~stopped /\ r \in Reaches(args[g])}
                /\ pending = NoPending /\ ~stopped => DueReaches = wanted
          /\ pc[g] = "abandon" => Stage = "due" /\ stopped /\ stop # "drained"
          /\ pc[g] \in {"working", "ending"} => Stage = "passing" /\ DueReaches = {}
    /\ running => \E g \in Procs : pc[g] \in Owning
    /\ ~running =>
          /\ Stage = "free" /\ DueReaches = {}
          /\ ~stopped => wanted = {}
          /\ \A g \in Procs : pc[g] \notin Owning

LEMMA SlotIsSeen == SlotInv => SlotView
<1> SUFFICES ASSUME SlotInv PROVE SlotView
  OBVIOUS
<1>0. RunTypeOK /\ SingleFlight /\ Retained /\ DrainedRuns /\ PendingHeld
  BY DEF SlotInv, TypeInv
<1>1. /\ \A g, h \in Procs : pc[g] \in Owning /\ pc[h] \in Owning => g = h
      /\ running <=> \E g \in Procs : pc[g] \in Owning
  BY <1>0 DEF SingleFlight, Owners
<1>2. ~stopped => \A r \in wanted : \/ pending # NoPending
                                  \/ \E g \in Procs : pc[g] \in {"claimed", "launch"} /\ r \in Reaches(args[g])
  BY <1>0, CarrierCases DEF Retained, AcceptedIsRetained
<1>3. ASSUME NEW g \in Procs, pc[g] \in {"claimed", "launch"}
      PROVE  /\ Stage = "due"
             /\ DueReaches = {r \in wanted : ~stopped /\ r \in Reaches(args[g])}
             /\ pending = NoPending /\ ~stopped => DueReaches = wanted
  <2>1. \A h \in Procs : pc[h] \in {"claimed", "launch"} => h = g
    BY <1>1, <1>3 DEF Owning
  <2>2. DueReaches = {r \in wanted : ~stopped /\ r \in Reaches(args[g])}
    BY <1>3, <2>1 DEF DueReaches
  <2> QED
    BY <1>2, <1>3, <2>1, <2>2 DEF Stage
<1>4. ASSUME NEW g \in Procs, pc[g] = "abandon"
      PROVE  Stage = "due" /\ stopped /\ stop # "drained"
  BY <1>0, <1>4 DEF Stage, Retained, AbandonedToStop, DrainedRuns, Procs
<1>5. ASSUME NEW g \in Procs, pc[g] \in {"working", "ending"}
      PROVE  Stage = "passing" /\ DueReaches = {}
  <2>1. \A h \in Procs : pc[h] \notin {"claimed", "launch", "abandon"}
    BY <1>1, <1>5 DEF Owning
  <2> QED
    BY <1>5, <2>1 DEF Stage, DueReaches
<1>6. ASSUME ~running
      PROVE  /\ Stage = "free" /\ DueReaches = {}
             /\ ~stopped => wanted = {}
             /\ \A g \in Procs : pc[g] \notin Owning
  <2>1. \A g \in Procs : pc[g] \notin Owning
    BY <1>1, <1>6
  <2> QED
    BY <1>0, <1>2, <1>6, <2>1 DEF Stage, DueReaches, Owning, PendingHeld
<1> QED
  BY <1>1, <1>3, <1>4, <1>5, <1>6 DEF SlotView

\* The slot is as it was when a step leaves owners and what they carry alone.
LEMMA SlotStays ==
    ASSUME wanted' = wanted, stopped' = stopped, (stop' = "drained") = (stop = "drained"),
           \A g \in Procs : pc[g] \in Owning \/ pc'[g] \in Owning
                              => pc'[g] = pc[g] /\ args'[g] = args[g]
    PROVE  UNCHANGED Slot!slotVars
<1>1. \A g \in Procs : pc'[g] \in Owning <=> pc[g] \in Owning
  OBVIOUS
<1>2. Stage' = Stage
  <2>1. \A g \in Procs : /\ pc'[g] \in {"claimed", "launch", "abandon"} <=> pc[g] \in {"claimed", "launch", "abandon"}
                         /\ pc'[g] \in {"working", "ending"} <=> pc[g] \in {"working", "ending"}
    BY <1>1 DEF Owning
  <2> QED
    BY <2>1 DEF Stage
<1>3. DueReaches' = DueReaches
  <2>1. \A g \in Procs : /\ pc'[g] \in {"claimed", "launch"} <=> pc[g] \in {"claimed", "launch"}
                         /\ pc[g] \in {"claimed", "launch"} => args'[g] = args[g]
    BY <1>1 DEF Owning
  <2>2. \A g \in Procs : pc[g] \in {"claimed", "launch"} => Reaches(args'[g]) = Reaches(args[g])
    BY <2>1
  <2>3. DueReaches' = {r \in wanted : ~stopped /\ \E g \in Procs :
                         pc'[g] \in {"claimed", "launch"} /\ r \in Reaches(args'[g])}
    BY DEF DueReaches, Reaches
  <2> QED
    BY <2>1, <2>2, <2>3 DEF DueReaches
<1> QED
  BY <1>2, <1>3 DEF Slot!slotVars

\* A trigger takes the free slot, or what it asks for is on its way with the pass
\* that is due, or waits.
LEMMA TriggerSteps ==
    ASSUME TypeInv, SlotView, SlotView', Trigger
    PROVE  \E R \in SUBSET Repos : Slot!Ask(R)
<1>1. PICK full \in BOOLEAN, priority \in SUBSET Repos, only \in SUBSET Repos :
        /\ full => only = {}
        /\ \/ TriggerBehind(full, priority, only)
           \/ \E g \in Runs : TriggerNow(g, full, priority, only)
  BY TriggerCases
<1> DEFINE R == IF full THEN Repos ELSE only
<1>2. R \in SUBSET Repos
  OBVIOUS
<1>3. ~stopped /\ ~stopped' /\ wanted' = wanted \union R /\ stop' = stop
  BY <1>1 DEF TriggerBehind, TriggerNow, Accept, stopped
<1>4. CASE TriggerBehind(full, priority, only)
  <2>1. running /\ UNCHANGED << pc, args >>
    BY <1>4 DEF TriggerBehind
  <2>2. PICK g \in Procs : pc[g] \in Owning
    BY <2>1 DEF SlotView
  <2>3. CASE pc[g] \in {"claimed", "launch"}
    <3> DEFINE N == R \intersect Reaches(args[g])
    <3>1. Stage = "due" /\ Stage' = "due"
      BY <2>1, <2>3 DEF SlotView
    <3>2. DueReaches = wanted \intersect Reaches(args[g])
      BY <1>3, <2>3 DEF SlotView
    <3>3. Reaches(args[g])' = Reaches(args[g])
      BY <2>1 DEF Reaches
    <3>4. DueReaches' = wanted' \intersect Reaches(args[g])
      BY <1>3, <2>1, <2>3, <3>3 DEF SlotView
    <3>5. DueReaches' = DueReaches \union N /\ wanted' \ DueReaches' = (wanted \ DueReaches) \union (R \ N)
      BY <1>3, <3>2, <3>4
    <3>6. N \in SUBSET R
      OBVIOUS
    <3>7. Slot!Ask(R)
      BY <1>3, <3>1, <3>5, <3>6 DEF Slot!Ask
    <3> QED
      BY <1>2, <3>7
  <2>4. CASE pc[g] = "abandon"
    BY <1>3, <2>4 DEF SlotView
  <2>5. CASE pc[g] \in {"working", "ending"}
    <3>1. Stage = "passing" /\ Stage' = "passing" /\ DueReaches = {} /\ DueReaches' = {}
      BY <2>1, <2>5 DEF SlotView
    <3>2. Slot!Ask(R)
      BY <1>3, <3>1 DEF Slot!Ask
    <3> QED
      BY <1>2, <3>2
  <2> QED
    BY <2>2, <2>3, <2>4, <2>5 DEF Owning
<1>5. ASSUME NEW g \in Runs, TriggerNow(g, full, priority, only)
      PROVE  \E Q \in SUBSET Repos : Slot!Ask(Q)
  <2>1. ~running /\ g \in Procs
    BY <1>5 DEF TriggerNow, Procs
  <2>2. Stage = "free" /\ DueReaches = {} /\ wanted = {}
    BY <1>3, <2>1 DEF SlotView
  <2>3. pc'[g] = "claimed" /\ Reaches(args'[g]) = R
    BY <1>1, <1>5, <2>1 DEF TriggerNow, TypeInv, RunTypeOK, Reaches
  <2>4. Stage' = "due" /\ DueReaches' = {r \in wanted' : ~stopped' /\ r \in Reaches(args'[g])}
    BY <2>1, <2>3 DEF SlotView, Reaches
  <2>5. DueReaches' = R /\ wanted' \ DueReaches' = {}
    BY <1>3, <2>2, <2>3, <2>4
  <2>6. Slot!Ask(R)
    BY <1>3, <2>2, <2>4, <2>5 DEF Slot!Ask
  <2> QED
    BY <1>2, <2>6
<1> QED
  BY <1>1, <1>4, <1>5

\* The ticker takes the free slot for a pass that owes nobody anything.
LEMMA TickerSteps ==
    ASSUME TypeInv, DrainedRuns, SlotView, SlotView', Tick \/ TickBehind \/ TickNow \/ TickerReturns
    PROVE  Slot!Come \/ UNCHANGED Slot!slotVars
<1>1. CASE Tick \/ TickBehind \/ TickerReturns
  <2>1. wanted' = wanted /\ stop' = stop /\ args' = args
    BY <1>1 DEF Tick, TickBehind, TickerReturns, ghosts
  <2>2. \A g \in Procs : pc[g] \in Owning \/ pc'[g] \in Owning => pc'[g] = pc[g]
    BY <1>1 DEF Tick, TickBehind, TickerReturns, Owning, TypeInv, RunTypeOK
  <2> QED
    BY <2>1, <2>2, SlotStays DEF stopped
<1>2. CASE TickNow
  <2>1. Ticker \in Procs /\ ~running /\ wanted' = wanted /\ stop' = stop /\ stopped' = stopped
    BY <1>2 DEF TickNow, Procs, ghosts, stopped
  <2>2. Stage = "free" /\ DueReaches = {} /\ (~stopped => wanted = {})
    BY <2>1 DEF SlotView
  <2>3. pc'[Ticker] = "claimed"
    BY <1>2, <2>1 DEF TickNow, TypeInv, RunTypeOK
  <2>4. Stage' = "due" /\ DueReaches' = {r \in wanted' : ~stopped' /\ r \in Reaches(args[Ticker])'}
    BY <2>1, <2>3 DEF SlotView
  <2>5. stop # "drained"
    BY <1>2 DEF TickNow, DrainedRuns
  <2> QED
    BY <2>1, <2>2, <2>4, <2>5 DEF Slot!Come
<1> QED
  BY <1>1, <1>2

\* A pass begins with all it was due to reach, and hands the slot over with all
\* that waited, or gives it up when nothing does.
LEMMA PassSteps ==
    ASSUME TypeInv, SlotView, SlotView', NEW g \in Procs, Pass(g)
    PROVE  Slot!Next \/ UNCHANGED Slot!slotVars
<1>0. pc \in [Procs -> PCs] /\ args \in [Procs -> Requests]
  BY DEF TypeInv, RunTypeOK
<1>1. CASE Begin(g)
  <2>1. pc[g] = "claimed" /\ pc'[g] = "working" /\ stop' = stop /\ wanted' = wanted \ Reaches(args[g])
    BY <1>0, <1>1 DEF Begin
  <2>2. Stage = "due" /\ DueReaches = {r \in wanted : ~stopped /\ r \in Reaches(args[g])}
    BY <2>1 DEF SlotView
  <2>3. Stage' = "passing" /\ DueReaches' = {}
    BY <2>1 DEF SlotView
  <2>4. Slot!Begin
    BY <2>1, <2>2, <2>3 DEF Slot!Begin, stopped
  <2> QED
    BY <2>4 DEF Slot!Next
<1>2. CASE Finish(g)
  <2>1. pc[g] = "working" /\ pc'[g] = "ending" /\ wanted' = wanted /\ stop' = stop
    BY <1>0, <1>2 DEF Finish, ghosts
  <2>2. Stage = "passing" /\ DueReaches = {} /\ Stage' = "passing" /\ DueReaches' = {}
    BY <2>1 DEF SlotView
  <2> QED
    BY <2>1, <2>2 DEF Slot!slotVars, stopped
<1>3. CASE HandOver(g)
  <2>1. pc[g] = "ending" /\ wanted' = wanted /\ stop' = stop /\ pending' = NoPending
    BY <1>3 DEF HandOver
  <2>2. Stage = "passing" /\ DueReaches = {}
    BY <2>1 DEF SlotView
  <2>3. CASE Drained = NoPending
    <3>1. ~running'
      BY <1>3, <2>3 DEF HandOver
    <3>2. Stage' = "free" /\ DueReaches' = {} /\ (~stopped' => wanted' = {})
      BY <3>1 DEF SlotView
    <3>3. Slot!End
      BY <2>1, <2>2, <3>2 DEF Slot!End, stopped
    <3> QED
      BY <3>3 DEF Slot!Next
  <2>4. CASE Drained # NoPending
    <3>1. pc'[g] = "launch"
      BY <1>0, <1>3, <2>4 DEF HandOver
    <3>2. /\ Stage' = "due" /\ (~stopped' => DueReaches' = wanted')
          /\ (stopped' => DueReaches' = {})
      BY <2>1, <3>1 DEF SlotView
    <3>3. Slot!End
      BY <2>1, <2>2, <3>2 DEF Slot!End, stopped
    <3> QED
      BY <3>3 DEF Slot!Next
  <2> QED
    BY <2>3, <2>4
<1>4. CASE PublishStatus(g)
  <2>1. wanted' = wanted /\ stop' = stop /\ args' = args
    BY <1>4 DEF PublishStatus, ghosts
  <2>2. \A h \in Procs : pc[h] \in Owning \/ pc'[h] \in Owning => pc'[h] = pc[h]
    BY <1>0, <1>4 DEF PublishStatus, Owning
  <2> QED
    BY <2>1, <2>2, SlotStays DEF stopped
<1>5. ASSUME NEW h \in Runs, Launch(g, h)
      PROVE  UNCHANGED Slot!slotVars
  <2>1. /\ h \in Procs /\ pc[g] = "launch" /\ pc'[h] = "claimed" /\ args'[h] = args[g]
        /\ wanted' = wanted /\ stop' = stop
    BY <1>0, <1>5 DEF Launch, Procs, ghosts
  <2>2. Stage = "due" /\ DueReaches = {r \in wanted : ~stopped /\ r \in Reaches(args[g])}
    BY <2>1 DEF SlotView
  <2>3. Stage' = "due" /\ DueReaches' = {r \in wanted' : ~stopped' /\ r \in Reaches(args'[h])}
    BY <2>1 DEF SlotView, Reaches
  <2> QED
    BY <2>1, <2>2, <2>3 DEF Slot!slotVars, stopped
<1>6. CASE LaunchFails(g)
  <2>1. /\ pc[g] = "launch" /\ pc'[g] = "abandon" /\ stopped
        /\ wanted' = wanted /\ stop' = stop
    BY <1>0, <1>6 DEF LaunchFails, ghosts
  <2>2. Stage = "due" /\ DueReaches = {} /\ Stage' = "due"
    BY <2>1 DEF SlotView
  <2>3. DueReaches' = {}
    BY <2>1 DEF DueReaches, stopped
  <2> QED
    BY <2>1, <2>2, <2>3 DEF Slot!slotVars, stopped
<1>7. CASE Abandon(g)
  <2>1. pc[g] = "abandon" /\ ~running' /\ wanted' = wanted /\ stop' = stop
    BY <1>7 DEF Abandon, ghosts
  <2>2. Stage = "due" /\ stopped /\ stop # "drained" /\ Stage' = "free"
    BY <2>1 DEF SlotView
  <2>3. DueReaches = {} /\ DueReaches' = {}
    BY <2>1, <2>2 DEF DueReaches, stopped
  <2>4. Slot!GiveUp
    BY <2>1, <2>2, <2>3 DEF Slot!GiveUp, stopped
  <2> QED
    BY <2>4 DEF Slot!Next
<1> QED
  BY <1>1, <1>2, <1>3, <1>4, <1>5, <1>6, <1>7 DEF Pass

\* Stop forgets what waits, and closes the slot when it has seen all return.
LEMMA StopSteps ==
    ASSUME TypeInv, SlotView, SetAirplaneMode \/ RootCanceled \/ StopMark \/ StopCancel \/ StopReturns
    PROVE  Slot!Next \/ UNCHANGED Slot!slotVars
<1>1. wanted' = wanted /\ pc' = pc /\ args' = args
  BY DEF SetAirplaneMode, RootCanceled, StopMark, StopCancel, StopReturns, ghosts
<1>2. Stage' = Stage
  BY <1>1 DEF Stage
<1>3. CASE stopped' = stopped /\ (stop' = "drained") = (stop = "drained")
  BY <1>1, <1>3, SlotStays
<1>4. CASE StopMark
  <2>1. ~stopped /\ stopped' /\ stop' = "marked"
    BY <1>4 DEF StopMark, stopped
  <2>2. DueReaches' = {}
    BY <2>1 DEF DueReaches, stopped
  <2>3. Slot!Stop
    BY <1>2, <2>1, <2>2 DEF Slot!Stop
  <2> QED
    BY <2>3 DEF Slot!Next
<1>5. CASE StopReturns /\ stop' = "drained"
  <2>1. /\ stopped /\ stopped' /\ stop # "drained"
        /\ \A g \in Procs : pc[g] \in {"idle", "exited"}
    BY <1>5 DEF StopReturns, stopped, Procs
  <2>2. Stage = "free" /\ DueReaches = {} /\ DueReaches' = {}
    BY <1>1, <2>1 DEF Stage, DueReaches, stopped
  <2>3. Slot!Close
    BY <1>2, <1>5, <2>1, <2>2 DEF Slot!Close
  <2> QED
    BY <2>3 DEF Slot!Next
<1> QED
  BY <1>3, <1>4, <1>5 DEF SetAirplaneMode, RootCanceled, StopMark, StopCancel, StopReturns, stopped

\* Claiming, coalescing, hand-over, airplane mode and Stop implement the slot, for
\* any repositories, run goroutines and triggers.
THEOREM SyncRunIsSlot == RunSpec => IsSyncSlot
<1>1. RunInit => Slot!Init
  BY DEF RunInit, Slot!Init, Stage, DueReaches, stopped
<1>2. SlotView /\ SlotView' /\ SlotInv /\ [RunNext]_runVars => [Slot!Next]_(Slot!slotVars)
  <2> SUFFICES ASSUME SlotView, SlotView', SlotInv, [RunNext]_runVars
               PROVE  Slot!Next \/ UNCHANGED Slot!slotVars
    OBVIOUS
  <2>0. TypeInv /\ DrainedRuns
    BY DEF SlotInv
  <2>1. CASE Trigger
    BY <2>0, <2>1, TriggerSteps DEF Slot!Next
  <2>2. CASE Tick \/ TickBehind \/ TickNow \/ TickerReturns
    BY <2>0, <2>2, TickerSteps DEF Slot!Next
  <2>3. ASSUME NEW g \in Procs, Pass(g) PROVE Slot!Next \/ UNCHANGED Slot!slotVars
    BY <2>0, <2>3, PassSteps
  <2>4. CASE SetAirplaneMode \/ RootCanceled \/ StopMark \/ StopCancel \/ StopReturns
    BY <2>0, <2>4, StopSteps
  <2>5. CASE UNCHANGED runVars
    BY <2>5, SlotStays DEF runVars, ghosts, stopped
  <2> QED
    BY <2>1, <2>2, <2>3, <2>4, <2>5 DEF RunNext
<1> QED
  BY <1>1, <1>2, SlotIsSeen, SlotInvariant, PTL DEF RunSpec, IsSyncSlot, Slot!Spec

\* The abstract slot is free only when nothing waits, and puts nothing off twice.
LEMMA SlotPromises == Slot!Spec => []Slot!FreeIsIdle /\ Slot!PutOffOnce
<1> DEFINE Waiting == IF stopped THEN {} ELSE wanted \ DueReaches
           Life == IF ~stopped THEN "on" ELSE IF stop = "drained" THEN "closed" ELSE "stopping"
           Idle == /\ Stage # "due" \/ Life # "on" => DueReaches = {}
                   /\ Stage = "free" \/ Life # "on" => Waiting = {}
                   /\ Life = "closed" => Stage = "free"
           Kept == Life' = "on" =>
                     /\ Stage' = "passing" \/ DueReaches \subseteq DueReaches'
                     /\ Stage = "passing" /\ Stage' # "passing" => Waiting \subseteq DueReaches'
                     /\ Waiting \subseteq DueReaches' \union Waiting'
<1>1. Slot!Init => Slot!FreeIsIdle
  BY DEF Slot!Init, Slot!FreeIsIdle
<1>2. ASSUME Idle, Slot!Next PROVE Idle' /\ Kept
  <2>1. ASSUME NEW R \in SUBSET Repos, Slot!Ask(R) PROVE Idle' /\ Kept
    BY <1>2, <2>1 DEF Slot!Ask
  <2>2. CASE Slot!Come
    BY <1>2, <2>2 DEF Slot!Come
  <2>3. CASE Slot!Begin
    BY <1>2, <2>3 DEF Slot!Begin
  <2>4. CASE Slot!End
    BY <1>2, <2>4 DEF Slot!End
  <2>5. CASE Slot!GiveUp
    BY <1>2, <2>5 DEF Slot!GiveUp
  <2>6. CASE Slot!Stop
    BY <1>2, <2>6 DEF Slot!Stop
  <2>7. CASE Slot!Close
    BY <1>2, <2>7 DEF Slot!Close
  <2> QED
    BY <1>2, <2>1, <2>2, <2>3, <2>4, <2>5, <2>6, <2>7 DEF Slot!Next
<1>3. Slot!FreeIsIdle <=> Idle
  BY DEF Slot!FreeIsIdle
<1>4. Slot!FreeIsIdle /\ [Slot!Next]_(Slot!slotVars) => Slot!FreeIsIdle' /\ [Kept]_(Slot!slotVars)
  BY <1>2 DEF Slot!FreeIsIdle, Slot!slotVars
<1> QED
  BY <1>1, <1>4, PTL DEF Slot!Spec, Slot!PutOffOnce

\* An accepted repository waits for at most the pass under way and the one that
\* is due, whatever else is asked for meanwhile.
THEOREM SyncRunPutsOffOnce == RunSpec => Slot!PutOffOnce
  BY SyncRunIsSlot, SlotPromises, PTL DEF IsSyncSlot
=============================================================================
