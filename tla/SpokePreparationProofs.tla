------------------------ MODULE SpokePreparationProofs ------------------------
(***************************************************************************)
(* Theorems about SpokePreparation, for any numbers of enrollments,        *)
(* writes, crashes, handlers and overlapping prepares: what an active      *)
(* spoke agrees on with its hub, that its seal is true, that revocation is *)
(* final, and that gate and row are a barrier.                             *)
(*                                                                         *)
(* No transaction spans the four stores, so the invariants say what a      *)
(* handler in the middle of its steps may rely on: AgreementInv about the  *)
(* seal that all of them hold, SealInv about what a seal says.             *)
(***************************************************************************)
EXTENDS SpokePreparation, TLAPS

Stages == {"idle", "asked", "bind", "save", "pin", "pinned", "quiesce", "drain", "handoff",
           "import", "imported", "handed", "failed", "receipts", "seal", "store", "reread",
           "role", "refused", "reopen", "reopenForced", "reset", "resetForced", "clear",
           "tombstone", "mark", "row", "answered", "accepted", "rejected"}

\* Where a prepare holds a request to the hub.
Requested == {"import", "imported", "handed", "failed", "receipts", "seal", "store", "save",
              "reread", "role"}

LocalTypes == [id : Enrollments \union {NoEnrollment},
               state : {"none", "pending", "active", "revoked"},
               bound : BOOLEAN, started : BOOLEAN, seal : Seals \union {NoSeal},
               lease : BOOLEAN]

RowTypes == [phase : Phases, enrollment : Enrollments \union {NoEnrollment},
             drain : (0 .. MaxWrites) \union {NoGeneration}, seal : Seals \union {NoSeal}]

SpokeTypes ==
    /\ local \in LocalTypes
    /\ prep \in RowTypes
    /\ gate \in GateTypes
    /\ config \in [role : {"hub", "spoke"}, bound : BOOLEAN]
    /\ process \in [stage : {"serving", "activating", "accepted", "rejected"},
                    role : {"hub", "spoke"}, active : BOOLEAN]
    /\ content \in 0 .. MaxWrites
    /\ receipt \in {None} \union (0 .. MaxWrites) /\ imported \in {None} \union (0 .. MaxWrites)
    /\ nextId \in Nat \ {0}
    /\ seals \in [Enrollments -> Seals \union {NoSeal}]
    /\ pc \in [Handlers -> Stages]
    /\ arg \in [Handlers -> Enrollments \union {NoEnrollment}]
    /\ req \in [Prepares -> Seals \union {NoSeal}]

Busy(h) == pc[h] # "idle"

\* Enrollment ids are handed out in order, and only a store without an
\* enrollment has no id.
IdsInOrder ==
    /\ local.id = NoEnrollment <=> local.state = "none"
    /\ local.id = NoEnrollment => local.seal = NoSeal
    /\ local.id # NoEnrollment => local.id < nextId
    /\ \A h \in Handlers : Busy(h) => arg[h] \in Enrollments /\ arg[h] < nextId
    /\ prep.phase # "open" => prep.enrollment \in Enrollments /\ prep.enrollment < nextId

\* Nobody works on an enrollment that was not saved yet.
NewToAll ==
    /\ Busy("join") =>
         /\ local.id = arg["join"] => local.state = "pending" /\ ~local.bound
         /\ \A h \in Handlers \ {"join"} : Busy(h) => arg[h] # arg["join"]
         /\ prep.phase # "open" => prep.enrollment # arg["join"]
    /\ local.state = "pending" /\ ~local.bound =>
         /\ \A h \in Handlers \ {"join"} : Busy(h) => arg[h] # local.id
         /\ prep.phase # "open" => prep.enrollment # local.id

\* A seal the store has is the one the hub issued for its enrollment.
SealsAreIssued ==
    /\ local.seal # NoSeal => local.seal = seals[local.id]
    /\ \A p \in Prepares :
         /\ pc[p] \in Requested => req[p] \in Seals
         /\ pc[p] \in {"store", "save"} => seals[arg[p]] = req[p]

\* Writes are barred, and what startup looks at agrees.
Prepared ==
    /\ SealIsTheRows /\ config.role = "spoke" /\ process.role = "spoke"
    /\ gate.phase # "open" /\ gate.inFlight = 0

\* Startup is alone, and finds a prepared spoke.
StartupIsAlone ==
    ~Serving => Prepared /\ \A h \in Handlers : ~Busy(h)

\* An active spoke stays prepared: only its revocation and its renewals run.
ActiveIsPrepared ==
    local.state = "active" =>
        /\ Prepared
        /\ \A h \in Handlers \ {"revoke", "renew"} : ~Busy(h)
        /\ pc["revoke"] \in {"idle", "mark"}

AgreementInv ==
    /\ SpokeTypes
    /\ IdsInOrder
    /\ NewToAll
    /\ SealsAreIssued
    /\ StartupIsAlone
    /\ ActiveIsPrepared

-----------------------------------------------------------------------------
\* A generation that is frozen is the newest, and nothing is admitted any more.
FrozenIsNewest ==
    /\ unsynced \subseteq 0 .. content
    /\ prep.phase = "open" => prep.drain = NoGeneration
    /\ RowIsLocals =>
         /\ gate.phase # "open"
         /\ prep.drain # NoGeneration => gate.inFlight = 0 /\ prep.drain = content

\* The hub has what its receipts say.
ReceiptsAreImported ==
    /\ receipt \in Int /\ imported \in Int
    /\ receipt <= imported /\ imported <= content
    /\ \A p \in Prepares :
         /\ pc[p] \in {"import", "imported"}
              => req[p].receipts \in Int /\ req[p].receipts <= content
         /\ pc[p] = "imported" => req[p].receipts <= imported

\* A generation is frozen once the acknowledgements up to it are queued.
FrozenIsQueued == prep.drain # NoGeneration => prep.drain <= content

\* What a seal says is so: the hub has what its receipts cover, and no
\* acknowledgement up to its generation waits.
Covers(r) ==
    /\ r.receipts <= imported
    /\ r.drain <= content
    /\ \A g \in unsynced : r.drain < g

SealsCover ==
    /\ \A p \in Prepares : pc[p] \in {"receipts", "seal"} => Covers(req[p])
    /\ \A e \in Enrollments : seals[e] # NoSeal => Covers(seals[e])

SealInv == AgreementInv /\ FrozenIsNewest /\ FrozenIsQueued /\ ReceiptsAreImported /\ SealsCover

-----------------------------------------------------------------------------
(* What one step does to the handlers. *)

Moves(h) == pc[h] # "idle" /\ arg' = arg /\ \E stage \in Stages : pc' = [pc EXCEPT ![h] = stage]

\* The enrollment the store has when a handler begins.
BeginsOn(h) ==
    IF h = "join"
    THEN \/ local' = local /\ Reusable
         \/ local'.id = nextId /\ nextId \in Enrollments /\ nextId' = nextId + 1
    ELSE /\ local' = local /\ local.id # NoEnrollment
         /\ h \in Prepares \union {"abort"} => local.state = "pending" /\ local.bound
         /\ h = "revoke" => local.bound /\ pc'[h] = "mark"
         /\ h = "renew" => local.state = "active"

Begins(h) ==
    /\ Serving /\ pc[h] = "idle" /\ BeginsOn(h)
    /\ \E stage \in Stages : pc' = [pc EXCEPT ![h] = stage]
    /\ arg' = [arg EXCEPT ![h] = local'.id]

Returns(h) == pc' = [pc EXCEPT ![h] = "idle"] /\ arg' = [arg EXCEPT ![h] = NoEnrollment]

AllStop == pc' = [h \in Handlers |-> "idle"] /\ arg' = [h \in Handlers |-> NoEnrollment]

HandlersMove ==
    \/ UNCHANGED << pc, arg >>
    \/ \E h \in Handlers : Moves(h) \/ Begins(h) \/ Returns(h)
    \/ AllStop

\* A step moves, begins or ends one handler, or a restart stops them all.
LEMMA HandlersStep ==
    ASSUME SpokeTypes, IdsInOrder, [Next]_vars
    PROVE  HandlersMove
<1> USE DEF Stages
<1>0. {"join", "abort", "revoke", "renew"} \subseteq Handlers /\ Prepares \subseteq Handlers
  BY DEF Handlers
<1>1. CASE Join
  <2>1. Begins("join")
    <3>1. arg' = [arg EXCEPT !["join"] = local'.id] /\ pc["join"] = "idle" /\ Serving
      BY <1>1 DEF Join, Idle
    <3>2. pc' = [pc EXCEPT !["join"] = "asked"]
      BY <1>1 DEF Join
    <3>3. CASE Reusable /\ UNCHANGED << local, nextId >>
      BY <3>1, <3>2, <3>3 DEF Begins, BeginsOn
    <3>4. CASE /\ nextId \in Enrollments /\ nextId' = nextId + 1
               /\ local' = [NoLocal EXCEPT !.id = nextId, !.state = "pending"]
      <4>1. local'.id = nextId
        BY <3>4 DEF NoLocal
      <4> QED
        BY <3>1, <3>2, <3>4, <4>1 DEF Begins, BeginsOn
    <3> QED
      BY <1>1, <3>3, <3>4 DEF Join
  <2> QED
    BY <1>0, <2>1 DEF HandlersMove
<1>2. ASSUME NEW p \in Prepares, Prepare(p) PROVE HandlersMove
  <2>1. Begins(p)
    BY <1>0, <1>2, PreparationAssumption
       DEF Prepare, Begin, Idle, Begins, BeginsOn, NoStore, OnHub, stores, IdsInOrder
  <2> QED
    BY <1>0, <2>1 DEF HandlersMove
<1>3. CASE Abort
  <2>1. Begins("abort")
    BY <1>0, <1>3 DEF Abort, Begin, Idle, Begins, BeginsOn, stores, IdsInOrder
  <2> QED
    BY <1>0, <2>1 DEF HandlersMove
<1>4. CASE RevokeArrives
  <2>1. Begins("revoke")
    BY <1>0, <1>4, PreparationAssumption
       DEF RevokeArrives, Begin, Idle, Begins, BeginsOn, NoStore, OnHub, stores, SpokeTypes
  <2> QED
    BY <1>0, <2>1 DEF HandlersMove
<1>5. CASE Renew
  <2>1. Begins("renew")
    BY <1>0, <1>5, PreparationAssumption
       DEF Renew, Begin, Idle, Begins, BeginsOn, stores, IdsInOrder
  <2> QED
    BY <1>0, <2>1 DEF HandlersMove
<1>6. CASE HubBegins \/ BindHub \/ SaveJoined \/ JoinFails
  <2>1. Moves("join") \/ Returns("join")
    BY <1>0, <1>6 DEF HubBegins, BindHub, SaveJoined, JoinFails, Go, Return, Moves, Returns
  <2> QED
    BY <1>0, <2>1 DEF HandlersMove
<1>7. ASSUME NEW p \in Prepares, PrepareStep(p) PROVE HandlersMove
  <2>1. CASE Prepare(p)
    BY <1>2, <2>1
  <2>2. Moves(p) \/ Returns(p) \/ Prepare(p)
    <3>1. CASE HubPins(p) \/ MarkLocalPreparationStarted(p) \/ Quiesce(p) \/ Drain(p)
      BY <3>1 DEF HubPins, MarkLocalPreparationStarted, Quiesce, Drain, Go, Return, Moves, Returns
    <3>2. CASE Inventory(p) \/ HubImports(p) \/ RecordReceipt(p) \/ HandoffFails(p)
      BY <3>2 DEF Inventory, HubImports, RecordReceipt, HandoffFails, Go, Return, Moves, Returns
    <3>3. CASE Recheck(p) \/ ListReceipts(p) \/ HubSeals(p) \/ StoreLocalSeal(p)
      BY <3>3 DEF Recheck, ListReceipts, HubSeals, StoreLocalSeal, Go, Return, Moves, Returns
    <3>4. CASE SaveLocalPreparationSeal(p) \/ RereadLocal(p) \/ SaveRole(p) \/ PrepareFails(p)
      BY <3>4 DEF SaveLocalPreparationSeal, RereadLocal, SaveRole, PrepareFails, Go, Return,
         Moves, Returns
    <3> QED
      BY <1>7, <3>1, <3>2, <3>3, <3>4 DEF PrepareStep
  <2> QED
    BY <1>0, <2>1, <2>2 DEF HandlersMove
<1>8. ASSUME NEW force \in BOOLEAN, AbortUnconfirmed(force) PROVE HandlersMove
  <2>1. Moves("abort") \/ Returns("abort")
    BY <1>8 DEF AbortUnconfirmed, Go, Return, Moves, Returns
  <2> QED
    BY <1>0, <2>1 DEF HandlersMove
<1>9. CASE ReopenWrites \/ ResetPreparedSpokeBinding \/ ClearLocal
  <2>1. Moves("abort") \/ Returns("abort")
    BY <1>9 DEF ReopenWrites, ResetPreparedSpokeBinding, ClearLocal, Go, Return, Moves, Returns
  <2> QED
    BY <1>0, <2>1 DEF HandlersMove
<1>10. CASE RevokeLocal \/ RevokeRow \/ HubRevokes \/ RevokeAnswerLost
  <2>1. Moves("revoke") \/ Returns("revoke")
    BY <1>10 DEF RevokeLocal, RevokeRow, HubRevokes, RevokeAnswerLost, Go, Return, Moves, Returns
  <2> QED
    BY <1>0, <2>1 DEF HandlersMove
<1>11. CASE RenewFails \/ FinishRenewal
  <2>1. Returns("renew")
    BY <1>11 DEF RenewFails, FinishRenewal, Return, Returns
  <2> QED
    BY <1>0, <2>1 DEF HandlersMove
<1>12. ASSUME NEW r \in wire, HubAborts(r) PROVE HandlersMove
  <2>1. Moves("abort") \/ UNCHANGED << pc, arg >>
    BY <1>12 DEF HubAborts, Reply, Moves
  <2> QED
    BY <1>0, <2>1 DEF HandlersMove
<1>13. ASSUME NEW r \in wire, HubActivates(r) PROVE HandlersMove
  <2>1. Moves("renew") \/ UNCHANGED << pc, arg >>
    BY <1>13 DEF HubActivates, Reply, Moves
  <2> QED
    BY <1>0, <2>1 DEF HandlersMove
<1>14. ASSUME NEW readable \in BOOLEAN, Restart(readable) PROVE HandlersMove
  BY <1>14 DEF Restart, AllStop, HandlersMove
<1>15. CASE UNCHANGED << pc, arg >>
  BY <1>15 DEF HandlersMove
<1> QED
  BY <1>1, <1>3, <1>4, <1>5, <1>6, <1>7, <1>8, <1>9, <1>10, <1>11, <1>12, <1>13, <1>14, <1>15
     DEF Next, AdmitWrite, FinishWrite, SyncAck, Expire, FinishStartup, LeaseExpires, OnLocal,
        vars

\* A handler that is busy after a step was so before, on the same enrollment, or
\* begins.
LEMMA BusyOnes ==
    ASSUME SpokeTypes, HandlersMove, NEW h \in Handlers, pc'[h] # "idle"
    PROVE  \/ pc[h] # "idle" /\ arg'[h] = arg[h]
           \/ pc[h] = "idle" /\ Serving /\ BeginsOn(h) /\ arg'[h] = local'.id
<1>1. ASSUME NEW k \in Handlers, Moves(k) \/ Begins(k) \/ Returns(k), k # h
      PROVE  pc'[h] = pc[h] /\ arg'[h] = arg[h]
  BY <1>1 DEF Moves, Begins, Returns, SpokeTypes
<1>2. CASE Moves(h)
  BY <1>2 DEF Moves, SpokeTypes
<1>3. CASE Begins(h)
  BY <1>3 DEF Begins, SpokeTypes
<1>4. CASE Returns(h)
  BY <1>4 DEF Returns, SpokeTypes
<1>5. CASE AllStop
  BY <1>5 DEF AllStop
<1> QED
  BY <1>1, <1>2, <1>3, <1>4, <1>5 DEF HandlersMove

-----------------------------------------------------------------------------
(* Which steps write which store. *)

Written ==
    /\ \/ UNCHANGED local
       \/ Join \/ SaveJoined \/ ClearLocal \/ RevokeLocal \/ FinishStartup \/ LeaseExpires
       \/ FinishRenewal
       \/ \E p \in Prepares : MarkLocalPreparationStarted(p) \/ SaveLocalPreparationSeal(p)
    /\ \/ UNCHANGED prep
       \/ ReopenWrites \/ RevokeRow
       \/ \E p \in Prepares : Quiesce(p) \/ Drain(p) \/ Recheck(p) \/ StoreLocalSeal(p)
    /\ \/ UNCHANGED gate
       \/ AdmitWrite \/ FinishWrite \/ ReopenWrites \/ \E readable \in BOOLEAN : Restart(readable)
       \/ \E p \in Prepares : Quiesce(p) \/ Drain(p) \/ Recheck(p)
    /\ \/ UNCHANGED config
       \/ BindHub \/ ResetPreparedSpokeBinding \/ \E p \in Prepares : SaveRole(p)
    /\ \/ UNCHANGED process
       \/ FinishStartup \/ FinishRenewal \/ \E readable \in BOOLEAN : Restart(readable)
       \/ \E r \in wire : HubActivates(r)
    /\ UNCHANGED seals \/ \E p \in Prepares : HubSeals(p)
    /\ UNCHANGED imported \/ \E p \in Prepares : HubImports(p)
    /\ UNCHANGED receipt \/ ReopenWrites \/ RevokeRow \/ \E p \in Prepares : RecordReceipt(p)
    /\ UNCHANGED content \/ FinishWrite
    /\ UNCHANGED unsynced \/ FinishWrite \/ \E g \in unsynced : SyncAck(g)
    /\ UNCHANGED nextId \/ Join
    /\ \/ UNCHANGED req
       \/ \E h \in Handlers : Return(h)
       \/ \E readable \in BOOLEAN : Restart(readable)
       \/ \E p \in Prepares : Inventory(p) \/ Recheck(p) \/ ListReceipts(p)

\* Each variable is written by the actions that Written lists for it.
LEMMA Writers ==
    ASSUME [Next]_vars
    PROVE  Written
<1>0. {"join", "abort", "revoke", "renew"} \subseteq Handlers /\ Prepares \subseteq Handlers
  BY DEF Handlers
<1> USE DEF NoStore, OnHub, OnLocal, OnConfig, OnRow, Elsewhere, stores, hub
<1>1. CASE AdmitWrite
  BY <1>0, <1>1 DEF AdmitWrite, Go, Begin, Written
<1>2. CASE FinishWrite
  BY <1>0, <1>2 DEF FinishWrite, Go, Begin, Written
<1>3. CASE Join
  BY <1>0, <1>3 DEF Join, Go, Begin, Written
<1>4. CASE HubBegins
  BY <1>0, <1>4 DEF HubBegins, Go, Begin, Written
<1>5. CASE BindHub
  BY <1>0, <1>5 DEF BindHub, Go, Begin, Written
<1>6. CASE SaveJoined
  BY <1>0, <1>6 DEF SaveJoined, Go, Begin, Written
<1>7. CASE JoinFails
  BY <1>0, <1>7 DEF JoinFails, Go, Begin, Written
<1>8. CASE Abort
  BY <1>0, <1>8 DEF Abort, Go, Begin, Written
<1>9. CASE ReopenWrites
  BY <1>0, <1>9 DEF ReopenWrites, Go, Begin, Written
<1>10. CASE ResetPreparedSpokeBinding
  BY <1>0, <1>10 DEF ResetPreparedSpokeBinding, Go, Begin, Written
<1>11. CASE ClearLocal
  BY <1>0, <1>11 DEF ClearLocal, Go, Begin, Written
<1>12. CASE RevokeArrives
  BY <1>0, <1>12 DEF RevokeArrives, Go, Begin, Written
<1>13. CASE RevokeLocal
  BY <1>0, <1>13 DEF RevokeLocal, Go, Begin, Written
<1>14. CASE RevokeRow
  BY <1>0, <1>14 DEF RevokeRow, Go, Begin, Written
<1>15. CASE HubRevokes
  BY <1>0, <1>15 DEF HubRevokes, Go, Begin, Written
<1>16. CASE RevokeAnswerLost
  BY <1>0, <1>16 DEF RevokeAnswerLost, Go, Begin, Written
<1>17. CASE FinishStartup
  BY <1>0, <1>17 DEF FinishStartup, Go, Begin, Written
<1>18. CASE LeaseExpires
  BY <1>0, <1>18 DEF LeaseExpires, Go, Begin, Written
<1>19. CASE Renew
  BY <1>0, <1>19 DEF Renew, Go, Begin, Written
<1>20. CASE RenewFails
  BY <1>0, <1>20 DEF RenewFails, Go, Begin, Written
<1>21. CASE FinishRenewal
  BY <1>0, <1>21 DEF FinishRenewal, Go, Begin, Written
<1>22. ASSUME NEW p \in Prepares, PrepareStep(p) PROVE Written
  <2>1. CASE Prepare(p)
    BY <1>0, <2>1 DEF Prepare, Go, Begin, Written
  <2>2. CASE HubPins(p)
    BY <1>0, <2>2 DEF HubPins, Go, Begin, Written
  <2>3. CASE MarkLocalPreparationStarted(p)
    BY <1>0, <2>3 DEF MarkLocalPreparationStarted, Go, Begin, Written
  <2>4. CASE Quiesce(p)
    BY <1>0, <2>4 DEF Quiesce, Go, Begin, Written
  <2>5. CASE Drain(p)
    BY <1>0, <2>5 DEF Drain, Go, Begin, Written
  <2>6. CASE Inventory(p)
    BY <1>0, <2>6 DEF Inventory, Go, Begin, Written
  <2>7. CASE HubImports(p)
    BY <1>0, <2>7 DEF HubImports, Go, Begin, Written
  <2>8. CASE RecordReceipt(p)
    BY <1>0, <2>8 DEF RecordReceipt, Go, Begin, Written
  <2>9. CASE HandoffFails(p)
    BY <1>0, <2>9 DEF HandoffFails, Go, Begin, Written
  <2>10. CASE Recheck(p)
    BY <1>0, <2>10 DEF Recheck, Go, Begin, Written
  <2>11. CASE ListReceipts(p)
    BY <1>0, <2>11 DEF ListReceipts, Go, Begin, Written
  <2>12. CASE HubSeals(p)
    BY <1>0, <2>12 DEF HubSeals, Go, Begin, Written
  <2>13. CASE StoreLocalSeal(p)
    BY <1>0, <2>13 DEF StoreLocalSeal, Go, Begin, Written
  <2>14. CASE SaveLocalPreparationSeal(p)
    BY <1>0, <2>14 DEF SaveLocalPreparationSeal, Go, Begin, Written
  <2>15. CASE RereadLocal(p)
    BY <1>0, <2>15 DEF RereadLocal, Go, Begin, Written
  <2>16. CASE SaveRole(p)
    BY <1>0, <2>16 DEF SaveRole, Go, Begin, Written
  <2>17. CASE PrepareFails(p)
    BY <1>0, <2>17 DEF PrepareFails, Go, Begin, Written
  <2> QED
    BY <1>22, <2>1, <2>2, <2>3, <2>4, <2>5, <2>6, <2>7, <2>8, <2>9, <2>10, <2>11, <2>12, <2>13,
       <2>14, <2>15, <2>16, <2>17 DEF PrepareStep
<1>23. ASSUME NEW g \in unsynced, SyncAck(g) PROVE Written
  BY <1>0, <1>23 DEF SyncAck, Go, Begin, Written
<1>24. ASSUME NEW e \in Enrollments, Expire(e) PROVE Written
  BY <1>0, <1>24 DEF Expire, Go, Begin, Written
<1>25. ASSUME NEW force \in BOOLEAN, AbortUnconfirmed(force) PROVE Written
  BY <1>0, <1>25 DEF AbortUnconfirmed, Go, Begin, Written
<1>26. ASSUME NEW r \in wire, HubAborts(r) PROVE Written
  BY <1>0, <1>26 DEF HubAborts, Go, Begin, Written
<1>27. ASSUME NEW r \in wire, HubActivates(r) PROVE Written
  BY <1>0, <1>27 DEF HubActivates, Go, Begin, Written
<1>28. ASSUME NEW readable \in BOOLEAN, Restart(readable) PROVE Written
  BY <1>0, <1>28 DEF Restart, Go, Begin, Written
<1>29. CASE UNCHANGED vars
  BY <1>0, <1>29 DEF vars, Go, Begin, Written
<1> QED
  BY <1>1, <1>2, <1>3, <1>4, <1>5, <1>6, <1>7, <1>8, <1>9, <1>10, <1>11, <1>12, <1>13, <1>14,
     <1>15, <1>16, <1>17, <1>18, <1>19, <1>20, <1>21, <1>22, <1>23, <1>24, <1>25, <1>26, <1>27,
     <1>28, <1>29 DEF Next

\* A prepare moves by its own steps only.
Keeps(p) == pc'[p] = "idle" \/ (pc'[p] = pc[p] /\ arg'[p] = arg[p] /\ req'[p] = req[p])

\* A prepare moves, or is stopped, and otherwise keeps what it holds.
LEMMA OthersKeep ==
    ASSUME SpokeTypes, [Next]_vars, NEW p \in Prepares
    PROVE  PrepareStep(p) \/ Keeps(p)
<1>0. /\ p \in Handlers /\ p \notin {"join", "abort", "revoke", "renew"}
      /\ {"join", "abort", "revoke", "renew"} \subseteq Handlers /\ Prepares \subseteq Handlers
  BY PreparationAssumption DEF Handlers
<1>a. /\ pc = [h \in Handlers |-> pc[h]] /\ arg = [h \in Handlers |-> arg[h]]
      /\ req = [q \in Prepares |-> req[q]]
  BY DEF SpokeTypes
<1> USE DEF NoStore, OnHub, OnLocal, Go, Return, Begin, Keeps
<1>1. CASE AdmitWrite
  BY <1>0, <1>a, <1>1 DEF AdmitWrite
<1>2. CASE FinishWrite
  BY <1>0, <1>a, <1>2 DEF FinishWrite
<1>3. CASE Join
  BY <1>0, <1>a, <1>3 DEF Join
<1>4. CASE HubBegins
  BY <1>0, <1>a, <1>4 DEF HubBegins
<1>5. CASE BindHub
  BY <1>0, <1>a, <1>5 DEF BindHub
<1>6. CASE SaveJoined
  BY <1>0, <1>a, <1>6 DEF SaveJoined
<1>7. CASE JoinFails
  BY <1>0, <1>a, <1>7 DEF JoinFails
<1>8. CASE Abort
  BY <1>0, <1>a, <1>8 DEF Abort
<1>9. CASE ReopenWrites
  BY <1>0, <1>a, <1>9 DEF ReopenWrites
<1>10. CASE ResetPreparedSpokeBinding
  BY <1>0, <1>a, <1>10 DEF ResetPreparedSpokeBinding
<1>11. CASE ClearLocal
  BY <1>0, <1>a, <1>11 DEF ClearLocal
<1>12. CASE RevokeArrives
  BY <1>0, <1>a, <1>12 DEF RevokeArrives
<1>13. CASE RevokeLocal
  BY <1>0, <1>a, <1>13 DEF RevokeLocal
<1>14. CASE RevokeRow
  BY <1>0, <1>a, <1>14 DEF RevokeRow
<1>15. CASE HubRevokes
  BY <1>0, <1>a, <1>15 DEF HubRevokes
<1>16. CASE RevokeAnswerLost
  BY <1>0, <1>a, <1>16 DEF RevokeAnswerLost
<1>17. CASE FinishStartup
  BY <1>0, <1>a, <1>17 DEF FinishStartup
<1>18. CASE LeaseExpires
  BY <1>0, <1>a, <1>18 DEF LeaseExpires
<1>19. CASE Renew
  BY <1>0, <1>a, <1>19 DEF Renew
<1>20. CASE RenewFails
  BY <1>0, <1>a, <1>20 DEF RenewFails
<1>21. CASE FinishRenewal
  BY <1>0, <1>a, <1>21 DEF FinishRenewal
<1>22. ASSUME NEW q \in Prepares, q # p, PrepareStep(q) PROVE Keeps(p)
  <2>1. CASE Prepare(q)
    BY <1>0, <1>a, <1>22, <2>1 DEF Prepare
  <2>2. CASE HubPins(q)
    BY <1>0, <1>a, <1>22, <2>2 DEF HubPins
  <2>3. CASE MarkLocalPreparationStarted(q)
    BY <1>0, <1>a, <1>22, <2>3 DEF MarkLocalPreparationStarted
  <2>4. CASE Quiesce(q)
    BY <1>0, <1>a, <1>22, <2>4 DEF Quiesce
  <2>5. CASE Drain(q)
    BY <1>0, <1>a, <1>22, <2>5 DEF Drain
  <2>6. CASE Inventory(q)
    BY <1>0, <1>a, <1>22, <2>6 DEF Inventory
  <2>7. CASE HubImports(q)
    BY <1>0, <1>a, <1>22, <2>7 DEF HubImports
  <2>8. CASE RecordReceipt(q)
    BY <1>0, <1>a, <1>22, <2>8 DEF RecordReceipt
  <2>9. CASE HandoffFails(q)
    BY <1>0, <1>a, <1>22, <2>9 DEF HandoffFails
  <2>10. CASE Recheck(q)
    BY <1>0, <1>a, <1>22, <2>10 DEF Recheck
  <2>11. CASE ListReceipts(q)
    BY <1>0, <1>a, <1>22, <2>11 DEF ListReceipts
  <2>12. CASE HubSeals(q)
    BY <1>0, <1>a, <1>22, <2>12 DEF HubSeals
  <2>13. CASE StoreLocalSeal(q)
    BY <1>0, <1>a, <1>22, <2>13 DEF StoreLocalSeal
  <2>14. CASE SaveLocalPreparationSeal(q)
    BY <1>0, <1>a, <1>22, <2>14 DEF SaveLocalPreparationSeal
  <2>15. CASE RereadLocal(q)
    BY <1>0, <1>a, <1>22, <2>15 DEF RereadLocal
  <2>16. CASE SaveRole(q)
    BY <1>0, <1>a, <1>22, <2>16 DEF SaveRole
  <2>17. CASE PrepareFails(q)
    BY <1>0, <1>a, <1>22, <2>17 DEF PrepareFails
  <2> QED
    BY <1>22, <2>1, <2>2, <2>3, <2>4, <2>5, <2>6, <2>7, <2>8, <2>9, <2>10, <2>11, <2>12, <2>13,
       <2>14, <2>15, <2>16, <2>17 DEF PrepareStep
<1>23. ASSUME NEW g \in unsynced, SyncAck(g) PROVE Keeps(p)
  BY <1>0, <1>a, <1>23 DEF SyncAck, Reply
<1>24. ASSUME NEW e \in Enrollments, Expire(e) PROVE Keeps(p)
  BY <1>0, <1>a, <1>24 DEF Expire, Reply
<1>25. ASSUME NEW force \in BOOLEAN, AbortUnconfirmed(force) PROVE Keeps(p)
  BY <1>0, <1>a, <1>25 DEF AbortUnconfirmed, Reply
<1>26. ASSUME NEW r \in wire, HubAborts(r) PROVE Keeps(p)
  BY <1>0, <1>a, <1>26 DEF HubAborts, Reply
<1>27. ASSUME NEW r \in wire, HubActivates(r) PROVE Keeps(p)
  BY <1>0, <1>a, <1>27 DEF HubActivates, Reply
<1>28. ASSUME NEW readable \in BOOLEAN, Restart(readable) PROVE Keeps(p)
  <2>1. pc' = [h \in Handlers |-> "idle"]
    BY <1>28 DEF Restart
  <2> QED
    BY <1>0, <2>1
<1>29. CASE UNCHANGED vars
  BY <1>29 DEF vars
<1> QED
  BY <1>1, <1>2, <1>3, <1>4, <1>5, <1>6, <1>7, <1>8, <1>9, <1>10, <1>11, <1>12, <1>13, <1>14,
     <1>15, <1>16, <1>17, <1>18, <1>19, <1>20, <1>21, <1>22, <1>23, <1>24, <1>25, <1>26, <1>27,
     <1>28, <1>29 DEF Next

-----------------------------------------------------------------------------
(* Types. *)

\* A store without an enrollment, and one with a revoked one.
LEMMA BlankLocals ==
    /\ NoLocal \in LocalTypes
    /\ NoLocal.id = NoEnrollment /\ NoLocal.state = "none" /\ NoLocal.seal = NoSeal
    /\ ~NoLocal.bound
    /\ \A e \in Enrollments :
         /\ Tombstone(e) \in LocalTypes
         /\ Tombstone(e).id = e /\ Tombstone(e).state = "revoked" /\ Tombstone(e).seal = NoSeal
<1>1. NoLocal \in LocalTypes
  BY DEF NoLocal, LocalTypes
<1>2. ASSUME NEW e \in Enrollments
      PROVE  /\ Tombstone(e) \in LocalTypes
             /\ Tombstone(e).id = e /\ Tombstone(e).state = "revoked" /\ Tombstone(e).seal = NoSeal
  <2>1. Tombstone(e) \in LocalTypes
    BY <1>1 DEF Tombstone, LocalTypes
  <2>2. Tombstone(e).id = e /\ Tombstone(e).state = "revoked" /\ Tombstone(e).seal = NoLocal.seal
    BY <1>1 DEF Tombstone, LocalTypes
  <2> QED
    BY <2>1, <2>2 DEF NoLocal
<1> QED
  BY <1>1, <1>2 DEF NoLocal

\* The enrollment store keeps its type.
LEMMA LocalTypesStep ==
    ASSUME SpokeTypes, IdsInOrder, [Next]_vars
    PROVE  local' \in LocalTypes
<1>0. local \in LocalTypes /\ "join" \in Handlers /\ "abort" \in Handlers /\ "revoke" \in Handlers
  BY DEF SpokeTypes, Handlers
<1>1. CASE Join
  BY <1>0, <1>1 DEF Join, NoLocal, LocalTypes
<1>2. CASE SaveJoined
  BY <1>0, <1>2 DEF SaveJoined, NoLocal, LocalTypes, IdsInOrder, Busy
<1>3. CASE ClearLocal \/ RevokeLocal
  <2>1. arg["abort"] \in Enrollments \/ ~ClearLocal
    BY <1>0 DEF ClearLocal, IdsInOrder, Busy
  <2>2. arg["revoke"] \in Enrollments \/ ~RevokeLocal
    BY <1>0 DEF RevokeLocal, IdsInOrder, Busy
  <2>3. local' \in {NoLocal} \union {Tombstone(e) : e \in Enrollments}
    BY <1>3, <2>1, <2>2 DEF ClearLocal, RevokeLocal
  <2> QED
    BY <2>3, BlankLocals
<1>4. CASE FinishStartup
  BY <1>0, <1>4 DEF FinishStartup, StartActive, StartInactive, LocalTypes
<1>5. CASE LeaseExpires
  BY <1>0, <1>5 DEF LeaseExpires, LocalTypes
<1>6. CASE FinishRenewal
  BY <1>0, <1>6 DEF FinishRenewal, RenewLocalActivationLease, LocalTypes
<1>7. ASSUME NEW p \in Prepares, MarkLocalPreparationStarted(p) PROVE local' \in LocalTypes
  BY <1>0, <1>7 DEF MarkLocalPreparationStarted, LocalTypes
<1>8. ASSUME NEW p \in Prepares, SaveLocalPreparationSeal(p) PROVE local' \in LocalTypes
  BY <1>0, <1>8 DEF SaveLocalPreparationSeal, LocalTypes, SpokeTypes
<1> QED
  BY <1>0, <1>1, <1>2, <1>3, <1>4, <1>5, <1>6, <1>7, <1>8, Writers DEF Written

\* The preparation row keeps its type.
LEMMA RowTypesStep ==
    ASSUME SpokeTypes, IdsInOrder, [Next]_vars
    PROVE  prep' \in RowTypes
<1>0. prep \in RowTypes /\ Prepares \subseteq Handlers
  BY DEF SpokeTypes, Handlers
<1>1. CASE ReopenWrites \/ RevokeRow
  BY <1>0, <1>1 DEF ReopenWrites, RevokeRow, AbortPreparation, OpenRow, RowTypes, Phases
<1>2. ASSUME NEW p \in Prepares, Quiesce(p) PROVE prep' \in RowTypes
  <2>1. arg[p] \in Enrollments
    BY <1>0, <1>2 DEF Quiesce, IdsInOrder, Busy
  <2> QED
    BY <1>0, <1>2, <2>1 DEF Quiesce, BeginQuiesce, RowTypes, Phases
<1>3. ASSUME NEW p \in Prepares, Drain(p) \/ Recheck(p) PROVE prep' \in RowTypes
  <2>1. Status(content)
    BY <1>3 DEF Drain, Recheck
  <2> QED
    BY <1>0, <2>1 DEF Status, RowTypes, SpokeTypes
<1>4. ASSUME NEW p \in Prepares, StoreLocalSeal(p) PROVE prep' \in RowTypes
  <2>1. prep' = prep \/ prep' = [prep EXCEPT !.phase = "sealed", !.seal = req[p]]
    BY <1>4 DEF StoreLocalSeal
  <2>2. req[p] \in Seals \union {NoSeal} /\ "sealed" \in Phases
    BY DEF SpokeTypes, Phases
  <2> QED
    BY <1>0, <2>1, <2>2 DEF RowTypes
<1> QED
  BY <1>0, <1>1, <1>2, <1>3, <1>4, Writers DEF Written

\* The write gate keeps its type.
LEMMA GateTypesStep ==
    ASSUME SpokeTypes, IdsInOrder, [Next]_vars
    PROVE  gate' \in GateTypes
<1>0. gate \in GateTypes /\ prep \in RowTypes /\ prep' \in RowTypes
  BY RowTypesStep DEF SpokeTypes
<1>1. CASE AdmitWrite
  BY <1>0, <1>1 DEF AdmitWrite, Admit, GateTypes
<1>2. CASE FinishWrite
  BY <1>0, <1>2 DEF FinishWrite, Release, GateTypes
<1>3. CASE ReopenWrites
  <2>1. gate' = gate \/ gate' = [gate EXCEPT !.loadErr = FALSE, !.phase = "open"]
    BY <1>3 DEF ReopenWrites, AbortPreparation
  <2> QED
    BY <1>0, <2>1 DEF GateTypes, Phases
<1>4. ASSUME NEW p \in Prepares, Quiesce(p) PROVE gate' \in GateTypes
  <2>1. gate' = gate \/ gate' = [gate EXCEPT !.loadErr = FALSE, !.phase = prep'.phase]
    BY <1>4 DEF Quiesce, BeginQuiesce
  <2>2. prep'.phase \in Phases
    BY <1>0 DEF RowTypes
  <2> QED
    BY <1>0, <2>1, <2>2 DEF GateTypes
<1>5. ASSUME NEW p \in Prepares, Drain(p) \/ Recheck(p) PROVE gate' \in GateTypes
  BY <1>0, <1>5 DEF Drain, Recheck, Status, GateTypes, RowTypes
<1>6. ASSUME NEW readable \in BOOLEAN, Restart(readable) PROVE gate' \in GateTypes
  BY <1>0, <1>6 DEF Restart, NewGate, GateTypes, RowTypes, Phases
<1> QED
  BY <1>0, <1>1, <1>2, <1>3, <1>4, <1>5, <1>6, Writers DEF Written

\* The configuration, the process and the counters keep their types.
LEMMA DaemonTypesStep ==
    ASSUME SpokeTypes, IdsInOrder, [Next]_vars
    PROVE  /\ config' \in [role : {"hub", "spoke"}, bound : BOOLEAN]
           /\ process' \in [stage : {"serving", "activating", "accepted", "rejected"},
                            role : {"hub", "spoke"}, active : BOOLEAN]
           /\ nextId' \in Nat \ {0} /\ content' \in 0 .. MaxWrites
<1>1. config' \in [role : {"hub", "spoke"}, bound : BOOLEAN]
  <2> DEFINE Configs == [role : {"hub", "spoke"}, bound : BOOLEAN]
  <2>1. config \in Configs
    BY DEF SpokeTypes
  <2>2. CASE BindHub
    BY <2>1, <2>2 DEF BindHub
  <2>3. CASE ResetPreparedSpokeBinding
    BY <2>1, <2>3 DEF ResetPreparedSpokeBinding
  <2>4. ASSUME NEW p \in Prepares, SaveRole(p) PROVE config' \in Configs
    BY <2>1, <2>4 DEF SaveRole
  <2> QED
    BY <2>1, <2>2, <2>3, <2>4, Writers DEF Written
<1>2. process' \in [stage : {"serving", "activating", "accepted", "rejected"},
                    role : {"hub", "spoke"}, active : BOOLEAN]
  <2> DEFINE Processes == [stage : {"serving", "activating", "accepted", "rejected"},
                           role : {"hub", "spoke"}, active : BOOLEAN]
  <2>1. process \in Processes
    BY DEF SpokeTypes
  <2>2. CASE FinishStartup
    BY <2>1, <2>2 DEF FinishStartup, StartActive, StartInactive
  <2>3. CASE FinishRenewal
    BY <2>1, <2>3 DEF FinishRenewal
  <2>4. ASSUME NEW readable \in BOOLEAN, Restart(readable) PROVE process' \in Processes
    <3>1. config.role \in {"hub", "spoke"}
      BY DEF SpokeTypes
    <3>2. \/ process' = [stage |-> "activating", role |-> "spoke", active |-> FALSE]
          \/ process' = [stage |-> "serving", role |-> config.role, active |-> FALSE]
      BY <2>4 DEF Restart
    <3>3. ASSUME NEW stage \in {"serving", "activating"}, NEW role \in {"hub", "spoke"},
                 NEW active \in BOOLEAN
          PROVE  [stage |-> stage, role |-> role, active |-> active] \in Processes
      OBVIOUS
    <3>4. CASE process' = [stage |-> "activating", role |-> "spoke", active |-> FALSE]
      <4>1. [stage |-> "activating", role |-> "spoke", active |-> FALSE] \in Processes
        BY <3>3
      <4> QED
        BY <3>4, <4>1
    <3>5. CASE process' = [stage |-> "serving", role |-> config.role, active |-> FALSE]
      <4>1. [stage |-> "serving", role |-> config.role, active |-> FALSE] \in Processes
        BY <3>1, <3>3
      <4> QED
        BY <3>5, <4>1
    <3> QED
      BY <3>2, <3>4, <3>5
  <2>5. ASSUME NEW r \in wire, HubActivates(r) PROVE process' \in Processes
    BY <2>1, <2>5 DEF HubActivates
  <2> QED
    BY <2>1, <2>2, <2>3, <2>4, <2>5, Writers DEF Written
<1>3. nextId' \in Nat \ {0}
  BY Writers DEF Written, SpokeTypes, Join
<1>4. content' \in 0 .. MaxWrites
  BY Writers, PreparationAssumption DEF Written, SpokeTypes, FinishWrite
<1> QED
  BY <1>1, <1>2, <1>3, <1>4

\* The hub's seals, what it imported and the receipts keep their types.
LEMMA HubTypesStep ==
    ASSUME SpokeTypes, IdsInOrder, SealsAreIssued, [Next]_vars
    PROVE  /\ seals' \in [Enrollments -> Seals \union {NoSeal}]
           /\ receipt' \in {None} \union (0 .. MaxWrites)
           /\ imported' \in {None} \union (0 .. MaxWrites)
<1>1. seals' \in [Enrollments -> Seals \union {NoSeal}]
  BY Writers DEF Written, SpokeTypes, HubSeals
<1>2. \A p \in Prepares : pc[p] \in {"import", "imported"}
        => req[p].receipts \in {None} \union (0 .. MaxWrites)
  BY DEF SealsAreIssued, Requested, Seals
<1>3. receipt' \in {None} \union (0 .. MaxWrites)
  BY <1>2, Writers DEF Written, SpokeTypes, ReopenWrites, RevokeRow, RecordReceipt, Larger
<1>4. imported' \in {None} \union (0 .. MaxWrites)
  BY <1>2, Writers DEF Written, SpokeTypes, HubImports, Larger
<1> QED
  BY <1>1, <1>3, <1>4

\* What the handlers hold keeps its type.
LEMMA HandlerTypesStep ==
    ASSUME SpokeTypes, IdsInOrder, SealsAreIssued, [Next]_vars
    PROVE  /\ pc' \in [Handlers -> Stages]
           /\ arg' \in [Handlers -> Enrollments \union {NoEnrollment}]
           /\ req' \in [Prepares -> Seals \union {NoSeal}]
<1>1. pc' \in [Handlers -> Stages]
  BY HandlersStep DEF HandlersMove, Moves, Begins, Returns, AllStop, SpokeTypes, Stages
<1>2. local'.id \in Enrollments \union {NoEnrollment}
  BY LocalTypesStep DEF LocalTypes
<1>3. arg' \in [Handlers -> Enrollments \union {NoEnrollment}]
  BY <1>2, HandlersStep DEF HandlersMove, Moves, Begins, Returns, AllStop, SpokeTypes
<1>4. Prepares \subseteq Handlers
  BY DEF Handlers
<1>5. ASSUME NEW p \in Prepares, Inventory(p) PROVE req' \in [Prepares -> Seals \union {NoSeal}]
  <2>1. arg[p] \in Enrollments
    BY <1>4, <1>5 DEF Inventory, IdsInOrder, Busy
  <2>2. SealFor(arg[p], content, 0) \in Seals
    BY <2>1, PreparationAssumption DEF SealFor, Seals, SpokeTypes
  <2> QED
    BY <1>5, <2>2 DEF Inventory, SpokeTypes
<1>6. ASSUME NEW p \in Prepares, Recheck(p) PROVE req' \in [Prepares -> Seals \union {NoSeal}]
  <2>1. CASE Return(p)
    BY <2>1 DEF Return, SpokeTypes
  <2>2. CASE prep'.drain # NoGeneration
               /\ req' = [req EXCEPT ![p] = SealFor(arg[p], None, prep'.drain)]
    <3>1. arg[p] \in Enrollments
      BY <1>4, <1>6 DEF Recheck, IdsInOrder, Busy
    <3>2. prep'.drain \in 0 .. MaxWrites
      BY <2>2, RowTypesStep DEF RowTypes
    <3>3. SealFor(arg[p], None, prep'.drain) \in Seals
      BY <3>1, <3>2 DEF SealFor, Seals
    <3> QED
      BY <2>2, <3>3 DEF SpokeTypes
  <2> QED
    BY <1>6, <2>1, <2>2 DEF Recheck
<1>7. ASSUME NEW p \in Prepares, ListReceipts(p) PROVE req' \in [Prepares -> Seals \union {NoSeal}]
  <2>1. req[p] \in Seals
    BY <1>7 DEF ListReceipts, SealsAreIssued, Requested
  <2>2. [req[p] EXCEPT !.receipts = receipt] \in Seals
    BY <2>1 DEF Seals, SpokeTypes
  <2> QED
    BY <1>7, <2>2 DEF ListReceipts, SpokeTypes
<1>8. req' \in [Prepares -> Seals \union {NoSeal}]
  BY <1>5, <1>6, <1>7, Writers DEF Written, SpokeTypes, Return, Restart
<1> QED
  BY <1>1, <1>3, <1>8

\* The types are inductive relative to the order of ids and the seals issued.
LEMMA SpokeTypesStep ==
    ASSUME SpokeTypes, IdsInOrder, SealsAreIssued, [Next]_vars
    PROVE  SpokeTypes'
<1>1. /\ local' \in LocalTypes /\ prep' \in RowTypes /\ gate' \in GateTypes
  BY LocalTypesStep, RowTypesStep, GateTypesStep
<1> QED
  BY <1>1, DaemonTypesStep, HubTypesStep, HandlerTypesStep DEF SpokeTypes

-----------------------------------------------------------------------------
(* What one step does to the enrollment store, the row and the gate. *)

\* The store keeps its enrollment and how far it is; only marks change.
LocalStays ==
    /\ local'.id = local.id /\ local'.state = local.state
    /\ local'.bound = local.bound /\ local'.seal = local.seal

JoinsAnew ==
    /\ pc["join"] = "idle" /\ nextId \in Enrollments /\ nextId' = nextId + 1
    /\ local'.id = nextId /\ local'.state = "pending" /\ ~local'.bound /\ local'.seal = NoSeal

Joins ==
    /\ pc["join"] = "save" /\ pc'["join"] = "idle"
    /\ local'.id = arg["join"] /\ local'.state = "pending" /\ local'.seal = NoSeal /\ local'.bound

Clears == pc["abort"] = "clear" /\ local' = NoLocal

Buries ==
    \/ pc["abort"] = "tombstone" /\ local' = Tombstone(arg["abort"])
    \/ pc["revoke"] = "mark" /\ local' = Tombstone(arg["revoke"])

Activates ==
    /\ ~Serving \/ local.state = "active"
    /\ local'.id = local.id /\ local'.state = "active"
    /\ local'.bound = local.bound /\ local'.seal = local.seal

SealsStore(p) ==
    /\ pc[p] = "save" /\ local.id = arg[p] /\ local.state = "pending"
    /\ local'.id = local.id /\ local'.state = local.state /\ local'.bound = local.bound
    /\ local'.seal = req[p]

LocalMoves ==
    LocalStays \/ JoinsAnew \/ Joins \/ Clears \/ Buries \/ Activates
      \/ \E p \in Prepares : SealsStore(p)

\* Nothing else happens to the local enrollment.
LEMMA LocalStep ==
    ASSUME SpokeTypes, [Next]_vars
    PROVE  LocalMoves
<1>0. local \in LocalTypes /\ "join" \in Handlers /\ pc \in [Handlers -> Stages]
  BY DEF SpokeTypes, Handlers
<1>1. CASE Join
  <2>1. CASE UNCHANGED << local, nextId >>
    BY <2>1 DEF LocalMoves, LocalStays
  <2>2. CASE /\ nextId \in Enrollments /\ nextId' = nextId + 1
             /\ local' = [NoLocal EXCEPT !.id = nextId, !.state = "pending"]
    <3>1. /\ local'.id = nextId /\ local'.state = "pending" /\ local'.bound = NoLocal.bound
          /\ local'.seal = NoLocal.seal
      BY <2>2, BlankLocals DEF LocalTypes
    <3> QED
      BY <1>1, <2>2, <3>1, BlankLocals DEF Join, Idle, JoinsAnew, LocalMoves
  <2> QED
    BY <1>1, <2>1, <2>2 DEF Join
<1>2. CASE SaveJoined
  <2>1. /\ local'.id = arg["join"] /\ local'.state = "pending" /\ local'.bound = TRUE
        /\ local'.seal = NoLocal.seal
    BY <1>2, BlankLocals DEF SaveJoined, LocalTypes
  <2> QED
    BY <1>0, <1>2, <2>1, BlankLocals DEF SaveJoined, Return, Joins, LocalMoves
<1>3. CASE ClearLocal
  BY <1>3 DEF ClearLocal, Clears, Buries, LocalMoves
<1>4. CASE RevokeLocal
  BY <1>4 DEF RevokeLocal, Buries, LocalMoves
<1>5. CASE FinishStartup
  <2>1. ~Serving
    BY <1>5 DEF FinishStartup, Serving
  <2>2. \/ \E lease \in BOOLEAN : local' = [local EXCEPT !.state = "active", !.lease = lease]
        \/ local' = [local EXCEPT !.lease = FALSE]
        \/ local' = local
    BY <1>5 DEF FinishStartup, StartActive
  <2>3. ASSUME NEW lease \in BOOLEAN, local' = [local EXCEPT !.state = "active", !.lease = lease]
        PROVE  Activates
    BY <1>0, <2>1, <2>3 DEF Activates, LocalTypes
  <2>4. local' = [local EXCEPT !.lease = FALSE] => LocalStays
    BY <1>0 DEF LocalStays, LocalTypes
  <2>5. local' = local => LocalStays
    BY DEF LocalStays
  <2> QED
    BY <2>2, <2>3, <2>4, <2>5 DEF LocalMoves
<1>6. CASE LeaseExpires \/ FinishRenewal
  <2>1. \/ \E lease \in BOOLEAN : local' = [local EXCEPT !.lease = lease]
        \/ local' = local
    BY <1>6 DEF LeaseExpires, FinishRenewal, RenewLocalActivationLease
  <2>2. LocalStays
    BY <1>0, <2>1 DEF LocalStays, LocalTypes
  <2> QED
    BY <2>2 DEF LocalMoves
<1>7. ASSUME NEW p \in Prepares, MarkLocalPreparationStarted(p) PROVE LocalMoves
  <2>1. local' = [local EXCEPT !.started = TRUE] \/ local' = local
    BY <1>7 DEF MarkLocalPreparationStarted
  <2>2. LocalStays
    BY <1>0, <2>1 DEF LocalStays, LocalTypes
  <2> QED
    BY <2>2 DEF LocalMoves
<1>8. ASSUME NEW p \in Prepares, SaveLocalPreparationSeal(p) PROVE LocalMoves
  <2>1. CASE local' = local
    BY <2>1 DEF LocalStays, LocalMoves
  <2>2. CASE LocalIsPending(p) /\ local' = [local EXCEPT !.seal = req[p]]
    <3>1. /\ local'.id = local.id /\ local'.state = local.state /\ local'.bound = local.bound
          /\ local'.seal = req[p]
      BY <1>0, <2>2 DEF LocalTypes
    <3>2. SealsStore(p)
      BY <1>8, <2>2, <3>1 DEF SaveLocalPreparationSeal, LocalIsPending, SealsStore
    <3> QED
      BY <3>2 DEF LocalMoves
  <2> QED
    BY <1>8, <2>1, <2>2 DEF SaveLocalPreparationSeal
<1>9. CASE UNCHANGED local
  BY <1>9 DEF LocalStays, LocalMoves
<1> QED
  BY <1>1, <1>2, <1>3, <1>4, <1>5, <1>6, <1>7, <1>8, <1>9, Writers DEF Written

Opens ==
    /\ pc["abort"] \in {"reopen", "reopenForced"} \/ pc["revoke"] = "row"
    /\ prep' = OpenRow /\ receipt' = None

Quiesces(p) ==
    /\ pc[p] = "quiesce" /\ prep.phase = "open"
    /\ prep'.phase = "quiescing" /\ prep'.enrollment = arg[p]
    /\ prep'.drain = NoGeneration /\ prep'.seal = NoSeal

FreezesNow(p) ==
    /\ pc[p] \in {"drain", "handed", "failed"} /\ Freezes
    /\ prep'.phase = prep.phase /\ prep'.enrollment = prep.enrollment /\ prep'.seal = prep.seal
    /\ prep'.drain = content

SealsRow(p) ==
    /\ pc[p] = "store" /\ prep.phase # "open"
    /\ prep'.phase = "sealed" /\ prep'.enrollment = prep.enrollment
    /\ prep'.drain = prep.drain /\ prep'.seal = req[p]

RowMoves ==
    \/ prep' = prep
    \/ Opens
    \/ \E p \in Prepares : Quiesces(p) \/ FreezesNow(p) \/ SealsRow(p)

\* Nothing else happens to the preparation row.
LEMMA RowStep ==
    ASSUME SpokeTypes, [Next]_vars
    PROVE  RowMoves
<1>0. prep \in RowTypes
  BY DEF SpokeTypes
<1>1. CASE ReopenWrites \/ RevokeRow
  BY <1>1 DEF ReopenWrites, RevokeRow, AbortPreparation, Opens, RowMoves
<1>2. ASSUME NEW p \in Prepares, Quiesce(p) PROVE RowMoves
  BY <1>2 DEF Quiesce, BeginQuiesce, Quiesces, RowMoves
<1>3. ASSUME NEW p \in Prepares, Drain(p) \/ Recheck(p) PROVE RowMoves
  <2>1. Status(content) /\ pc[p] \in {"drain", "handed", "failed"}
    BY <1>3 DEF Drain, Recheck
  <2>2. CASE Freezes /\ prep' = [prep EXCEPT !.drain = content]
    BY <1>0, <2>1, <2>2 DEF RowTypes, FreezesNow, RowMoves
  <2> QED
    BY <2>1, <2>2 DEF Status, RowMoves
<1>4. ASSUME NEW p \in Prepares, StoreLocalSeal(p) PROVE RowMoves
  <2>1. CASE prep' = [prep EXCEPT !.phase = "sealed", !.seal = req[p]]
               /\ prep.phase \in {"quiescing", "sealed"}
    BY <1>0, <1>4, <2>1 DEF StoreLocalSeal, RowTypes, SealsRow, RowMoves
  <2> QED
    BY <1>4, <2>1 DEF StoreLocalSeal, RowMoves
<1> QED
  BY <1>1, <1>2, <1>3, <1>4, Writers DEF Written, RowMoves

-----------------------------------------------------------------------------
(* The parts of AgreementInv, one by one. *)

\* Ids stay in order: a handler begins on an id the store has.
LEMMA IdsStep ==
    ASSUME AgreementInv, [Next]_vars
    PROVE  IdsInOrder'
<1>0. /\ SpokeTypes /\ IdsInOrder /\ HandlersMove /\ LocalMoves /\ RowMoves
      /\ {"join", "abort", "revoke", "renew"} \subseteq Handlers /\ Prepares \subseteq Handlers
      /\ NoEnrollment \notin Enrollments /\ nextId \in Nat
  BY HandlersStep, LocalStep, RowStep, PreparationAssumption
     DEF AgreementInv, Handlers, Enrollments, SpokeTypes
<1>1. nextId' \in Nat /\ nextId' >= nextId
  BY <1>0, Writers DEF Written, Join, SpokeTypes
<1>2. /\ local'.id = NoEnrollment <=> local'.state = "none"
      /\ local'.id = NoEnrollment => local'.seal = NoSeal
      /\ local'.id # NoEnrollment => local'.id < nextId'
  <2>0. local.id \in Enrollments \union {NoEnrollment}
    BY <1>0 DEF SpokeTypes, LocalTypes
  <2>1. CASE LocalStays
    BY <1>0, <1>1, <2>0, <2>1 DEF LocalStays, IdsInOrder, Enrollments
  <2>2. CASE JoinsAnew
    BY <1>0, <1>1, <2>2 DEF JoinsAnew
  <2>3. CASE Joins
    BY <1>0, <1>1, <2>3 DEF Joins, IdsInOrder, Busy, Enrollments
  <2>4. CASE Clears
    BY <2>4, BlankLocals DEF Clears
  <2>5. CASE Buries
    <3>1. PICK e \in Enrollments : e < nextId /\ local' = Tombstone(e)
      BY <1>0, <2>5 DEF Buries, IdsInOrder, Busy
    <3> QED
      BY <1>0, <1>1, <3>1, BlankLocals DEF Enrollments
  <2>6. CASE Activates
    <3>1. local.id # NoEnrollment
      BY <1>0, <2>6 DEF Activates, AgreementInv, StartupIsAlone, Prepared, SealIsTheRows,
         IdsInOrder
    <3> QED
      BY <1>0, <1>1, <2>0, <2>6, <3>1 DEF Activates, IdsInOrder, Enrollments
  <2>7. ASSUME NEW p \in Prepares, SealsStore(p)
        PROVE  /\ local'.id = NoEnrollment <=> local'.state = "none"
               /\ local'.id = NoEnrollment => local'.seal = NoSeal
               /\ local'.id # NoEnrollment => local'.id < nextId'
    <3>1. arg[p] \in Enrollments
      BY <1>0, <2>7 DEF SealsStore, IdsInOrder, Busy
    <3> QED
      BY <1>0, <1>1, <2>7, <3>1 DEF SealsStore, IdsInOrder, Enrollments
  <2> QED
    BY <1>0, <2>1, <2>2, <2>3, <2>4, <2>5, <2>6, <2>7 DEF LocalMoves
<1>3. ASSUME NEW h \in Handlers, pc'[h] # "idle"
      PROVE  arg'[h] \in Enrollments /\ arg'[h] < nextId'
  <2>1. CASE pc[h] # "idle" /\ arg'[h] = arg[h]
    BY <1>0, <1>1, <2>1 DEF IdsInOrder, Busy, Enrollments
  <2>2. CASE BeginsOn(h) /\ arg'[h] = local'.id
    <3>1. local'.id # NoEnrollment
      BY <1>0, <2>2 DEF BeginsOn, IdsInOrder, Reusable
    <3>2. local'.id \in Enrollments \union {NoEnrollment}
      BY <1>0, LocalTypesStep DEF LocalTypes
    <3> QED
      BY <1>2, <2>2, <3>1, <3>2
  <2> QED
    BY <1>0, <1>3, <2>1, <2>2, BusyOnes
<1>4. prep'.phase # "open" => prep'.enrollment \in Enrollments /\ prep'.enrollment < nextId'
  <2>1. CASE prep' = prep
    BY <1>0, <1>1, <2>1 DEF IdsInOrder, Enrollments
  <2>2. CASE Opens
    BY <2>2 DEF Opens, OpenRow
  <2>3. ASSUME NEW p \in Prepares, Quiesces(p) \/ FreezesNow(p) \/ SealsRow(p)
        PROVE  prep'.enrollment \in Enrollments /\ prep'.enrollment < nextId'
    <3>1. CASE Quiesces(p)
      BY <1>0, <1>1, <3>1 DEF Quiesces, IdsInOrder, Busy, Enrollments
    <3>2. CASE FreezesNow(p) \/ SealsRow(p)
      <4>1. prep.phase # "open" /\ prep'.enrollment = prep.enrollment
        BY <3>2 DEF FreezesNow, Freezes, SealsRow
      <4> QED
        BY <1>0, <1>1, <4>1 DEF IdsInOrder, Enrollments
    <3> QED
      BY <2>3, <3>1, <3>2
  <2> QED
    BY <1>0, <2>1, <2>2, <2>3 DEF RowMoves
<1> QED
  BY <1>2, <1>3, <1>4 DEF IdsInOrder, Busy

\* The id a join asks for stays unknown to every other handler and to the row.
LEMMA NewStep ==
    ASSUME AgreementInv, [Next]_vars
    PROVE  NewToAll'
<1>0. /\ SpokeTypes /\ IdsInOrder /\ NewToAll /\ HandlersMove /\ LocalMoves /\ RowMoves
      /\ {"join", "abort", "revoke", "renew"} \subseteq Handlers /\ Prepares \subseteq Handlers
      /\ NoEnrollment \notin Enrollments /\ nextId \in Nat /\ "join" \notin Prepares
  BY HandlersStep, LocalStep, RowStep, PreparationAssumption
     DEF AgreementInv, Handlers, Enrollments, SpokeTypes
<1>1. ASSUME NEW h \in Handlers \ {"join"}, pc[h] = "idle", BeginsOn(h)
      PROVE  /\ local' = local /\ local.id # NoEnrollment
             /\ ~(local.state = "pending" /\ ~local.bound)
  BY <1>0, <1>1 DEF BeginsOn, Handlers
<1>2. CASE /\ pc["join"] = "idle" /\ pc'["join"] # "idle"
  <2>1. BeginsOn("join") /\ arg'["join"] = local'.id
    BY <1>0, <1>2, BusyOnes
  <2>2. CASE local' = local /\ Reusable
    <3>1. local.state = "pending" /\ ~local.bound
      BY <2>2 DEF Reusable
    <3>2. ASSUME NEW h \in Handlers \ {"join"}, pc'[h] # "idle" PROVE arg'[h] # local.id
      BY <1>0, <1>1, <3>1, <3>2, BusyOnes DEF NewToAll, Busy
    <3>3. prep'.phase # "open" => prep'.enrollment # local.id
      BY <1>0, <3>1 DEF NewToAll, Busy, RowMoves, Opens, OpenRow, Quiesces, FreezesNow, Freezes,
         SealsRow
    <3> QED
      BY <2>1, <2>2, <3>1, <3>2, <3>3 DEF NewToAll, Busy
  <2>3. CASE local'.id = nextId /\ nextId \in Enrollments
    <3>0. JoinsAnew
      BY <1>0, <1>2, <2>3, BlankLocals
         DEF LocalMoves, LocalStays, Joins, Clears, Buries, Activates, SealsStore, IdsInOrder,
         Busy, Enrollments
    <3>1. ASSUME NEW h \in Handlers \ {"join"}, pc'[h] # "idle" PROVE arg'[h] # nextId
      <4>1. CASE pc[h] # "idle" /\ arg'[h] = arg[h]
        BY <1>0, <4>1 DEF IdsInOrder, Busy, Enrollments
      <4>2. CASE pc[h] = "idle" /\ BeginsOn(h) /\ arg'[h] = local'.id
        BY <1>0, <1>1, <2>3, <4>2 DEF IdsInOrder, Enrollments
      <4> QED
        BY <1>0, <3>1, <4>1, <4>2, BusyOnes
    <3>2. ASSUME prep'.phase # "open" PROVE prep'.enrollment # nextId
      <4>1. prep'.enrollment < nextId
        BY <1>0, <3>2 DEF IdsInOrder, Busy, RowMoves, Opens, OpenRow, Quiesces, FreezesNow,
           Freezes, SealsRow
      <4> QED
        BY <1>0, <4>1
    <3> QED
      BY <2>1, <2>3, <3>0, <3>1, <3>2 DEF NewToAll, Busy, JoinsAnew
  <2> QED
    BY <2>1, <2>2, <2>3 DEF BeginsOn
<1>3. CASE pc["join"] # "idle" \/ pc'["join"] = "idle"
  <2>1. ASSUME pc'["join"] # "idle" PROVE pc["join"] # "idle" /\ arg'["join"] = arg["join"]
    BY <1>0, <1>3, <2>1, BusyOnes
  <2>2. ~JoinsAnew \/ pc'["join"] = "idle"
    BY <2>1 DEF JoinsAnew
  <2>3. ASSUME Busy("join")'
        PROVE  /\ local'.id = arg'["join"] => local'.state = "pending" /\ ~local'.bound
               /\ \A h \in Handlers \ {"join"} : pc'[h] # "idle" => arg'[h] # arg'["join"]
               /\ prep'.phase # "open" => prep'.enrollment # arg'["join"]
    <3>0. /\ pc'["join"] # "idle" /\ pc["join"] # "idle" /\ arg'["join"] = arg["join"]
          /\ arg["join"] \in Enrollments
      BY <1>0, <2>1, <2>3 DEF Busy, IdsInOrder
    <3>1. ASSUME local'.id = arg["join"] PROVE local'.state = "pending" /\ ~local'.bound
      <4>1. CASE LocalStays
        BY <1>0, <3>0, <3>1, <4>1 DEF LocalStays, NewToAll, Busy
      <4>2. ~JoinsAnew /\ ~Joins
        BY <3>0 DEF JoinsAnew, Joins
      <4>3. ~Clears
        BY <1>0, <3>0, <3>1, BlankLocals DEF Clears
      <4>4. ~Buries
        BY <1>0, <3>0, <3>1, BlankLocals DEF Buries, NewToAll, Busy, IdsInOrder
      <4>5. ~Activates
        BY <1>0, <3>0, <3>1 DEF Activates, AgreementInv, StartupIsAlone, ActiveIsPrepared, Busy
      <4>6. ASSUME NEW p \in Prepares, SealsStore(p) PROVE FALSE
        BY <1>0, <3>0, <3>1, <4>6 DEF SealsStore, NewToAll, Busy
      <4> QED
        BY <1>0, <4>1, <4>2, <4>3, <4>4, <4>5, <4>6 DEF LocalMoves
    <3>2. ASSUME NEW h \in Handlers \ {"join"}, pc'[h] # "idle" PROVE arg'[h] # arg["join"]
      <4>1. CASE pc[h] # "idle" /\ arg'[h] = arg[h]
        BY <1>0, <3>0, <4>1 DEF NewToAll, Busy
      <4>2. CASE pc[h] = "idle" /\ BeginsOn(h) /\ arg'[h] = local'.id
        BY <1>0, <1>1, <3>0, <4>2 DEF NewToAll, Busy
      <4> QED
        BY <1>0, <3>2, <4>1, <4>2, BusyOnes
    <3>3. prep'.phase # "open" => prep'.enrollment # arg["join"]
      BY <1>0, <3>0 DEF NewToAll, Busy, RowMoves, Opens, OpenRow, Quiesces, FreezesNow, Freezes,
         SealsRow
    <3> QED
      BY <3>0, <3>1, <3>2, <3>3
  <2>4. ASSUME local'.state = "pending", ~local'.bound
        PROVE  /\ \A h \in Handlers \ {"join"} : pc'[h] # "idle" => arg'[h] # local'.id
               /\ prep'.phase # "open" => prep'.enrollment # local'.id
    <3>1. CASE JoinsAnew
      <4>1. ASSUME NEW h \in Handlers \ {"join"}, pc'[h] # "idle" PROVE arg'[h] # nextId
        <5>1. CASE pc[h] # "idle" /\ arg'[h] = arg[h]
          BY <1>0, <5>1 DEF IdsInOrder, Busy, Enrollments
        <5>2. CASE pc[h] = "idle" /\ BeginsOn(h) /\ arg'[h] = local'.id
          BY <1>0, <1>1, <3>1, <5>2 DEF IdsInOrder, Enrollments, JoinsAnew
        <5> QED
          BY <1>0, <4>1, <5>1, <5>2, BusyOnes
      <4>2. ASSUME prep'.phase # "open" PROVE prep'.enrollment # nextId
        <5>1. prep'.enrollment < nextId
          BY <1>0, <4>2 DEF IdsInOrder, Busy, RowMoves, Opens, OpenRow, Quiesces, FreezesNow,
             Freezes, SealsRow
        <5> QED
          BY <1>0, <5>1
      <4> QED
        BY <3>1, <4>1, <4>2 DEF JoinsAnew
    <3>2. CASE local'.id = local.id /\ local.state = "pending" /\ ~local.bound
      <4>1. ASSUME NEW h \in Handlers \ {"join"}, pc'[h] # "idle" PROVE arg'[h] # local.id
        BY <1>0, <1>1, <3>2, <4>1, BusyOnes DEF NewToAll, Busy
      <4>2. prep'.phase # "open" => prep'.enrollment # local.id
        BY <1>0, <3>2 DEF NewToAll, Busy, RowMoves, Opens, OpenRow, Quiesces, FreezesNow,
           Freezes, SealsRow
      <4> QED
        BY <3>2, <4>1, <4>2
    <3>3. ~Joins /\ ~Activates
      BY <2>4 DEF Joins, Activates
    <3>4. ~Clears
      BY <2>4, BlankLocals DEF Clears
    <3>5. ~Buries
      BY <1>0, <2>4, BlankLocals DEF Buries, IdsInOrder, Busy
    <3>6. LocalStays \/ (\E p \in Prepares : SealsStore(p))
            => local'.id = local.id /\ local.state = "pending" /\ ~local.bound
      BY <2>4 DEF LocalStays, SealsStore
    <3> QED
      BY <1>0, <3>1, <3>2, <3>3, <3>4, <3>5, <3>6 DEF LocalMoves
  <2> QED
    BY <2>3, <2>4 DEF NewToAll, Busy
<1> QED
  BY <1>2, <1>3

\* The hub seals an enrollment once.
LEMMA SealedOnce ==
    ASSUME SpokeTypes, [Next]_vars, NEW e \in Enrollments, seals[e] # NoSeal
    PROVE  seals'[e] = seals[e]
BY Writers DEF Written, HubSeals, SpokeTypes

\* A seal that was stored is the one the hub issued, since the hub seals once.
LEMMA SealsStep ==
    ASSUME AgreementInv, [Next]_vars
    PROVE  SealsAreIssued'
<1>0. /\ SpokeTypes /\ IdsInOrder /\ SealsAreIssued /\ LocalMoves
      /\ {"join", "abort", "revoke", "renew"} \subseteq Handlers /\ Prepares \subseteq Handlers
      /\ NoEnrollment \notin Enrollments /\ NoSeal \notin Seals
  BY LocalStep, PreparationAssumption DEF AgreementInv, Handlers, Enrollments
<1>1. ASSUME local'.seal # NoSeal PROVE local'.seal = seals'[local'.id]
  <2>0. local.id \in Enrollments \union {NoEnrollment}
    BY <1>0 DEF SpokeTypes, LocalTypes
  <2>1. CASE LocalStays \/ Activates
    <3>1. local.seal # NoSeal /\ local'.seal = local.seal /\ local'.id = local.id
      BY <1>1, <2>1 DEF LocalStays, Activates
    <3>2. local.id \in Enrollments /\ local.seal = seals[local.id]
      BY <1>0, <2>0, <3>1 DEF IdsInOrder, SealsAreIssued
    <3> QED
      BY <1>0, <3>1, <3>2, SealedOnce
  <2>2. ~JoinsAnew /\ ~Joins
    BY <1>1 DEF JoinsAnew, Joins
  <2>3. ~Clears
    BY <1>1, BlankLocals DEF Clears
  <2>4. ~Buries
    BY <1>0, <1>1, BlankLocals DEF Buries, IdsInOrder, Busy
  <2>5. ASSUME NEW p \in Prepares, SealsStore(p) PROVE local'.seal = seals'[local'.id]
    <3>1. arg[p] \in Enrollments /\ req[p] \in Seals /\ seals[arg[p]] = req[p]
      BY <1>0, <2>5 DEF SealsStore, IdsInOrder, Busy, SealsAreIssued, Requested
    <3> QED
      BY <1>0, <2>5, <3>1, SealedOnce DEF SealsStore
  <2> QED
    BY <1>0, <2>1, <2>2, <2>3, <2>4, <2>5 DEF LocalMoves
<1>2. ASSUME NEW p \in Prepares
      PROVE  /\ pc'[p] \in Requested => req'[p] \in Seals
             /\ pc'[p] \in {"store", "save"} => seals'[arg'[p]] = req'[p]
  <2>0. /\ pc \in [Handlers -> Stages] /\ req \in [Prepares -> Seals \union {NoSeal}]
        /\ p \in Handlers /\ seals \in [Enrollments -> Seals \union {NoSeal}]
        /\ pc[p] # "idle" => arg[p] \in Enrollments
        /\ pc[p] \in Requested => req[p] \in Seals
        /\ pc[p] \in {"store", "save"} => seals[arg[p]] = req[p]
    BY <1>0 DEF SpokeTypes, IdsInOrder, Busy, SealsAreIssued, Requested
  <2> USE DEF Go, Return, Requested
  <2>1. CASE Keeps(p)
    <3>1. CASE pc'[p] = "idle"
      BY <3>1
    <3>2. CASE pc'[p] = pc[p] /\ arg'[p] = arg[p] /\ req'[p] = req[p]
      <4>1. ASSUME pc[p] \in {"store", "save"} PROVE seals'[arg[p]] = req[p]
        <5>1. arg[p] \in Enrollments /\ seals[arg[p]] # NoSeal /\ seals[arg[p]] = req[p]
          BY <1>0, <2>0, <4>1
        <5> QED
          BY <1>0, <5>1, SealedOnce
      <4> QED
        BY <2>0, <3>2, <4>1
    <3> QED
      BY <2>1, <3>1, <3>2 DEF Keeps
  <2>2. CASE Prepare(p)
    BY <2>0, <2>2 DEF Prepare, Begin, Idle
  <2>3. CASE HubPins(p) \/ MarkLocalPreparationStarted(p) \/ Quiesce(p) \/ Drain(p)
    BY <2>0, <2>3 DEF HubPins, MarkLocalPreparationStarted, Quiesce, Drain
  <2>4. CASE Inventory(p)
    <3>1. pc'[p] \in {"handed", "import"} /\ req'[p] = SealFor(arg[p], content, 0) /\ pc[p] # "idle"
      BY <2>0, <2>4 DEF Inventory
    <3>2. SealFor(arg[p], content, 0) \in Seals
      BY <1>0, <2>0, <3>1, PreparationAssumption DEF SealFor, Seals, SpokeTypes
    <3> QED
      BY <3>1, <3>2
  <2>5. CASE HubImports(p) \/ RecordReceipt(p) \/ HandoffFails(p)
    BY <2>0, <2>5 DEF HubImports, RecordReceipt, HandoffFails
  <2>6. CASE Recheck(p)
    <3>1. CASE Return(p)
      BY <2>0, <3>1
    <3>2. CASE /\ pc' = [pc EXCEPT ![p] = "receipts"] /\ prep'.drain # NoGeneration
               /\ req' = [req EXCEPT ![p] = SealFor(arg[p], None, prep'.drain)]
      <4>1. pc[p] # "idle"
        BY <2>6 DEF Recheck
      <4>2. prep'.drain \in 0 .. MaxWrites
        BY <1>0, <3>2, RowTypesStep DEF RowTypes
      <4>3. SealFor(arg[p], None, prep'.drain) \in Seals
        BY <2>0, <4>1, <4>2 DEF SealFor, Seals
      <4> QED
        BY <2>0, <3>2, <4>3
    <3> QED
      BY <2>6, <3>1, <3>2 DEF Recheck
  <2>7. CASE ListReceipts(p)
    <3>1. req[p] \in Seals /\ pc' = [pc EXCEPT ![p] = "seal"]
            /\ req' = [req EXCEPT ![p].receipts = receipt]
      BY <2>0, <2>7 DEF ListReceipts
    <3>2. [req[p] EXCEPT !.receipts = receipt] \in Seals
      BY <1>0, <3>1 DEF Seals, SpokeTypes
    <3> QED
      BY <2>0, <3>1, <3>2
  <2>8. CASE HubSeals(p)
    BY <1>0, <2>0, <2>8 DEF HubSeals
  <2>9. CASE StoreLocalSeal(p) \/ SaveLocalPreparationSeal(p)
    <3>1. /\ seals' = seals /\ pc[p] \in {"store", "save"}
          /\ \/ pc' = [pc EXCEPT ![p] = "idle"]
             \/ pc' = [pc EXCEPT ![p] = "save"] /\ arg' = arg /\ req' = req
             \/ pc' = [pc EXCEPT ![p] = "reread"] /\ arg' = arg /\ req' = req
      BY <2>9 DEF StoreLocalSeal, SaveLocalPreparationSeal, OnRow, OnLocal, hub
    <3> QED
      BY <2>0, <3>1
  <2>10. CASE RereadLocal(p) \/ SaveRole(p) \/ PrepareFails(p)
    BY <2>0, <2>10 DEF RereadLocal, SaveRole, PrepareFails
  <2> QED
    BY <1>0, <2>1, <2>2, <2>3, <2>4, <2>5, <2>6, <2>7, <2>8, <2>9, <2>10, OthersKeep
       DEF PrepareStep
<1> QED
  BY <1>1, <1>2 DEF SealsAreIssued, Requested

\* What is true of a prepared spoke while only its revocation and its renewals
\* may run.
OnlyRenewals ==
    /\ \A h \in Handlers \ {"revoke", "renew"} : ~Busy(h)
    /\ pc["revoke"] \in {"idle", "mark"}

\* Nothing a prepared spoke can still run undoes the preparation.
LEMMA PreparedStays ==
    ASSUME AgreementInv, [Next]_vars, Prepared, OnlyRenewals
    PROVE  /\ prep' = prep /\ config' = config
           /\ process'.role = "spoke" /\ gate'.phase # "open" /\ gate'.inFlight = 0
<1>0. /\ SpokeTypes /\ Written /\ Prepared
      /\ {"join", "abort"} \subseteq Handlers \ {"revoke", "renew"}
      /\ Prepares \subseteq Handlers \ {"revoke", "renew"}
  BY Writers, PreparationAssumption DEF AgreementInv, Handlers
<1>1. /\ pc["join"] = "idle" /\ pc["abort"] = "idle" /\ pc["revoke"] \in {"idle", "mark"}
      /\ \A p \in Prepares : pc[p] = "idle"
  BY <1>0 DEF OnlyRenewals, Busy
<1>2. prep' = prep
  <2>1. ~ReopenWrites /\ ~RevokeRow
    BY <1>1 DEF ReopenWrites, RevokeRow
  <2>2. ASSUME NEW p \in Prepares, Quiesce(p) \/ Drain(p) \/ Recheck(p) \/ StoreLocalSeal(p)
        PROVE  FALSE
    BY <1>1, <2>2 DEF Quiesce, Drain, Recheck, StoreLocalSeal
  <2> QED
    BY <1>0, <2>1, <2>2 DEF Written
<1>3. config' = config
  <2>1. ~BindHub /\ ~ResetPreparedSpokeBinding
    BY <1>1 DEF BindHub, ResetPreparedSpokeBinding
  <2>2. ASSUME NEW p \in Prepares, SaveRole(p) PROVE FALSE
    BY <1>1, <2>2 DEF SaveRole
  <2> QED
    BY <1>0, <2>1, <2>2 DEF Written
<1>4. gate'.phase # "open" /\ gate'.inFlight = 0
  <2>0. gate \in GateTypes /\ gate.phase # "open" /\ gate.inFlight = 0
    BY <1>0 DEF SpokeTypes, Prepared
  <2>1. ~AdmitWrite /\ ~FinishWrite /\ ~ReopenWrites
    BY <1>1, <2>0 DEF AdmitWrite, Admit, Admits, FinishWrite, ReopenWrites
  <2>2. ASSUME NEW p \in Prepares, Quiesce(p) \/ Drain(p) \/ Recheck(p) PROVE FALSE
    BY <1>1, <2>2 DEF Quiesce, Drain, Recheck
  <2>3. ASSUME NEW readable \in BOOLEAN, Restart(readable)
        PROVE  gate'.phase # "open" /\ gate'.inFlight = 0
    <3>1. gate' = NewGate(local.id # NoEnrollment, readable)
      BY <2>3 DEF Restart
    <3>2. local.id # NoEnrollment /\ prep.phase = "sealed"
      BY <1>0 DEF Prepared, SealIsTheRows, AgreementInv, IdsInOrder
    <3> QED
      BY <3>1, <3>2 DEF NewGate
  <2> QED
    BY <1>0, <2>0, <2>1, <2>2, <2>3 DEF Written
<1>5. process'.role = "spoke"
  <2>0. /\ process \in [stage : {"serving", "activating", "accepted", "rejected"},
                        role : {"hub", "spoke"}, active : BOOLEAN]
        /\ process.role = "spoke" /\ config.role = "spoke"
    BY <1>0 DEF SpokeTypes, Prepared
  <2>1. CASE FinishStartup
    BY <2>0, <2>1 DEF FinishStartup, StartActive, StartInactive
  <2>2. CASE FinishRenewal
    BY <2>0, <2>2 DEF FinishRenewal
  <2>3. ASSUME NEW readable \in BOOLEAN, Restart(readable) PROVE process'.role = "spoke"
    <3>1. \/ process' = [stage |-> "activating", role |-> "spoke", active |-> FALSE]
          \/ process' = [stage |-> "serving", role |-> config.role, active |-> FALSE]
      BY <2>3 DEF Restart
    <3> QED
      BY <2>0, <3>1
  <2>4. ASSUME NEW r \in wire, HubActivates(r) PROVE process'.role = "spoke"
    BY <2>0, <2>4 DEF HubActivates
  <2> QED
    BY <1>0, <2>0, <2>1, <2>2, <2>3, <2>4 DEF Written
<1> QED
  BY <1>2, <1>3, <1>4, <1>5

\* Startup begins alone on a prepared spoke, and nothing begins before it ends.
LEMMA StartupStep ==
    ASSUME AgreementInv, [Next]_vars
    PROVE  StartupIsAlone'
<1>0. /\ SpokeTypes /\ IdsInOrder /\ StartupIsAlone /\ HandlersMove /\ LocalMoves
      /\ {"join", "abort", "revoke", "renew"} \subseteq Handlers /\ Prepares \subseteq Handlers
  BY HandlersStep, LocalStep DEF AgreementInv, Handlers
<1>1. ASSUME NEW readable \in BOOLEAN, Restart(readable) PROVE StartupIsAlone'
  <2>1. CASE process'.stage = "serving"
    BY <2>1 DEF StartupIsAlone, Serving
  <2>2. CASE process'.stage # "serving"
    <3>1. /\ config.role = "spoke" /\ SealIsTheRows
          /\ process' = [stage |-> "activating", role |-> "spoke", active |-> FALSE]
      BY <1>1, <2>2 DEF Restart
    <3>2. /\ UNCHANGED << local, prep, config >> /\ pc' = [h \in Handlers |-> "idle"]
          /\ gate' = NewGate(local.id # NoEnrollment, readable)
      BY <1>1 DEF Restart, stores
    <3>3. local.id # NoEnrollment /\ prep.phase = "sealed"
      BY <1>0, <3>1 DEF SealIsTheRows, IdsInOrder
    <3>4. gate'.phase # "open" /\ gate'.inFlight = 0
      BY <3>2, <3>3 DEF NewGate
    <3> QED
      BY <3>1, <3>2, <3>4 DEF StartupIsAlone, Prepared, SealIsTheRows, Busy
  <2> QED
    BY <2>1, <2>2
<1>2. ASSUME ~Serving', \A readable \in BOOLEAN : ~Restart(readable)
      PROVE  Prepared' /\ \A h \in Handlers : ~Busy(h)'
  <2>1. ~Serving
    <3>0. process \in [stage : {"serving", "activating", "accepted", "rejected"},
                       role : {"hub", "spoke"}, active : BOOLEAN]
      BY <1>0 DEF SpokeTypes
    <3>1. CASE process' = process
      BY <1>2, <3>1 DEF Serving
    <3>2. CASE FinishStartup
      BY <3>2 DEF FinishStartup, Serving
    <3>3. CASE FinishRenewal
      BY <1>2, <3>0, <3>3 DEF FinishRenewal, Serving
    <3>4. ASSUME NEW r \in wire, HubActivates(r) PROVE ~Serving
      BY <1>2, <3>0, <3>4 DEF HubActivates, Serving
    <3> QED
      BY <1>2, <3>1, <3>2, <3>3, <3>4, Writers DEF Written
  <2>2. Prepared /\ \A h \in Handlers : ~Busy(h)
    BY <1>0, <2>1 DEF StartupIsAlone
  <2>3. \A h \in Handlers : ~Busy(h)'
    BY <1>0, <2>1, <2>2, BusyOnes DEF Busy
  <2>4. OnlyRenewals
    BY <1>0, <2>2 DEF OnlyRenewals, Busy
  <2>5. LocalStays \/ Activates
    <3>1. ~Joins /\ ~Clears /\ ~Buries /\ \A p \in Prepares : ~SealsStore(p)
      BY <1>0, <2>2 DEF Joins, Clears, Buries, SealsStore, Busy
    <3>2. ~JoinsAnew
      <4>1. ~Join /\ ~SaveJoined /\ ~ClearLocal /\ ~RevokeLocal /\ ~FinishRenewal
        BY <1>0, <2>1, <2>2 DEF Join, Idle, SaveJoined, ClearLocal, RevokeLocal, FinishRenewal,
           Busy
      <4>2. nextId' = nextId
        BY <4>1, Writers DEF Written
      <4> QED
        BY <1>0, <4>2 DEF JoinsAnew, SpokeTypes
    <3> QED
      BY <1>0, <3>1, <3>2 DEF LocalMoves
  <2> QED
    BY <2>2, <2>3, <2>4, <2>5, PreparedStays DEF Prepared, SealIsTheRows, LocalStays, Activates
<1> QED
  BY <1>1, <1>2 DEF StartupIsAlone

\* A revocation that has not marked the enrollment yet marks it next.
LEMMA RevokeMarks ==
    ASSUME SpokeTypes, [Next]_vars, pc["revoke"] = "mark"
    PROVE  pc'["revoke"] \in {"idle", "mark"} \/ local' = Tombstone(arg["revoke"])
<1>0. /\ "revoke" \in Handlers /\ "revoke" \notin Prepares /\ pc \in [Handlers -> Stages]
  BY PreparationAssumption DEF SpokeTypes, Handlers
<1> USE DEF Go, Return, Begin, Idle, OnLocal, NoStore, OnHub
<1>1. CASE RevokeLocal
  BY <1>1 DEF RevokeLocal
<1>2. CASE Join \/ HubBegins \/ BindHub \/ SaveJoined \/ JoinFails
  BY <1>0, <1>2 DEF Join, HubBegins, BindHub, SaveJoined, JoinFails
<1>3. CASE Abort \/ ReopenWrites \/ ResetPreparedSpokeBinding \/ ClearLocal
  BY <1>0, <1>3 DEF Abort, ReopenWrites, ResetPreparedSpokeBinding, ClearLocal
<1>4. CASE RevokeArrives \/ RevokeRow \/ HubRevokes \/ RevokeAnswerLost
  BY <1>0, <1>4 DEF RevokeArrives, RevokeRow, HubRevokes, RevokeAnswerLost
<1>5. CASE Renew \/ RenewFails \/ FinishRenewal
  BY <1>0, <1>5 DEF Renew, RenewFails, FinishRenewal
<1>6. ASSUME NEW p \in Prepares, PrepareStep(p) PROVE pc'["revoke"] = "mark"
  <2>0. p # "revoke"
    BY <1>0
  <2>1. CASE Prepare(p) \/ HubPins(p) \/ MarkLocalPreparationStarted(p) \/ Quiesce(p) \/ Drain(p)
    BY <1>0, <2>0, <2>1 DEF Prepare, HubPins, MarkLocalPreparationStarted, Quiesce, Drain
  <2>2. CASE Inventory(p) \/ HubImports(p) \/ RecordReceipt(p) \/ HandoffFails(p)
    BY <1>0, <2>0, <2>2 DEF Inventory, HubImports, RecordReceipt, HandoffFails
  <2>3. CASE Recheck(p) \/ ListReceipts(p) \/ HubSeals(p) \/ StoreLocalSeal(p)
    BY <1>0, <2>0, <2>3 DEF Recheck, ListReceipts, HubSeals, StoreLocalSeal
  <2>4. CASE SaveLocalPreparationSeal(p) \/ RereadLocal(p) \/ SaveRole(p) \/ PrepareFails(p)
    BY <1>0, <2>0, <2>4 DEF SaveLocalPreparationSeal, RereadLocal, SaveRole, PrepareFails
  <2> QED
    BY <1>6, <2>1, <2>2, <2>3, <2>4 DEF PrepareStep
<1>7. ASSUME NEW force \in BOOLEAN, AbortUnconfirmed(force) PROVE pc'["revoke"] = "mark"
  BY <1>0, <1>7 DEF AbortUnconfirmed
<1>8. ASSUME NEW r \in wire, HubAborts(r) \/ HubActivates(r) PROVE pc'["revoke"] = "mark"
  BY <1>0, <1>8 DEF HubAborts, HubActivates, Reply
<1>9. ASSUME NEW readable \in BOOLEAN, Restart(readable) PROVE pc'["revoke"] = "idle"
  BY <1>0, <1>9 DEF Restart
<1>10. CASE UNCHANGED pc
  BY <1>10
<1> QED
  BY <1>1, <1>2, <1>3, <1>4, <1>5, <1>6, <1>7, <1>8, <1>9, <1>10
     DEF Next, AdmitWrite, FinishWrite, SyncAck, Expire, FinishStartup, LeaseExpires, vars

\* Only startup makes an enrollment active, and its revocation ends that first.
LEMMA ActiveStep ==
    ASSUME AgreementInv, [Next]_vars
    PROVE  ActiveIsPrepared'
<1>0. /\ SpokeTypes /\ IdsInOrder /\ StartupIsAlone /\ ActiveIsPrepared /\ HandlersMove
      /\ LocalMoves
      /\ {"join", "abort", "revoke", "renew"} \subseteq Handlers /\ Prepares \subseteq Handlers
      /\ Prepares \intersect {"join", "abort", "revoke", "renew"} = {}
  BY HandlersStep, LocalStep, PreparationAssumption DEF AgreementInv, Handlers
<1> SUFFICES ASSUME local'.state = "active"
             PROVE  Prepared' /\ OnlyRenewals'
  BY DEF ActiveIsPrepared, OnlyRenewals
<1>1. (LocalStays /\ local.state = "active") \/ Activates
  <2>1. ~JoinsAnew /\ ~Joins /\ \A p \in Prepares : ~SealsStore(p)
    BY DEF JoinsAnew, Joins, SealsStore
  <2>2. ~Clears
    BY BlankLocals DEF Clears
  <2>3. ~Buries
    BY <1>0, BlankLocals DEF Buries, IdsInOrder, Busy
  <2> QED
    BY <1>0, <2>1, <2>2, <2>3 DEF LocalMoves, LocalStays
<1>2. Prepared /\ OnlyRenewals
  BY <1>0, <1>1 DEF Activates, StartupIsAlone, ActiveIsPrepared, OnlyRenewals, Busy
<1>3. Prepared'
  BY <1>1, <1>2, PreparedStays DEF Prepared, SealIsTheRows, LocalStays, Activates
<1>4. ASSUME NEW h \in Handlers \ {"revoke", "renew"} PROVE pc'[h] = "idle"
  <2>1. pc[h] = "idle"
    BY <1>2 DEF OnlyRenewals, Busy
  <2>2. ASSUME Serving, BeginsOn(h) PROVE FALSE
    <3>1. local.state = "active"
      BY <1>1, <2>2 DEF Activates
    <3>2. CASE h = "join"
      <4>1. local'.id = nextId
        BY <2>2, <3>1, <3>2 DEF BeginsOn, Reusable
      <4>2. local'.id = local.id
        BY <1>1 DEF LocalStays, Activates
      <4> QED
        BY <1>0, <4>1, <4>2, PreparationAssumption, <3>1
           DEF IdsInOrder, SpokeTypes, LocalTypes, Enrollments
    <3>3. CASE h \in Prepares \union {"abort"}
      BY <1>0, <2>2, <3>1, <3>3 DEF BeginsOn
    <3> QED
      BY <1>4, <3>2, <3>3 DEF Handlers
  <2> QED
    BY <1>0, <2>1, <2>2, BusyOnes
<1>5. pc'["revoke"] \in {"idle", "mark"}
  <2>1. CASE pc["revoke"] = "mark"
    <3>1. arg["revoke"] \in Enrollments
      BY <1>0, <2>1 DEF IdsInOrder, Busy
    <3> QED
      BY <1>0, <2>1, <3>1, RevokeMarks, BlankLocals
  <2>2. CASE pc["revoke"] = "idle"
    <3>1. pc'["revoke"] = "idle" \/ BeginsOn("revoke")
      BY <1>0, <2>2, BusyOnes
    <3> QED
      BY <1>0, <3>1 DEF BeginsOn
  <2> QED
    BY <1>2, <2>1, <2>2 DEF OnlyRenewals
<1> QED
  BY <1>3, <1>4, <1>5 DEF OnlyRenewals, Busy

-----------------------------------------------------------------------------
\* A standalone daemon satisfies AgreementInv.
LEMMA AgreementInit == Init => AgreementInv
<1> SUFFICES ASSUME Init PROVE AgreementInv
  OBVIOUS
<1>1. \A h \in Handlers : pc[h] = "idle"
  BY DEF Init
<1>2. SpokeTypes
  <2>1. prep \in RowTypes
    BY DEF Init, OpenRow, RowTypes, Phases
  <2>2. gate \in GateTypes
    BY DEF Init, GateTypes, Phases
  <2>3. config \in [role : {"hub", "spoke"}, bound : BOOLEAN]
    <3>1. ASSUME NEW bound \in BOOLEAN
          PROVE  [role |-> "hub", bound |-> bound] \in [role : {"hub", "spoke"}, bound : BOOLEAN]
      OBVIOUS
    <3>2. [role |-> "hub", bound |-> FALSE] \in [role : {"hub", "spoke"}, bound : BOOLEAN]
      BY <3>1
    <3> QED
      BY <3>2 DEF Init
  <2>4. process \in [stage : {"serving", "activating", "accepted", "rejected"},
                     role : {"hub", "spoke"}, active : BOOLEAN]
    BY DEF Init
  <2>5. pc \in [Handlers -> Stages]
    BY DEF Init, Stages
  <2> QED
    BY <2>1, <2>2, <2>3, <2>4, <2>5, BlankLocals, PreparationAssumption DEF Init, SpokeTypes
<1>3. IdsInOrder /\ NewToAll
  BY <1>1, BlankLocals, PreparationAssumption
     DEF Init, IdsInOrder, NewToAll, Busy, OpenRow, Handlers
<1>4. SealsAreIssued
  BY <1>1, BlankLocals DEF Init, SealsAreIssued, Requested, Handlers
<1>5. StartupIsAlone /\ ActiveIsPrepared
  BY BlankLocals DEF Init, StartupIsAlone, ActiveIsPrepared, Serving
<1> QED
  BY <1>2, <1>3, <1>4, <1>5 DEF AgreementInv

\* Every step keeps AgreementInv.
LEMMA AgreementStep == AgreementInv /\ [Next]_vars => AgreementInv'
<1> SUFFICES ASSUME AgreementInv, [Next]_vars PROVE AgreementInv'
  OBVIOUS
<1>1. SpokeTypes'
  BY SpokeTypesStep DEF AgreementInv
<1> QED
  BY <1>1, IdsStep, NewStep, SealsStep, StartupStep, ActiveStep DEF AgreementInv

\* AgreementInv is an invariant.
LEMMA SpokeAgreementInv == Spec => []AgreementInv
BY AgreementInit, AgreementStep, PTL DEF Spec

\* A spoke that runs as active agrees with its row, its store and its hub on the
\* seal, and bars provider writes, whatever prepares, aborts, revocations and
\* restarts went before (spoke_startup.go activateFederationSpokeAtStartup).
THEOREM SpokeActivationAgrees == Spec => []ActivationAgrees
<1>1. AgreementInv => ActivationAgrees
  BY DEF AgreementInv, ActiveIsPrepared, Prepared, SealIsTheRows, SealsAreIssued,
     ActivationAgrees, Admits
<1> QED
  BY <1>1, SpokeAgreementInv, PTL

\* Revocation is final: no answer that comes late and no handler that began before
\* revives an enrollment (enrollment_store.go MarkLocalActive,
\* RenewLocalActivationLease, SaveLocalPreparationSeal).
THEOREM SpokeRevokedStaysRevoked == Spec => RevokedStaysRevoked
<1>1. ASSUME AgreementInv, [Next]_vars, local.state = "revoked", local'.id = local.id
      PROVE  local'.state = "revoked"
  <2>0. /\ SpokeTypes /\ IdsInOrder /\ LocalMoves /\ NoEnrollment \notin Enrollments
        /\ {"join", "abort", "revoke", "renew"} \subseteq Handlers
    BY <1>1, LocalStep, PreparationAssumption DEF AgreementInv, Handlers, Enrollments
  <2>1. LocalStays => local'.state = "revoked"
    BY <1>1 DEF LocalStays
  <2>2. ~JoinsAnew
    BY <1>1, <2>0 DEF JoinsAnew, IdsInOrder, SpokeTypes, Enrollments
  <2>3. ~Joins
    BY <1>1, <2>0 DEF Joins, AgreementInv, NewToAll, Busy
  <2>4. ~Clears
    BY <1>1, <2>0, BlankLocals DEF Clears, IdsInOrder
  <2>5. Buries => local'.state = "revoked"
    BY <2>0, BlankLocals DEF Buries, IdsInOrder, Busy
  <2>6. ~Activates
    BY <1>1 DEF Activates, AgreementInv, StartupIsAlone, Prepared, SealIsTheRows
  <2>7. \A p \in Prepares : ~SealsStore(p)
    BY <1>1 DEF SealsStore
  <2> QED
    BY <2>0, <2>1, <2>2, <2>3, <2>4, <2>5, <2>6, <2>7 DEF LocalMoves
<1>2. AgreementInv /\ [Next]_vars =>
        [local.state = "revoked" /\ local'.id = local.id => local'.state = "revoked"]_vars
  BY <1>1
<1> QED
  BY <1>2, SpokeAgreementInv, PTL DEF Spec, RevokedStaysRevoked

-----------------------------------------------------------------------------
(* The parts of SealInv, one by one. *)

\* The row becomes that of the store's enrollment by a prepare only.
LEMMA RowComes ==
    ASSUME AgreementInv, [Next]_vars, RowIsLocals'
    PROVE  \/ \E p \in Prepares : Quiesces(p)
           \/ /\ RowIsLocals /\ local'.id = local.id
              /\ prep'.enrollment = prep.enrollment
              /\ \/ prep' = prep
                 \/ \E p \in Prepares : FreezesNow(p) \/ SealsRow(p)
<1>0. /\ SpokeTypes /\ IdsInOrder /\ NewToAll /\ LocalMoves /\ RowMoves
      /\ NoEnrollment \notin Enrollments
      /\ {"join", "abort", "revoke", "renew"} \subseteq Handlers /\ Prepares \subseteq Handlers
      /\ nextId \in Nat
  BY LocalStep, RowStep, PreparationAssumption DEF AgreementInv, Handlers, Enrollments, SpokeTypes
<1>1. CASE prep' = prep \/ \E p \in Prepares : FreezesNow(p) \/ SealsRow(p)
  <2>1. prep.phase # "open" /\ prep'.enrollment = prep.enrollment
    BY <1>1 DEF RowIsLocals, FreezesNow, Freezes, SealsRow
  <2>2. prep.enrollment \in Enrollments /\ prep.enrollment < nextId /\ prep.enrollment = local'.id
    BY <1>0, <2>1 DEF IdsInOrder, RowIsLocals
  <2>3. local'.id = local.id /\ local.state # "revoked"
    <3>1. ~JoinsAnew
      BY <1>0, <2>2 DEF JoinsAnew, Enrollments
    <3>2. ~Joins
      BY <1>0, <2>1, <2>2 DEF Joins, NewToAll, Busy
    <3>3. ~Clears
      BY <1>0, <2>2, BlankLocals DEF Clears
    <3>4. ~Buries
      BY <1>0, BlankLocals DEF Buries, IdsInOrder, Busy, RowIsLocals
    <3>5. Activates => local'.id = local.id /\ local.state # "revoked"
      BY DEF Activates, AgreementInv, StartupIsAlone, ActiveIsPrepared, Prepared, SealIsTheRows
    <3>6. LocalStays \/ (\E p \in Prepares : SealsStore(p))
            => local'.id = local.id /\ local.state # "revoked"
      BY DEF LocalStays, SealsStore, RowIsLocals
    <3> QED
      BY <1>0, <3>1, <3>2, <3>3, <3>4, <3>5, <3>6 DEF LocalMoves
  <2> QED
    BY <1>1, <2>1, <2>2, <2>3 DEF RowIsLocals
<1>2. ~Opens
  BY DEF Opens, OpenRow, RowIsLocals
<1> QED
  BY <1>0, <1>1, <1>2 DEF RowMoves

\* A quiesce that opens a preparation also bars the gate.
LEMMA QuiesceBars ==
    ASSUME SpokeTypes, [Next]_vars, NEW p \in Prepares, Quiesces(p)
    PROVE  gate'.phase # "open" /\ prep'.drain = NoGeneration
<1>1. prep' # prep /\ prep'.phase = "quiescing" /\ prep.phase = "open"
  BY DEF Quiesces
<1>2. ~ReopenWrites /\ ~RevokeRow
  BY <1>1 DEF ReopenWrites, RevokeRow, AbortPreparation, OpenRow
<1>3. ASSUME NEW q \in Prepares, Drain(q) \/ Recheck(q) \/ StoreLocalSeal(q) PROVE FALSE
  BY <1>1, <1>3 DEF Drain, Recheck, Status, Freezes, StoreLocalSeal
<1>4. PICK q \in Prepares : Quiesce(q)
  BY <1>1, <1>2, <1>3, Writers DEF Written
<1>5. gate' = [gate EXCEPT !.loadErr = FALSE, !.phase = prep'.phase]
  BY <1>1, <1>4 DEF Quiesce, BeginQuiesce
<1> QED
  BY <1>1, <1>5 DEF Quiesces, SpokeTypes, GateTypes

\* A frozen generation stays the newest while the row is the enrollment's.
LEMMA FrozenStep ==
    ASSUME AgreementInv, FrozenIsNewest, [Next]_vars
    PROVE  FrozenIsNewest'
<1>0. /\ SpokeTypes /\ IdsInOrder /\ FrozenIsNewest /\ AgreementInv /\ RowMoves /\ content \in Nat
      /\ NoEnrollment \notin Enrollments /\ gate \in GateTypes /\ NoGeneration \notin Nat
  BY RowStep, PreparationAssumption DEF AgreementInv, SpokeTypes, Enrollments
<1>1. unsynced' \subseteq 0 .. content'
  <2>1. CASE FinishWrite
    <3>1. unsynced \subseteq 0 .. content
      BY <1>0 DEF FrozenIsNewest
    <3>2. \/ UNCHANGED << content, unsynced >>
          \/ content' = content + 1 /\ unsynced' = unsynced \union {content'}
      BY <2>1 DEF FinishWrite
    <3>3. CASE content' = content + 1 /\ unsynced' = unsynced \union {content'}
      <4>1. ASSUME NEW g \in unsynced' PROVE g \in 0 .. content'
        BY <1>0, <3>1, <3>3
      <4> QED
        BY <4>1
    <3> QED
      BY <3>1, <3>2, <3>3
  <2>2. CASE ~FinishWrite
    BY <1>0, <2>2, Writers DEF Written, SyncAck, FrozenIsNewest
  <2> QED
    BY <2>1, <2>2
<1>2. prep'.phase = "open" => prep'.drain = NoGeneration
  BY <1>0 DEF RowMoves, Opens, OpenRow, Quiesces, FreezesNow, Freezes, SealsRow, FrozenIsNewest
<1>3. ASSUME RowIsLocals'
      PROVE  /\ gate'.phase # "open"
             /\ prep'.drain # NoGeneration => gate'.inFlight = 0 /\ prep'.drain = content'
  <2>1. CASE \E p \in Prepares : Quiesces(p)
    BY <1>0, <2>1, QuiesceBars
  <2>2. CASE /\ RowIsLocals /\ prep'.enrollment = prep.enrollment
             /\ \/ prep' = prep
                \/ \E p \in Prepares : FreezesNow(p) \/ SealsRow(p)
    <3>0. /\ gate.phase # "open" /\ prep.phase # "open" /\ prep'.phase # "open"
          /\ prep.drain # NoGeneration => gate.inFlight = 0 /\ prep.drain = content
      BY <1>0, <1>3, <2>2 DEF FrozenIsNewest, RowIsLocals
    <3>1. gate'.phase # "open" /\ (gate.inFlight = 0 => gate'.inFlight = 0)
      <4>1. ~AdmitWrite /\ (ReopenWrites => gate' = gate)
        BY <3>0 DEF AdmitWrite, Admit, Admits, ReopenWrites, AbortPreparation, OpenRow
      <4>2. CASE FinishWrite
        BY <1>0, <3>0, <4>2 DEF FinishWrite, Release, GateTypes
      <4>3. ASSUME NEW p \in Prepares, Quiesce(p)
            PROVE  gate'.phase # "open" /\ gate'.inFlight = gate.inFlight
        <5>1. gate' = [gate EXCEPT !.loadErr = FALSE, !.phase = prep'.phase] \/ gate' = gate
          BY <4>3 DEF Quiesce, BeginQuiesce
        <5> QED
          BY <1>0, <3>0, <5>1 DEF GateTypes
      <4>4. ASSUME NEW p \in Prepares, Drain(p) \/ Recheck(p)
            PROVE  gate'.phase # "open" /\ gate'.inFlight = gate.inFlight
        <5>1. gate' = [gate EXCEPT !.phase = prep.phase]
          BY <4>4 DEF Drain, Recheck, Status
        <5> QED
          BY <1>0, <3>0, <5>1 DEF GateTypes
      <4>5. ASSUME NEW readable \in BOOLEAN, Restart(readable)
            PROVE  gate'.phase # "open" /\ gate'.inFlight = 0
        <5>1. gate' = NewGate(local.id # NoEnrollment, readable)
          BY <4>5 DEF Restart
        <5>2. local.id # NoEnrollment
          BY <1>0, <2>2 DEF RowIsLocals, IdsInOrder
        <5> QED
          BY <3>0, <5>1, <5>2 DEF NewGate
      <4> QED
        BY <3>0, <4>1, <4>2, <4>3, <4>4, <4>5, Writers DEF Written
    <3>2. CASE \E p \in Prepares : FreezesNow(p)
      <4>1. gate.inFlight = 0 /\ prep'.drain = content
        BY <3>2 DEF FreezesNow, Freezes
      <4>2. content' = content
        BY <4>1, Writers DEF Written, FinishWrite
      <4> QED
        BY <3>1, <4>1, <4>2
    <3>3. CASE prep'.drain = prep.drain
      <4>1. prep.drain # NoGeneration => content' = content
        BY <3>0, Writers DEF Written, FinishWrite
      <4> QED
        BY <3>0, <3>1, <3>3, <4>1
    <3> QED
      BY <2>2, <3>2, <3>3 DEF SealsRow
  <2> QED
    BY <1>0, <1>3, <2>1, <2>2, RowComes
<1> QED
  BY <1>1, <1>2, <1>3 DEF FrozenIsNewest

\* Receipts never run ahead of the hub, nor the hub of the spoke.
LEMMA ReceiptsStep ==
    ASSUME AgreementInv, ReceiptsAreImported, [Next]_vars
    PROVE  ReceiptsAreImported'
<1>0. /\ SpokeTypes /\ ReceiptsAreImported /\ AgreementInv
      /\ content \in Nat /\ receipt \in Int /\ imported \in Int /\ receipt >= -1 /\ imported >= -1
  BY PreparationAssumption DEF AgreementInv, SpokeTypes, None
<1>1. content' \in Nat /\ content' >= content
  BY <1>0, Writers DEF Written, FinishWrite
<1>2. /\ imported' \in Int /\ imported' >= imported /\ imported' <= content'
  <2>1. CASE imported' = imported
    BY <1>0, <1>1, <2>1 DEF ReceiptsAreImported
  <2>2. ASSUME NEW p \in Prepares, HubImports(p)
        PROVE  imported' \in Int /\ imported' >= imported /\ imported' <= content
    BY <1>0, <2>2 DEF HubImports, ReceiptsAreImported, Larger
  <2> QED
    BY <1>0, <1>1, <2>1, <2>2, Writers DEF Written
<1>3. receipt' \in Int /\ receipt' <= imported'
  <2>1. CASE receipt' = receipt
    BY <1>0, <1>2, <2>1 DEF ReceiptsAreImported
  <2>2. CASE receipt' = None
    BY <1>0, <1>2, <2>2 DEF None
  <2>3. ASSUME NEW p \in Prepares, RecordReceipt(p) PROVE receipt' \in Int /\ receipt' <= imported
    BY <1>0, <2>3 DEF RecordReceipt, ReceiptsAreImported, Larger
  <2> QED
    BY <1>0, <1>2, <2>1, <2>2, <2>3, Writers DEF Written, ReopenWrites, RevokeRow
<1>4. ASSUME NEW p \in Prepares
      PROVE  /\ pc'[p] \in {"import", "imported"}
                  => req'[p].receipts \in Int /\ req'[p].receipts <= content'
             /\ pc'[p] = "imported" => req'[p].receipts <= imported'
  <2>0. /\ pc \in [Handlers -> Stages] /\ req \in [Prepares -> Seals \union {NoSeal}]
        /\ p \in Handlers
        /\ pc[p] \in {"import", "imported"} => req[p].receipts \in Int /\ req[p].receipts <= content
        /\ pc[p] = "imported" => req[p].receipts <= imported
    BY <1>0 DEF SpokeTypes, Handlers, ReceiptsAreImported
  <2>1. CASE Keeps(p)
    BY <1>0, <1>1, <1>2, <2>0, <2>1 DEF Keeps
  <2>2. CASE Inventory(p)
    BY <1>0, <1>1, <2>0, <2>2 DEF Inventory, SealFor
  <2>3. CASE HubImports(p)
    <3>1. req[p].receipts <= imported'
      BY <1>0, <2>0, <2>3 DEF HubImports, Larger
    <3> QED
      BY <1>0, <1>1, <2>0, <2>3, <3>1 DEF HubImports, Go
  <2>4. CASE PrepareStep(p) /\ ~Inventory(p) /\ ~HubImports(p)
    <3> USE DEF Go, Return
    <3>1. CASE Prepare(p) \/ HubPins(p) \/ MarkLocalPreparationStarted(p) \/ Quiesce(p) \/ Drain(p)
      BY <2>0, <3>1 DEF Prepare, Begin, Idle, HubPins, MarkLocalPreparationStarted, Quiesce, Drain
    <3>2. CASE RecordReceipt(p) \/ HandoffFails(p) \/ Recheck(p) \/ ListReceipts(p)
      BY <2>0, <3>2 DEF RecordReceipt, HandoffFails, Recheck, ListReceipts
    <3>3. CASE HubSeals(p) \/ StoreLocalSeal(p) \/ SaveLocalPreparationSeal(p)
      BY <2>0, <3>3 DEF HubSeals, StoreLocalSeal, SaveLocalPreparationSeal
    <3>4. CASE RereadLocal(p) \/ SaveRole(p) \/ PrepareFails(p)
      BY <2>0, <3>4 DEF RereadLocal, SaveRole, PrepareFails
    <3> QED
      BY <2>4, <3>1, <3>2, <3>3, <3>4 DEF PrepareStep
  <2> QED
    BY <1>0, <2>1, <2>2, <2>3, <2>4, OthersKeep
<1> QED
  BY <1>2, <1>3, <1>4 DEF ReceiptsAreImported

\* A frozen generation is not ahead of the queue of acknowledgements.
LEMMA QueuedStep ==
    ASSUME AgreementInv, FrozenIsQueued, [Next]_vars
    PROVE  FrozenIsQueued'
<1>1. RowMoves /\ content \in Nat /\ prep.drain \in (0 .. MaxWrites) \union {NoGeneration}
  BY RowStep, PreparationAssumption DEF AgreementInv, SpokeTypes, RowTypes
<1>2. content' \in Nat /\ content' >= content
  BY <1>1, Writers DEF Written, FinishWrite
<1>3. prep'.drain \in {NoGeneration, prep.drain, content}
  BY <1>1 DEF RowMoves, Opens, OpenRow, Quiesces, FreezesNow, SealsRow
<1> QED
  BY <1>1, <1>2, <1>3, PreparationAssumption DEF FrozenIsQueued

\* What a seal says stays so: the hub forgets nothing, and an acknowledgement that
\* comes later has a later generation.
LEMMA CoversStays ==
    ASSUME SealInv, [Next]_vars, NEW r \in Seals, Covers(r)
    PROVE  Covers(r)'
<1>1. /\ content \in Nat /\ imported \in Int /\ r.receipts \in Int /\ r.drain \in Nat
      /\ unsynced \subseteq 0 .. content
  BY PreparationAssumption
     DEF SealInv, AgreementInv, SpokeTypes, Seals, None, FrozenIsNewest
<1>2. imported' \in Int /\ imported' >= imported
  <2>1. ASSUME NEW p \in Prepares, HubImports(p)
        PROVE  imported' \in Int /\ imported' >= imported
    BY <1>1, <2>1 DEF HubImports, Larger, SealInv, ReceiptsAreImported
  <2> QED
    BY <1>1, <2>1, Writers DEF Written
<1>3. \/ content' = content /\ unsynced' \subseteq unsynced
      \/ content' = content + 1 /\ unsynced' = unsynced \union {content'}
  BY Writers DEF Written, FinishWrite, SyncAck
<1>4. r.receipts <= imported'
  BY <1>1, <1>2 DEF Covers
<1>5. r.drain <= content' /\ \A g \in unsynced' : r.drain < g
  <2>1. CASE content' = content /\ unsynced' \subseteq unsynced
    BY <2>1 DEF Covers
  <2>2. CASE content' = content + 1 /\ unsynced' = unsynced \union {content'}
    BY <1>1, <2>2 DEF Covers
  <2> QED
    BY <1>3, <2>1, <2>2
<1> QED
  BY <1>4, <1>5 DEF Covers

\* A request to seal that is drawn up after the second status covers what is
\* queued: whatever still waits came after the generation of the row.
LEMMA RecheckCovers ==
    ASSUME SealInv, NEW p \in Prepares, Recheck(p), pc'[p] = "receipts"
    PROVE  Covers(req[p])'
<1>1. /\ pc \in [Handlers -> Stages] /\ req \in [Prepares -> Seals \union {NoSeal}]
      /\ p \in Handlers /\ content \in Nat /\ imported \in Int /\ unsynced \subseteq 0 .. content
      /\ prep.drain \in (0 .. MaxWrites) \union {NoGeneration} /\ None <= imported
  BY PreparationAssumption DEF SealInv, AgreementInv, SpokeTypes, RowTypes, Handlers, None,
     FrozenIsNewest, ReceiptsAreImported
<1>2. ~Return(p)
  BY <1>1 DEF Return
<1>3. /\ Status(content) /\ Undrained = {} /\ prep'.drain # NoGeneration
      /\ req' = [req EXCEPT ![p] = SealFor(arg[p], None, prep'.drain)]
      /\ UNCHANGED << content, unsynced, imported >>
  BY <1>2 DEF Recheck, OnRow, Elsewhere, hub
<1>4. req'[p].receipts = None /\ req'[p].drain = prep'.drain
  BY <1>1, <1>3 DEF SealFor
<1>5. prep'.drain = prep.drain \/ (prep.drain = NoGeneration /\ prep'.drain = content)
  <2>1. prep' = prep \/ (Freezes /\ prep' = [prep EXCEPT !.drain = content])
    BY <1>3 DEF Status
  <2>2. prep \in RowTypes
    BY DEF SealInv, AgreementInv, SpokeTypes
  <2> QED
    BY <2>1, <2>2 DEF Freezes, RowTypes
<1>6. prep'.drain <= content
  BY <1>1, <1>3, <1>5 DEF SealInv, FrozenIsQueued
<1>7. ASSUME NEW g \in unsynced
      PROVE  prep'.drain < g
  <2>1. prep.drain # NoGeneration /\ ~(g <= prep.drain)
    BY <1>3 DEF Undrained
  <2> QED
    BY <1>1, <1>5, <2>1
<1> QED
  BY <1>1, <1>3, <1>4, <1>6, <1>7 DEF Covers

\* What the requests and the hub's seals say is so.
LEMMA CoverStep ==
    ASSUME SealInv, [Next]_vars
    PROVE  SealsCover'
<1>0. /\ SpokeTypes /\ SealsAreIssued /\ SealsCover /\ pc \in [Handlers -> Stages]
      /\ Prepares \subseteq Handlers /\ req \in [Prepares -> Seals \union {NoSeal}]
      /\ seals \in [Enrollments -> Seals \union {NoSeal}]
  BY DEF SealInv, AgreementInv, SpokeTypes, Handlers
<1>1. ASSUME NEW p \in Prepares, pc'[p] \in {"receipts", "seal"}
      PROVE  Covers(req[p])'
  <2>0. pc[p] \in {"receipts", "seal"} => req[p] \in Seals /\ Covers(req[p])
    BY <1>0 DEF SealsAreIssued, Requested, SealsCover
  <2>1. CASE Keeps(p)
    <3>1. pc[p] \in {"receipts", "seal"} /\ req'[p] = req[p]
      BY <1>1, <2>1 DEF Keeps
    <3>2. req[p].receipts <= imported' /\ req[p].drain <= content'
          /\ \A g \in unsynced' : req[p].drain < g
      BY <2>0, <3>1, CoversStays DEF Covers
    <3> QED
      BY <3>1, <3>2 DEF Covers
  <2>2. CASE Recheck(p)
    <3>1. pc'[p] = "receipts"
      BY <1>0, <1>1, <2>2 DEF Recheck, Return
    <3> QED
      BY <2>2, <3>1, RecheckCovers
  <2>3. CASE ListReceipts(p)
    <3>1. pc[p] = "receipts" /\ UNCHANGED << content, unsynced, imported >>
      BY <2>3 DEF ListReceipts, NoStore, OnHub, Elsewhere, hub
    <3>2. req'[p].receipts = receipt /\ req'[p].drain = req[p].drain
      BY <1>0, <2>0, <2>3, <3>1 DEF ListReceipts, Seals
    <3>3. receipt <= imported
      BY DEF SealInv, ReceiptsAreImported
    <3> QED
      BY <2>0, <3>1, <3>2, <3>3 DEF Covers
  <2>4. CASE PrepareStep(p) /\ ~Recheck(p) /\ ~ListReceipts(p)
    <3> USE DEF Go, Return
    <3>1. CASE Prepare(p) \/ HubPins(p) \/ MarkLocalPreparationStarted(p) \/ Quiesce(p) \/ Drain(p)
      BY <1>0, <1>1, <3>1 DEF Prepare, Begin, Idle, HubPins, MarkLocalPreparationStarted, Quiesce,
         Drain
    <3>2. CASE Inventory(p) \/ HubImports(p) \/ RecordReceipt(p) \/ HandoffFails(p)
      BY <1>0, <1>1, <3>2 DEF Inventory, HubImports, RecordReceipt, HandoffFails
    <3>3. CASE HubSeals(p) \/ StoreLocalSeal(p) \/ SaveLocalPreparationSeal(p)
      BY <1>0, <1>1, <3>3 DEF HubSeals, StoreLocalSeal, SaveLocalPreparationSeal
    <3>4. CASE RereadLocal(p) \/ SaveRole(p) \/ PrepareFails(p)
      BY <1>0, <1>1, <3>4 DEF RereadLocal, SaveRole, PrepareFails
    <3> QED
      BY <2>4, <3>1, <3>2, <3>3, <3>4 DEF PrepareStep
  <2> QED
    BY <1>0, <2>1, <2>2, <2>3, <2>4, OthersKeep
<1>2. ASSUME NEW e \in Enrollments, seals'[e] # NoSeal
      PROVE  Covers(seals[e])'
  <2>1. PICK r \in Seals : seals'[e] = r /\ Covers(r)
    <3>1. CASE seals' = seals
      BY <1>0, <1>2, <3>1 DEF SealsCover
    <3>2. ASSUME NEW p \in Prepares, HubSeals(p)
          PROVE  \E r \in Seals : seals'[e] = r /\ Covers(r)
      <4>1. req[p] \in Seals /\ Covers(req[p]) /\ seals' = [seals EXCEPT ![arg[p]] = req[p]]
        BY <1>0, <3>2 DEF HubSeals, SealsAreIssued, Requested, SealsCover
      <4>2. seals'[e] = req[p] \/ seals'[e] = seals[e]
        BY <1>0, <4>1
      <4> QED
        BY <1>0, <1>2, <4>1, <4>2 DEF SealsCover
    <3> QED
      BY <3>1, <3>2, Writers DEF Written
  <2>2. Covers(r)'
    BY <2>1, CoversStays
  <2> QED
    BY <2>1, <2>2 DEF Covers
<1> QED
  BY <1>1, <1>2 DEF SealsCover

\* A standalone daemon satisfies SealInv.
LEMMA SealInit == Init => SealInv
<1> SUFFICES ASSUME Init PROVE SealInv
  OBVIOUS
<1>1. \A p \in Prepares : pc[p] = "idle"
  BY DEF Init, Handlers
<1>2. ~RowIsLocals
  BY DEF Init, OpenRow, RowIsLocals
<1> QED
  BY <1>1, <1>2, AgreementInit DEF Init, OpenRow, SealInv, FrozenIsNewest, FrozenIsQueued,
     ReceiptsAreImported, SealsCover, None

\* SealInv is an invariant.
LEMMA SealInvAlways == Spec => []SealInv
<1>1. SealInv /\ [Next]_vars => SealInv'
  BY AgreementStep, FrozenStep, QueuedStep, ReceiptsStep, CoverStep DEF SealInv
<1> QED
  BY <1>1, SealInit, PTL DEF Spec

\* The seal of an active spoke is true: the hub has the state its receipts cover,
\* no acknowledgement up to its generation waits and no write is under way, however
\* prepares overlap (spoke_preparation.go prepareFederationSpoke).
THEOREM SpokeSealIsTrue == Spec => []SealIsTrue
<1>1. SealInv => SealIsTrue
  <2> SUFFICES ASSUME SealInv, local.state = "active"
               PROVE  /\ local.seal.receipts <= imported
                      /\ \A g \in unsynced : g > local.seal.drain
                      /\ gate.inFlight = 0
    BY DEF SealIsTrue
  <2>1. Prepared /\ SealsAreIssued /\ IdsInOrder /\ SpokeTypes
    BY DEF SealInv, AgreementInv, ActiveIsPrepared
  <2>2. local.seal # NoSeal /\ local.seal = seals[local.id] /\ gate.inFlight = 0
    BY <2>1 DEF Prepared, SealIsTheRows, SealsAreIssued
  <2>3. local.id \in Enrollments
    BY <2>1, <2>2 DEF IdsInOrder, SpokeTypes, LocalTypes
  <2>4. Covers(local.seal)
    BY <2>2, <2>3 DEF SealInv, SealsCover
  <2>5. local.seal.drain \in Nat /\ unsynced \subseteq Nat
    BY <2>1, <2>2, PreparationAssumption
       DEF SpokeTypes, LocalTypes, Seals, SealInv, FrozenIsNewest
  <2> QED
    BY <2>2, <2>4, <2>5 DEF Covers
<1> QED
  BY <1>1, SealInvAlways, PTL

-----------------------------------------------------------------------------
(* Gate and row implement the barrier (WriteBarrier), however prepares       *)
(* overlap: that needs only that a frozen generation is the newest.          *)

BarrierInv == AgreementInv /\ FrozenIsNewest

LEMMA BarrierInvAlways == Spec => []BarrierInv
<1>1. SealInv => BarrierInv
  BY DEF SealInv, BarrierInv
<1> QED
  BY <1>1, SealInvAlways, PTL

\* The count of writes under way changes with a write or with the process.
LEMMA InFlightStays ==
    ASSUME SpokeTypes, [Next]_vars, ~AdmitWrite, ~FinishWrite,
           \A readable \in BOOLEAN : ~Restart(readable)
    PROVE  gate'.inFlight = gate.inFlight
<1>1. gate \in GateTypes
  BY DEF SpokeTypes
<1>2. ASSUME ReopenWrites
      PROVE  gate'.inFlight = gate.inFlight
  <2>1. gate' = gate \/ gate' = [gate EXCEPT !.loadErr = FALSE, !.phase = "open"]
    BY <1>2 DEF ReopenWrites, AbortPreparation
  <2> QED
    BY <1>1, <2>1 DEF GateTypes
<1>3. ASSUME NEW p \in Prepares, Quiesce(p)
      PROVE  gate'.inFlight = gate.inFlight
  <2>1. gate' = gate \/ gate' = [gate EXCEPT !.loadErr = FALSE, !.phase = prep'.phase]
    BY <1>3 DEF Quiesce, BeginQuiesce
  <2> QED
    BY <1>1, <2>1 DEF GateTypes
<1>4. ASSUME NEW p \in Prepares, Drain(p) \/ Recheck(p)
      PROVE  gate'.inFlight = gate.inFlight
  <2>1. gate' = [gate EXCEPT !.phase = prep.phase]
    BY <1>4 DEF Drain, Recheck, Status
  <2> QED
    BY <1>1, <2>1 DEF GateTypes
<1> QED
  BY <1>2, <1>3, <1>4, Writers DEF Written

\* A write is admitted at an open barrier and ends as the barrier's work does.
LEMMA WriteSteps ==
    ASSUME BarrierInv, [Next]_vars, AdmitWrite \/ FinishWrite
    PROVE  Barrier!Next
<1>0. /\ gate \in GateTypes /\ FrozenIsNewest
      /\ content \in 0 .. MaxWrites /\ content' \in 0 .. MaxWrites
  BY AgreementStep DEF BarrierInv, AgreementInv, SpokeTypes
<1>1. UNCHANGED << prep, local >>
  BY DEF AdmitWrite, FinishWrite, stores
<1>2. CASE AdmitWrite
  <2>1. gate.inFlight = 0 /\ Admits /\ gate' = [gate EXCEPT !.inFlight = @ + 1] /\ content' = content
    BY <1>2 DEF AdmitWrite, Admit
  <2>2. gate'.phase = gate.phase /\ gate'.loadErr = gate.loadErr /\ gate'.inFlight = 1
    BY <1>0, <2>1 DEF GateTypes
  <2>3. BarrierState = "open" /\ BarrierState' = "open"
    BY <1>0, <1>1, <2>1, <2>2 DEF BarrierState, RowIsLocals, FrozenIsNewest, Admits
  <2>4. Barrier!Admit("write")
    BY <2>1, <2>2, <2>3 DEF Barrier!Admit
  <2> QED
    BY <2>4 DEF Barrier!Next
<1>3. CASE FinishWrite
  <2>1. gate.inFlight > 0 /\ gate' = [gate EXCEPT !.inFlight = @ - 1]
    BY <1>3 DEF FinishWrite, Release
  <2>2. /\ gate'.phase = gate.phase /\ gate'.loadErr = gate.loadErr
        /\ gate'.inFlight = gate.inFlight - 1 /\ gate.inFlight \in Nat
    BY <1>0, <2>1 DEF GateTypes
  <2>3. BarrierState' = BarrierState
    BY <1>1, <2>2 DEF BarrierState, RowIsLocals, Admits
  <2>4. CASE gate.inFlight = 1
    <3>1. Barrier!End("write")
      BY <1>0, <2>2, <2>3, <2>4 DEF Barrier!End
    <3> QED
      BY <3>1 DEF Barrier!Next
  <2>5. CASE gate.inFlight # 1
    <3>1. gate'.inFlight > 0
      BY <2>1, <2>2, <2>5
    <3>2. Barrier!Write
      BY <1>0, <2>1, <2>3, <3>1 DEF Barrier!Write
    <3> QED
      BY <3>2 DEF Barrier!Next
  <2> QED
    BY <2>4, <2>5
<1> QED
  BY <1>2, <1>3

\* A restart is the barrier's crash: what was frozen stays so.
LEMMA RestartSteps ==
    ASSUME BarrierInv, NEW readable \in BOOLEAN, Restart(readable)
    PROVE  Barrier!Next
<1>1. UNCHANGED << prep, local, content >> /\ gate' = NewGate(local.id # NoEnrollment, readable)
  BY DEF Restart, stores
<1>2. gate'.inFlight = 0
  BY <1>1 DEF NewGate
<1>3. BarrierState = "frozen" <=> BarrierState' = "frozen"
  BY <1>1 DEF BarrierState, RowIsLocals
<1>4. IF BarrierState = "frozen" THEN BarrierState' = BarrierState ELSE BarrierState' \in {"open", "closed"}
  BY <1>3 DEF BarrierState
<1>5. Barrier!Crash
  BY <1>1, <1>2, <1>4 DEF Barrier!Crash
<1> QED
  BY <1>5 DEF Barrier!Next

\* Any other step leaves writes alone: the barrier closes, opens again, or is
\* frozen when nothing is at work.
LEMMA RowSteps ==
    ASSUME BarrierInv, [Next]_vars, ~AdmitWrite, ~FinishWrite,
           \A readable \in BOOLEAN : ~Restart(readable)
    PROVE  [Barrier!Next]_(Barrier!barrierVars)
<1>0. AgreementInv /\ SpokeTypes /\ FrozenIsNewest
  BY DEF BarrierInv, AgreementInv
<1>1. gate'.inFlight = gate.inFlight /\ content' = content
  BY <1>0, InFlightStays, Writers DEF Written
<1>2. ASSUME BarrierState' # "frozen"
      PROVE  Barrier!Next
  <2>1. Barrier!Switch
    BY <1>1, <1>2 DEF BarrierState, Barrier!Switch
  <2> QED
    BY <2>1 DEF Barrier!Next
<1>3. ASSUME BarrierState' = "frozen"
      PROVE  Barrier!Next \/ UNCHANGED Barrier!barrierVars
  <2>1. RowIsLocals' /\ prep'.drain # NoGeneration
    BY <1>3 DEF BarrierState
  <2>2. /\ RowIsLocals
        /\ prep' = prep \/ \E p \in Prepares : FreezesNow(p) \/ SealsRow(p)
    BY <1>0, <2>1, RowComes DEF Quiesces
  <2>3. CASE prep'.drain = prep.drain
    BY <1>1, <1>3, <2>1, <2>2, <2>3 DEF BarrierState, Barrier!barrierVars
  <2>4. CASE \E p \in Prepares : FreezesNow(p)
    <3>1. gate.inFlight = 0 /\ prep.drain = NoGeneration
      BY <2>4 DEF FreezesNow, Freezes
    <3>2. BarrierState = "closed"
      BY <1>0, <2>2, <3>1 DEF BarrierState, FrozenIsNewest, Admits
    <3>3. Barrier!Freeze
      BY <1>1, <1>3, <3>1, <3>2 DEF Barrier!Freeze
    <3> QED
      BY <3>3 DEF Barrier!Next
  <2> QED
    BY <2>2, <2>3, <2>4 DEF SealsRow
<1> QED
  BY <1>2, <1>3

\* Over joins, aborts, revocations, restarts, late answers and overlapping
\* prepares, gate and row implement the barrier for the enrollment the store has.
THEOREM SpokeIsBarrier == Spec => IsWriteBarrier
<1>1. Init => Barrier!Init
  <2> SUFFICES ASSUME Init PROVE Barrier!Init
    OBVIOUS
  <2>1. BarrierState = "open"
    BY DEF Init, BarrierState, RowIsLocals, OpenRow, Admits
  <2>2. content \in 0 .. MaxWrites
    BY PreparationAssumption DEF Init
  <2> QED
    BY <2>1, <2>2 DEF Init, Barrier!Init
<1>2. BarrierInv /\ [Next]_vars => [Barrier!Next]_(Barrier!barrierVars)
  BY WriteSteps, RestartSteps, RowSteps
<1> QED
  BY <1>1, <1>2, BarrierInvAlways, PTL DEF Spec, IsWriteBarrier, Barrier!Spec

\* Behind a frozen barrier nothing is at work, so nothing is written.
LEMMA BarrierIsFinal == Barrier!Spec => []Barrier!FrozenIsIdle /\ Barrier!FrozenIsFinal
<1>1. Barrier!Init => Barrier!FrozenIsIdle
  BY DEF Barrier!Init, Barrier!FrozenIsIdle
<1>2. Barrier!FrozenIsIdle /\ [Barrier!Next]_(Barrier!barrierVars) => Barrier!FrozenIsIdle'
  BY DEF Barrier!FrozenIsIdle, Barrier!Next, Barrier!barrierVars, Barrier!Admit, Barrier!Write,
         Barrier!End, Barrier!Freeze, Barrier!Switch, Barrier!Crash
<1>3. Barrier!FrozenIsIdle /\ [Barrier!Next]_(Barrier!barrierVars)
        => [BarrierState = "frozen" => content' = content]_(Barrier!barrierVars)
  BY DEF Barrier!FrozenIsIdle, Barrier!Next, Barrier!barrierVars, Barrier!Admit, Barrier!Write,
         Barrier!End, Barrier!Freeze, Barrier!Switch, Barrier!Crash
<1> QED
  BY <1>1, <1>2, <1>3, PTL DEF Barrier!Spec, Barrier!FrozenIsFinal

\* From the freeze of a preparation on, the local provider state stays as it was
\* frozen, as long as the preparation is that of the store's enrollment: what the
\* hub is handed is what there is.
THEOREM FrozenStateIsFinal == Spec => Barrier!FrozenIsFinal
  BY SpokeIsBarrier, BarrierIsFinal, PTL DEF IsWriteBarrier
=============================================================================
