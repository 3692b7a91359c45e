-------------------------- MODULE SpokePreparation --------------------------
(***************************************************************************)
(* A standalone daemon becomes the spoke of a hub: it joins, stops its     *)
(* provider writes, hands its provider state to the hub, is sealed, saves  *)
(* the spoke role and is activated by the hub at its next start; it may    *)
(* abort, be revoked by the hub, crash and renew its activation lease.     *)
(* (internal/server/spoke_preparation.go, server/fleetapi and              *)
(* federation/enrollment_store.go, cmd/kenn-forge/spoke_startup.go)        *)
(*                                                                         *)
(* State lives in four stores that no transaction spans: the preparation   *)
(* row and its receipts (prep, receipt), the enrollment store (local), the *)
(* configuration file (config) and the hub (enroll, seals).  Each step     *)
(* below touches one of them.  One node joins one hub; any request to the  *)
(* hub may fail, whatever its credentials, an import may find a conflict,  *)
(* and requests that abort or activate may reach the hub after their       *)
(* sender gave up.                                                         *)
(***************************************************************************)
EXTENDS ProviderWriteGate, FiniteSets

CONSTANTS
    Prepares,         \* prepare-spoke requests that may run at once
    MaxEnrollments,   \* bound: enrollment ids are 1 .. MaxEnrollments
    MaxWrites,        \* bound on local provider mutations
    MaxCrashes,       \* bound on restarts
    MaxBusy           \* bound on handlers that run at once

VARIABLES
    content,   \* version of the local provider state; each change queues an acknowledgement
    unsynced,  \* generations of the acknowledgements the provider has not seen
    receipt,   \* the version the hub's receipt covers, or None
    local,     \* the enrollment store's local enrollment
    config,    \* fleet.role and fleet.hub of the configuration file
    process,   \* the running daemon: stage, its role, and whether it started as an active spoke
    crashes,   \* restarts so far
    nextId,    \* the next enrollment id
    enroll,    \* the hub's state of each enrollment
    seals,     \* the seal the hub issued for each enrollment
    imported,  \* the version of the spoke's state the hub took over, or None
    wire,      \* abort and activation requests on their way to the hub
    pc,        \* where each handler is
    arg,       \* the enrollment each handler read when it began
    req        \* what each prepare request asks the hub to seal

stores == << prep, receipt, local, config >>
hub == << enroll, seals, imported >>
vars == << gate, stores, content, unsynced, process, crashes, nextId, hub, wire, pc, arg, req >>

None == -1
Enrollments == 1 .. MaxEnrollments
Larger(a, b) == IF a > b THEN a ELSE b
Handlers == Prepares \union {"join", "abort", "revoke", "renew"}

\* Seal: an opaque value bound to one request; the request stands for it.
SealFor(e, version, generation) ==
    [enrollment |-> e, receipts |-> version, drain |-> generation]
Seals == [enrollment : Enrollments, receipts : {None} \union (0 .. MaxWrites), drain : 0 .. MaxWrites]

ASSUME PreparationAssumption ==
    /\ MaxEnrollments \in Nat /\ MaxWrites \in Nat /\ MaxCrashes \in Nat /\ MaxBusy \in Nat
    /\ NoEnrollment \notin Nat /\ NoGeneration \notin Nat /\ NoSeal \notin Seals
    /\ Prepares \intersect {"join", "abort", "revoke", "renew"} = {}

NoLocal == [id |-> NoEnrollment, state |-> "none", bound |-> FALSE,
            started |-> FALSE, seal |-> NoSeal, lease |-> FALSE]

\* Nothing reads the other fields of a tombstone.
Tombstone(e) == [NoLocal EXCEPT !.id = e, !.state = "revoked", !.bound = TRUE]

Init ==
    /\ prep = OpenRow
    /\ gate = [phase |-> "open", inFlight |-> 0, deferredMerges |-> 0, loadErr |-> FALSE]
    /\ content = 0 /\ unsynced = {} /\ receipt = None
    /\ local = NoLocal
    /\ config = [role |-> "hub", bound |-> FALSE]
    /\ process = [stage |-> "serving", role |-> "hub", active |-> FALSE]
    /\ crashes = 0 /\ nextId = 1
    /\ enroll = [e \in Enrollments |-> "none"]
    /\ seals = [e \in Enrollments |-> NoSeal] /\ imported = None
    /\ wire = {}
    /\ pc = [h \in Handlers |-> "idle"]
    /\ arg = [h \in Handlers |-> NoEnrollment]
    /\ req = [p \in Prepares |-> NoSeal]

Serving == process.stage = "serving"

\* A handler moves on; one that returns forgets what it read.
Go(h, stage) == pc' = [pc EXCEPT ![h] = stage] /\ UNCHANGED << arg, req >>
Return(h) ==
    /\ pc' = [pc EXCEPT ![h] = "idle"]
    /\ arg' = [arg EXCEPT ![h] = NoEnrollment]
    /\ req' = [p \in Prepares |-> IF p = h THEN NoSeal ELSE req[p]]
Idle(h) ==
    /\ Serving /\ pc[h] = "idle"
    /\ Cardinality({o \in Handlers : pc[o] # "idle"}) < MaxBusy
Begin(h, stage) ==
    /\ Idle(h)
    /\ pc' = [pc EXCEPT ![h] = stage]
    /\ arg' = [arg EXCEPT ![h] = local.id]
    /\ UNCHANGED req

\* A step of the spoke on one store, a step of the hub, and a step on neither.
Elsewhere == UNCHANGED << content, unsynced, process, crashes, nextId, wire >>
OnHub == Elsewhere /\ UNCHANGED << gate, stores >>
NoStore == OnHub /\ UNCHANGED hub
OnLocal == Elsewhere /\ UNCHANGED << gate, prep, receipt, config, hub >>
OnConfig == Elsewhere /\ UNCHANGED << gate, prep, receipt, local, hub >>
OnRow == Elsewhere /\ UNCHANGED << local, config, hub >>

-----------------------------------------------------------------------------
(* Provider mutations of the standalone daemon.                            *)

AdmitWrite ==
    /\ Serving /\ process.role = "hub"
    /\ gate.inFlight = 0      \* bound: one mutation at a time
    /\ Admit
    /\ UNCHANGED << stores, content, unsynced, process, crashes, nextId, hub, wire, pc, arg, req >>

FinishWrite ==
    /\ gate.inFlight > 0
    /\ Release
    /\ \/ UNCHANGED << content, unsynced >>
       \/ /\ content < MaxWrites
          /\ content' = content + 1
          /\ unsynced' = unsynced \union {content'}
    /\ UNCHANGED << stores, process, crashes, nextId, hub, wire, pc, arg, req >>

\* The acknowledgement worker of a standalone daemon.
SyncAck(g) ==
    /\ Serving /\ process.role = "hub"
    /\ unsynced' = unsynced \ {g}
    /\ UNCHANGED << gate, stores, content, process, crashes, nextId, hub, wire, pc, arg, req >>

-----------------------------------------------------------------------------
(* joinFederation, one at a time under enrollmentMu.                       *)

Reusable == local.state = "pending" /\ ~local.bound /\ ~local.started /\ local.seal = NoSeal

Join ==
    /\ Idle("join")
    /\ \/ Reusable /\ UNCHANGED << local, nextId >>
       \/ /\ Reusable \/ local.state \in {"none", "revoked"}
          /\ nextId \in Enrollments
          /\ local' = [NoLocal EXCEPT !.id = nextId, !.state = "pending"]
          /\ nextId' = nextId + 1
    /\ pc' = [pc EXCEPT !["join"] = "asked"]
    /\ arg' = [arg EXCEPT !["join"] = local'.id]
    /\ UNCHANGED << req, gate, prep, receipt, config, content, unsynced, process, crashes, hub, wire >>

\* Store.Begin: a node has one enrollment that is not revoked.
HubBegins ==
    LET e == arg["join"] IN
    /\ pc["join"] = "asked"
    /\ enroll[e] \in {"none", "pending"}
    /\ \A o \in Enrollments \ {e} : enroll[o] \in {"none", "revoked"}
    /\ enroll' = [enroll EXCEPT ![e] = "pending"]
    /\ Go("join", "bind")
    /\ OnHub /\ UNCHANGED << seals, imported >>

BindHub ==
    /\ pc["join"] = "bind"
    /\ config' = [config EXCEPT !.bound = TRUE]
    /\ Go("join", "save")
    /\ OnConfig

SaveJoined ==
    /\ pc["join"] = "save"
    /\ local' = [NoLocal EXCEPT !.id = arg["join"], !.state = "pending", !.bound = TRUE]
    /\ Return("join")
    /\ OnLocal

JoinFails == pc["join"] = "asked" /\ Return("join") /\ NoStore

\* Store.CleanupExpired forgets an enrollment nothing has pinned.
Expire(e) ==
    /\ enroll[e] = "pending"
    /\ enroll' = [enroll EXCEPT ![e] = "none"]
    /\ OnHub /\ UNCHANGED << seals, imported, pc, arg, req >>

-----------------------------------------------------------------------------
(* prepareFederationSpoke.                                                 *)

Prepare(p) ==
    /\ local.state = "pending" /\ local.bound
    /\ Begin(p, "pin")
    /\ NoStore

HubPins(p) ==
    /\ pc[p] = "pin"
    /\ enroll[arg[p]] \in {"pending", "pinned"}
    /\ enroll' = [enroll EXCEPT ![arg[p]] = "pinned"]
    /\ Go(p, "pinned")
    /\ OnHub /\ UNCHANGED << seals, imported >>

LocalIsPending(p) == local.id = arg[p] /\ local.state = "pending"

MarkLocalPreparationStarted(p) ==
    /\ pc[p] = "pinned"
    /\ IF LocalIsPending(p)
         THEN local' = [local EXCEPT !.started = TRUE] /\ Go(p, "quiesce")
         ELSE UNCHANGED local /\ Return(p)
    /\ OnLocal

Quiesce(p) ==
    /\ pc[p] = "quiesce"
    /\ IF QuiesceAccepts(arg[p])
         THEN BeginQuiesce(arg[p]) /\ Go(p, "drain")
         ELSE UNCHANGED << gate, prep >> /\ Return(p)
    /\ OnRow /\ UNCHANGED receipt

\* The first status may freeze the generation; it returns while writes drain.
Drain(p) ==
    /\ pc[p] = "drain"
    /\ Status(content)
    /\ IF gate.inFlight # 0 \/ prep'.drain = NoGeneration THEN Return(p) ELSE Go(p, "handoff")
    /\ OnRow /\ UNCHANGED receipt

\* HandoffSpokeProviderState reads the state and its receipts, and imports
\* what the receipts do not cover.
Inventory(p) ==
    /\ pc[p] = "handoff"
    /\ pc' = [pc EXCEPT ![p] = IF receipt = content THEN "handed" ELSE "import"]
    /\ req' = [req EXCEPT ![p] = SealFor(arg[p], content, 0)]
    /\ UNCHANGED arg
    /\ NoStore

\* The import is content-addressed: absent state is taken, equal state gets
\* the same receipt, different state is a conflict.
HubImports(p) ==
    /\ pc[p] = "import"
    /\ enroll[arg[p]] \in {"pending", "pinned", "active"}
    /\ imported' = Larger(imported, req[p].receipts)
    /\ Go(p, "imported")
    /\ OnHub /\ UNCHANGED << enroll, seals >>

\* A receipt for changed state conflicts with the one there is.
RecordReceipt(p) ==
    /\ pc[p] = "imported"
    /\ \/ receipt' = Larger(receipt, req[p].receipts) /\ Go(p, "handed")
       \/ receipt \notin {None, req[p].receipts} /\ UNCHANGED receipt /\ Go(p, "failed")
    /\ OnRow /\ UNCHANGED << gate, prep >>

\* A conflict or an error is reported, after a second status.
HandoffFails(p) == pc[p] = "import" /\ Go(p, "failed") /\ NoStore

UndrainedBelow ==                                                      \* mutant
    {g \in unsynced : prep.phase = "open" \/ prep.drain = NoGeneration \/ g < prep.drain}

\* CountUndrainedNotificationAcks: up to the frozen generation, if there is one.
Undrained == {g \in unsynced : prep.phase = "open" \/ prep.drain = NoGeneration \/ g <= prep.drain}

Recheck(p) ==
    /\ pc[p] \in {"handed", "failed"}
    /\ Status(content)
    /\ IF pc[p] = "failed" \/ gate.inFlight # 0 \/ Undrained # {} \/ prep'.drain = NoGeneration
         THEN Return(p)
         ELSE /\ pc' = [pc EXCEPT ![p] = "receipts"]
              /\ req' = [req EXCEPT ![p] = SealFor(arg[p], None, prep'.drain)]
              /\ UNCHANGED arg
    /\ OnRow /\ UNCHANGED receipt

ListReceipts(p) ==
    /\ pc[p] = "receipts"
    /\ pc' = [pc EXCEPT ![p] = "seal"]
    /\ req' = [req EXCEPT ![p].receipts = receipt]
    /\ UNCHANGED arg
    /\ NoStore

\* IssueSpokePreparationSeal: retry-safe, and a changed request conflicts.
HubSeals(p) ==
    LET e == arg[p] IN
    /\ pc[p] = "seal"
    /\ enroll[e] \in {"pending", "pinned", "active"}
    /\ seals[e] \in {NoSeal, req[p]}
    /\ seals' = [seals EXCEPT ![e] = req[p]]
    /\ enroll' = [enroll EXCEPT ![e] = IF @ = "pending" THEN "pinned" ELSE @]
    /\ Go(p, "store")
    /\ OnHub /\ UNCHANGED imported

\* The row is written without the gate and without looking at its binding.
StoreLocalSeal(p) ==
    /\ pc[p] = "store"
    /\ IF prep.phase \in {"quiescing", "sealed"} /\ prep.seal \in {NoSeal, req[p]}
         THEN prep' = [prep EXCEPT !.phase = "sealed", !.seal = req[p]] /\ Go(p, "save")
         ELSE UNCHANGED prep /\ Return(p)
    /\ OnRow /\ UNCHANGED << gate, receipt >>

SaveLocalPreparationSeal(p) ==
    /\ pc[p] = "save"
    /\ IF LocalIsPending(p) /\ local.started /\ local.seal \in {NoSeal, req[p]}
         THEN local' = [local EXCEPT !.seal = req[p]] /\ Go(p, "reread")
         ELSE UNCHANGED local /\ Return(p)
    /\ OnLocal

\* persistPreparedSpokeRole reads the store, then changes the configuration.
RereadLocal(p) ==
    /\ pc[p] = "reread"
    /\ IF LocalIsPending(p) /\ local.seal = req[p] THEN Go(p, "role") ELSE Return(p)
    /\ NoStore

SaveRole(p) ==
    /\ pc[p] = "role"
    /\ config' = IF config.bound THEN [config EXCEPT !.role = "spoke"] ELSE config
    /\ Return(p)
    /\ OnConfig

\* The hub is unreachable, refuses, or its answer is lost.
PrepareFails(p) == pc[p] \in {"pin", "seal"} /\ Return(p) /\ NoStore

PrepareStep(p) ==
    \/ Prepare(p) \/ HubPins(p) \/ MarkLocalPreparationStarted(p) \/ Quiesce(p)
    \/ Drain(p) \/ Inventory(p) \/ HubImports(p) \/ RecordReceipt(p)
    \/ HandoffFails(p) \/ Recheck(p) \/ ListReceipts(p) \/ HubSeals(p)
    \/ StoreLocalSeal(p) \/ SaveLocalPreparationSeal(p) \/ RereadLocal(p)
    \/ SaveRole(p) \/ PrepareFails(p)

-----------------------------------------------------------------------------
(* abortFederationSpokePreparation.                                        *)

\* An enrollment that is neither pinned nor valid any more is not sent.
Abort ==
    /\ local.state = "pending" /\ local.bound
    /\ CanAbortPreparation
    /\ \/ /\ Begin("abort", "asked")
          /\ wire' = wire \union {[kind |-> "abort", id |-> local.id, seal |-> NoSeal]}
       \/ /\ ~local.started
          /\ Begin("abort", "reopen")
          /\ UNCHANGED wire
    /\ UNCHANGED << gate, stores, content, unsynced, process, crashes, nextId, hub >>

\* Without force a hub that refuses or does not answer ends the request.
AbortUnconfirmed(force) ==
    /\ pc["abort"] \in {"asked", "refused"}
    /\ IF force THEN Go("abort", "reopenForced") ELSE Return("abort")
    /\ NoStore

ReopenWrites ==
    /\ pc["abort"] \in {"reopen", "reopenForced"}
    /\ IF CanAbortPreparation
         THEN /\ AbortPreparation /\ receipt' = None
              /\ Go("abort", IF pc["abort"] = "reopen" THEN "reset" ELSE "resetForced")
         ELSE UNCHANGED << gate, prep, receipt >> /\ Return("abort")
    /\ OnRow

ResetPreparedSpokeBinding ==
    /\ pc["abort"] \in {"reset", "resetForced"}
    /\ config' = [role |-> "hub", bound |-> FALSE]
    /\ Go("abort", IF pc["abort"] = "reset" THEN "clear" ELSE "tombstone")
    /\ OnConfig

ClearLocal ==
    /\ pc["abort"] \in {"clear", "tombstone"}
    /\ local' = IF pc["abort"] = "clear" THEN NoLocal ELSE Tombstone(arg["abort"])
    /\ Return("abort")
    /\ OnLocal

-----------------------------------------------------------------------------
(* revokeEnrollment, asked of the hub's operator: the spoke goes first.    *)

RevokeArrives ==
    /\ local.id # NoEnrollment /\ local.bound
    /\ enroll[local.id] \in {"pending", "pinned", "active"}
    /\ Begin("revoke", "mark")
    /\ NoStore

RevokeWithoutTombstone ==                                              \* mutant
    pc["revoke"] = "mark" /\ Go("revoke", "row") /\ NoStore

RevokeLocal ==
    /\ pc["revoke"] = "mark"
    /\ local' = Tombstone(arg["revoke"])
    /\ Go("revoke", "row")
    /\ OnLocal

\* The row is reset without the gate.
RevokeRow ==
    /\ pc["revoke"] = "row"
    /\ prep' = OpenRow /\ receipt' = None
    /\ Go("revoke", "answered")
    /\ OnRow /\ UNCHANGED gate

HubRevokes ==
    /\ pc["revoke"] = "answered"
    /\ enroll' = [enroll EXCEPT ![arg["revoke"]] = "revoked"]
    /\ Return("revoke")
    /\ OnHub /\ UNCHANGED << seals, imported >>

RevokeAnswerLost == pc["revoke"] = "answered" /\ Return("revoke") /\ NoStore

-----------------------------------------------------------------------------
(* The hub takes the requests on the wire, in any order, or never.         *)

Reply(h, e, waiting, answer) ==
    IF pc[h] = waiting /\ arg[h] = e THEN [pc EXCEPT ![h] = answer] ELSE pc

HubAborts(r) ==
    /\ r \in wire /\ r.kind = "abort"
    /\ wire' = wire \ {r}
    /\ IF enroll[r.id] \in {"pending", "pinned"}
         THEN /\ enroll' = [enroll EXCEPT ![r.id] = "revoked"]
              /\ pc' = Reply("abort", r.id, "asked", "reopen")
         ELSE UNCHANGED enroll /\ pc' = Reply("abort", r.id, "asked", "refused")
    /\ UNCHANGED << gate, stores, content, unsynced, process, crashes, nextId, seals, imported, arg, req >>

\* activateEnrollment: a pending enrollment needs the seal the hub issued.
Accepts(r) ==
    \/ enroll[r.id] = "active"
    \/ enroll[r.id] \in {"pending", "pinned"} /\ seals[r.id] # NoSeal /\ seals[r.id] = r.seal

HubActivates(r) ==
    /\ r \in wire /\ r.kind = "activate"
    /\ wire' = wire \ {r}
    /\ enroll' = IF Accepts(r) THEN [enroll EXCEPT ![r.id] = "active"] ELSE enroll
    /\ LET answer == IF Accepts(r) THEN "accepted" ELSE "rejected" IN
         /\ pc' = Reply("renew", r.id, "asked", answer)
         /\ process' = IF process.stage = "activating" /\ local.id = r.id
                         THEN [process EXCEPT !.stage = answer] ELSE process
    /\ UNCHANGED << gate, stores, content, unsynced, crashes, nextId, seals, imported, arg, req >>

-----------------------------------------------------------------------------
(* Restart, activateFederationSpokeAtStartup, and the lease.               *)

ActivationRequest == [kind |-> "activate", id |-> local.id, seal |-> local.seal]

SealIsTheRows ==
    /\ local.seal # NoSeal /\ local.state # "revoked" /\ config.bound
    /\ prep.phase = "sealed" /\ prep.enrollment = local.id /\ prep.seal = local.seal

Restart(readable) ==
    /\ crashes < MaxCrashes
    /\ crashes' = crashes + 1
    /\ gate' = NewGate(local.id # NoEnrollment, readable)
    /\ pc' = [h \in Handlers |-> "idle"]
    /\ arg' = [h \in Handlers |-> NoEnrollment]
    /\ req' = [p \in Prepares |-> NoSeal]
    /\ IF config.role = "spoke" /\ SealIsTheRows
         THEN /\ process' = [stage |-> "activating", role |-> "spoke", active |-> FALSE]
              /\ wire' = wire \union {ActivationRequest}
         ELSE /\ process' = [stage |-> "serving", role |-> config.role, active |-> FALSE]
              /\ UNCHANGED wire
    /\ UNCHANGED << stores, content, unsynced, nextId, hub >>

StartActive(lease) ==
    /\ local' = [local EXCEPT !.state = "active", !.lease = lease]
    /\ process' = [process EXCEPT !.stage = "serving", !.active = TRUE]

StartInactive == process' = [process EXCEPT !.stage = "serving"]

\* MarkLocalActive, or the suspension a refusal asks for; a hub that does not
\* answer leaves a spoke active for the rest of its lease.
FinishStartup ==
    /\ \/ process.stage = "accepted" /\ StartActive(TRUE)
       \/ process.stage = "rejected" /\ StartInactive /\ local' = [local EXCEPT !.lease = FALSE]
       \/ /\ process.stage = "activating"
          /\ IF local.state = "active" /\ local.lease
               THEN StartActive(TRUE) ELSE StartInactive /\ UNCHANGED local
    /\ UNCHANGED << gate, prep, receipt, config, content, unsynced, crashes, nextId, hub,
                    wire, pc, arg, req >>

LeaseExpires ==
    /\ local.lease
    /\ local' = [local EXCEPT !.lease = FALSE]
    /\ OnLocal /\ UNCHANGED << pc, arg, req >>

Renew ==
    /\ process.active /\ local.state = "active"
    /\ Begin("renew", "asked")
    /\ wire' = wire \union {ActivationRequest}
    /\ UNCHANGED << gate, stores, content, unsynced, process, crashes, nextId, hub >>

RenewFails == pc["renew"] = "asked" /\ Return("renew") /\ NoStore

\* mutant: the startup's MarkLocalActive without its check for revocation
RenewReactivating ==
    local' = IF local.id = arg["renew"] THEN [local EXCEPT !.state = "active", !.lease = TRUE] ELSE local

\* A late answer cannot revive an enrollment that was revoked meanwhile.
RenewLocalActivationLease ==
    local' = IF local.id = arg["renew"] /\ local.state = "active"
               THEN [local EXCEPT !.lease = TRUE] ELSE local

FinishRenewal ==
    /\ \/ pc["renew"] = "accepted" /\ RenewLocalActivationLease /\ UNCHANGED process
       \/ /\ pc["renew"] = "rejected"      \* renewal stops until the next start
          /\ local' = IF local.id = arg["renew"] THEN [local EXCEPT !.lease = FALSE] ELSE local
          /\ process' = [process EXCEPT !.active = FALSE]
    /\ Return("renew")
    /\ UNCHANGED << gate, prep, receipt, config, content, unsynced, crashes, nextId, hub, wire >>

-----------------------------------------------------------------------------

Next ==
    \/ AdmitWrite \/ FinishWrite \/ \E g \in unsynced : SyncAck(g)
    \/ Join \/ HubBegins \/ BindHub \/ SaveJoined \/ JoinFails
    \/ \E e \in Enrollments : Expire(e)
    \/ \E p \in Prepares : PrepareStep(p)
    \/ Abort \/ \E force \in BOOLEAN : AbortUnconfirmed(force)
    \/ ReopenWrites \/ ResetPreparedSpokeBinding \/ ClearLocal
    \/ RevokeArrives \/ RevokeLocal \/ RevokeRow \/ HubRevokes \/ RevokeAnswerLost
    \/ \E r \in wire : HubAborts(r) \/ HubActivates(r)
    \/ \E readable \in BOOLEAN : Restart(readable)
    \/ FinishStartup \/ LeaseExpires \/ Renew \/ RenewFails \/ FinishRenewal

Spec == Init /\ [][Next]_vars

-----------------------------------------------------------------------------
(* The gate and the row as a barrier, over the local provider state.       *)

\* The row is that of a preparation of the enrollment the store has.
RowIsLocals == prep.phase # "open" /\ prep.enrollment = local.id /\ local.state # "revoked"

\* A generation that was frozen for another enrollment counts for nothing.
BarrierState ==
    IF RowIsLocals /\ prep.drain # NoGeneration THEN "frozen"
    ELSE IF Admits THEN "open" ELSE "closed"

Barrier == INSTANCE WriteBarrier WITH
    Works <- {"write"},
    Values <- 0 .. MaxWrites,
    barrier <- BarrierState,
    working <- IF gate.inFlight > 0 THEN {"write"} ELSE {},
    written <- content

-----------------------------------------------------------------------------
(* Properties.                                                             *)

\* The seal of an active spoke is true, however prepares, aborts, crashes and
\* late answers interleaved since it was asked for: the hub took over at least
\* the state its receipts cover, no acknowledgement up to the generation it names
\* still waits, and no write that was admitted is under way
\* (spoke_preparation.go prepareFederationSpoke, spoke_startup.go).
SealIsTrue ==
    local.state = "active" =>
        /\ local.seal.receipts <= imported
        /\ \A g \in unsynced : g > local.seal.drain
        /\ gate.inFlight = 0

\* "Preparation stops new provider writes, waits for admitted writes and
\* deferred merges, drains notification acknowledgements, ... and seals local
\* provider writes" (docs/federated-fleet.md): a spoke that runs as active has
\* left nothing behind, neither state that the hub does not have nor an
\* acknowledgement for a worker that will not run again nor a write under way.
\* Two prepares that overlap break it: StoreLocalSpokePreparationSeal looks at
\* neither the binding of the row nor the generation it was frozen with.
NothingLeftBehind ==
    local.state = "active" =>
        /\ imported = content
        /\ unsynced = {}
        /\ gate.inFlight = 0

\* When the spoke runs as active on a live enrollment of the hub, the row, the
\* enrollment store and the hub hold the same seal, for that enrollment, and
\* provider writes are still barred.
ActivationAgrees ==
    local.state = "active" /\ process.active =>
        /\ prep.phase = "sealed" /\ prep.enrollment = local.id
        /\ prep.seal = local.seal
        /\ local.seal = seals[local.id]
        /\ ~Admits

\* Revocation is final: no late answer of the hub and no handler that began
\* before makes the enrollment usable again.
RevokedStaysRevoked ==
    [][local.state = "revoked" /\ local'.id = local.id => local'.state = "revoked"]_vars

\* Over joins, aborts, revocations, restarts and late answers, gate and row
\* implement the barrier for the enrollment the store has: the state handed over
\* to the hub after the freeze is the state there is.
IsWriteBarrier == Barrier!Spec
=============================================================================
