------------------------- MODULE ProviderWriteGate -------------------------
(***************************************************************************)
(* The admission boundary for provider mutations while a standalone daemon *)
(* becomes a federation spoke (internal/providerplane/write_gate.go), with *)
(* the durable singleton row it is backed by                               *)
(* (internal/db/queries_spoke_preparation.go).                             *)
(*                                                                         *)
(* Every operation holds the gate's mutex from start to end, so each is    *)
(* one step.  The operators below say what they do to the gate and to the  *)
(* row; the modules that extend this one say who calls them and when.      *)
(***************************************************************************)
EXTENDS Integers

CONSTANTS
    NoGeneration,   \* drain_ack_generation is NULL
    NoEnrollment,   \* enrollment_id is empty
    NoSeal          \* preparation_digest and preparation_seal are empty

VARIABLES
    gate,   \* the ProviderWriteGate of the running process
    prep    \* the row of forge_spoke_preparation

Phases == {"open", "quiescing", "sealed"}

OpenRow == [phase |-> "open", enrollment |-> NoEnrollment,
            drain |-> NoGeneration, seal |-> NoSeal]

GateTypes == [phase : Phases, inFlight : Nat, deferredMerges : Nat, loadErr : BOOLEAN]

\* NewProviderWriteGate: counters start at zero.  Without a local enrollment
\* the durable state is not read; a read that fails keeps writes out.
NewGate(restore, readable) ==
    [phase |-> IF ~restore THEN "open"
               ELSE IF readable THEN prep.phase ELSE "quiescing",
     inFlight |-> 0, deferredMerges |-> 0,
     loadErr |-> restore /\ ~readable]

Admits == ~gate.loadErr /\ gate.phase = "open"

Admit ==
    /\ Admits
    /\ gate' = [gate EXCEPT !.inFlight = @ + 1]

Release == gate' = [gate EXCEPT !.inFlight = @ - 1]

BeginDeferredMerge ==
    /\ Admits
    /\ gate' = [gate EXCEPT !.deferredMerges = @ + 1]

ReleaseDeferredMerge == gate' = [gate EXCEPT !.deferredMerges = @ - 1]

\* A preparation that is under way only accepts its own binding.
QuiesceAccepts(e) == prep.phase = "open" \/ prep.enrollment = e

BeginQuiesce(e) ==
    /\ QuiesceAccepts(e)
    /\ prep' = IF prep.phase = "open"
                 THEN [phase |-> "quiescing", enrollment |-> e,
                       drain |-> NoGeneration, seal |-> NoSeal]
                 ELSE prep
    /\ gate' = [gate EXCEPT !.loadErr = FALSE, !.phase = prep'.phase]

CanAbortPreparation == gate.inFlight = 0 /\ gate.deferredMerges = 0

AbortPreparation ==
    /\ CanAbortPreparation
    /\ prep' = OpenRow
    /\ gate' = [gate EXCEPT !.loadErr = FALSE, !.phase = "open"]

FreezesPastMerges ==                                                       \* mutant
    prep.phase = "quiescing" /\ gate.inFlight = 0 /\ prep.drain = NoGeneration

\* The first status after the last admitted write freezes the generation.
Freezes ==
    /\ prep.phase = "quiescing"
    /\ gate.inFlight = 0 /\ gate.deferredMerges = 0
    /\ prep.drain = NoGeneration

Status(ackGeneration) ==
    /\ ~gate.loadErr
    /\ prep' = IF Freezes THEN [prep EXCEPT !.drain = ackGeneration] ELSE prep
    /\ gate' = [gate EXCEPT !.phase = prep.phase]
=============================================================================
