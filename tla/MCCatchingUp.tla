---------------------------- MODULE MCCatchingUp ----------------------------
(* Two places where the daemon catches up with what came while it was busy  *)
(* or away.  A spoke follows the events of its hub: a provider event, the   *)
(* sync status, an event that stays on the hub and one that only a newer    *)
(* hub sends.  The sync engine takes requests during a pass: two            *)
(* repositories, two run goroutines and the ticker, so that a trigger can   *)
(* be scoped, coalesce with a pending one and meet a hand-over.  They share *)
(* no state, so a behaviour explores one of them, chosen initially, and the *)
(* state spaces add up; the other one rests as it began.                    *)
EXTENDS FederationEvents, SyncRun

VARIABLE part

CatchingInit ==
    /\ part \in {"events", "runs"}
    /\ Init /\ RunInit
    /\ part = "runs" => ~enabled
    /\ part = "events" => ~airplane

OnlyEvents == part = "events" /\ UNCHANGED << part, runVars >>
OnlyRuns   == part = "runs" /\ UNCHANGED << part, vars >>

CatchingNext ==
    \/ OnlyEvents /\ Next
    \/ OnlyRuns /\ RunNext

catchingVars == << part, vars, runVars >>

(* The fairness of the FairSpecs of FederationEvents and SyncRun.           *)
CatchingSpec ==
    /\ CatchingInit /\ [][CatchingNext]_catchingVars
    /\ WF_catchingVars(OnlyEvents /\ HandlerStep)
    /\ WF_catchingVars(OnlyEvents /\ ContextDone)
    /\ WF_catchingVars(OnlyEvents /\ ClientStep)
    /\ WF_catchingVars(OnlyEvents /\ Stop)
    /\ \A g \in Procs : WF_catchingVars(OnlyRuns /\ Pass(g))

=============================================================================
