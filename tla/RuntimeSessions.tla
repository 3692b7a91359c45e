--------------------------- MODULE RuntimeSessions ---------------------------
(***************************************************************************)
(* The runtime manager's book-keeping for one workspace                    *)
(* (internal/workspace/localruntime/manager.go): the sessions it owns, the *)
(* launches under way and the markers that bar new launches while the      *)
(* workspace is being stopped.  Its maps are keyed by workspace, so one    *)
(* workspace shows every interleaving.                                     *)
(*                                                                         *)
(* A launch and the process it starts have one name: a session key is      *)
(* fresh for each launch.  Left out: a backend that refuses to stop its    *)
(* process (the code logs it and gives the process up), and Shutdown, which *)
(* the server calls when its requests and background work have ended.      *)
(***************************************************************************)
EXTENDS Integers, FiniteSets

CONSTANT Launches    \* launch requests; each stands for its session and process

VARIABLES
    stopping,   \* stoppingWS: how many hold the stop marker
    inflight,   \* inflightWS: the launches between claim and release
    sessions,   \* sessions: the processes the manager holds
    exited,     \* exited: the processes it saw exit on their own
    alive,      \* the processes that run
    launch,     \* where each launch is
    watch       \* where the watcher of each session is

manager == << stopping, inflight, sessions, exited, alive, launch, watch >>

ManagerInit ==
    /\ stopping = 0 /\ inflight = {}
    /\ sessions = {} /\ exited = {} /\ alive = {}
    /\ launch = [l \in Launches |-> "idle"]
    /\ watch = [l \in Launches |-> "none"]

MoveLaunch(l, stage) == launch' = [launch EXCEPT ![l] = stage]

-----------------------------------------------------------------------------
(* launch.                                                                 *)

ClaimInflight(l) ==
    /\ launch[l] = "checked"
    /\ IF stopping > 0
         THEN MoveLaunch(l, "done") /\ UNCHANGED inflight
         ELSE MoveLaunch(l, "claimed") /\ inflight' = inflight \union {l}
    /\ UNCHANGED << stopping, sessions, exited, alive, watch >>

StartProcess(l) ==
    /\ launch[l] = "claimed"
    /\ alive' = alive \union {l}
    /\ MoveLaunch(l, "running")
    /\ UNCHANGED << stopping, inflight, sessions, exited, watch >>

\* The command or the backend fails, or the request is canceled.
StartFails(l) ==
    /\ launch[l] = "claimed"
    /\ inflight' = inflight \ {l}
    /\ MoveLaunch(l, "done")
    /\ UNCHANGED << stopping, sessions, exited, alive, watch >>

StoreSession(l) ==
    /\ launch[l] = "running"
    /\ sessions' = sessions \union {l}
    /\ exited' = exited \ {l}
    /\ MoveLaunch(l, "stored")
    /\ UNCHANGED << stopping, inflight, alive, watch >>

ReleaseInflight(l) ==
    /\ launch[l] = "stored"
    /\ inflight' = inflight \ {l}
    /\ MoveLaunch(l, "launched")
    /\ UNCHANGED << stopping, sessions, exited, alive, watch >>

LaunchStep(l) ==
    \/ ClaimInflight(l) \/ StartProcess(l) \/ StartFails(l)
    \/ StoreSession(l) \/ ReleaseInflight(l)

-----------------------------------------------------------------------------
(* Exit and stop.                                                          *)

\* A process ends on its own; its watcher sees that later.
Exit(l) ==
    /\ l \in alive
    /\ alive' = alive \ {l}
    /\ watch' = [watch EXCEPT ![l] = "exited"]
    /\ UNCHANGED << stopping, inflight, sessions, exited, launch >>

\* watchSession runs once the session is stored; it answers only for the
\* session the map still holds.
RemoveExitedSession(l) ==
    /\ watch[l] = "exited" /\ launch[l] # "running"
    /\ IF l \in sessions
         THEN /\ sessions' = sessions \ {l}
              /\ exited' = exited \union {l}
              /\ watch' = [watch EXCEPT ![l] = "forget"]
         ELSE watch' = [watch EXCEPT ![l] = "none"] /\ UNCHANGED << sessions, exited >>
    /\ UNCHANGED << stopping, inflight, alive, launch >>

BeginStopping == stopping' = stopping + 1

EndStoppingClears == stopping' = 0                                     \* mutant
EndStopping == stopping' = IF stopping > 0 THEN stopping - 1 ELSE 0

InflightDrained == inflight = {}
=============================================================================
