---------------------------- MODULE WriteBarrier ----------------------------
(***************************************************************************)
(* What the handoff of a standalone daemon's provider state to a hub       *)
(* relies on (internal/providerplane/write_gate.go): work that writes at   *)
(* the provider is admitted while the barrier is open, only admitted work  *)
(* writes, and the barrier is frozen once no work is left.  What is        *)
(* written is then final until the barrier is given up.                    *)
(***************************************************************************)
CONSTANTS
    Works,    \* units of work
    Values    \* what may be written

VARIABLES
    barrier,
    working,  \* work that was admitted and has not ended
    written

barrierVars == << barrier, working, written >>

Init ==
    /\ barrier = "open" /\ working = {}
    /\ written \in Values

Admit(w) ==
    /\ barrier = "open" /\ w \notin working
    /\ working' = working \cup {w}
    /\ UNCHANGED << barrier, written >>

Write ==
    /\ working # {}
    /\ written' \in Values
    /\ UNCHANGED << barrier, working >>

\* Work may end with a write.
End(w) ==
    /\ w \in working
    /\ working' = working \ {w}
    /\ written' \in Values
    /\ UNCHANGED barrier

Freeze ==
    /\ barrier = "closed" /\ working = {}
    /\ barrier' = "frozen"
    /\ UNCHANGED << working, written >>

\* The barrier closes, or opens again, whether or not work still drains; one
\* that is frozen may be given up for either.
Switch ==
    /\ barrier' \in {"open", "closed"}
    /\ UNCHANGED << working, written >>

\* The process dies with its work; a barrier that was frozen survives it.
Crash ==
    /\ working' = {}
    /\ IF barrier = "frozen" THEN UNCHANGED barrier ELSE barrier' \in {"open", "closed"}
    /\ UNCHANGED written

Next ==
    \/ \E w \in Works : Admit(w) \/ End(w)
    \/ Write \/ Freeze \/ Switch \/ Crash

Spec == Init /\ [][Next]_barrierVars

-----------------------------------------------------------------------------

\* Nothing is at work behind a frozen barrier.
FrozenIsIdle == barrier = "frozen" => working = {}

\* What is written stays as it was from the freeze on.
FrozenIsFinal == [][barrier = "frozen" => written' = written]_barrierVars
=============================================================================
