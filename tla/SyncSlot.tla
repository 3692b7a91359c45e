------------------------------ MODULE SyncSlot ------------------------------
(***************************************************************************)
(* What those who trigger a sync rely on (internal/github/sync.go):        *)
(* passes follow each other one at a time; what was asked for is reached   *)
(* by the pass that is due, or by the one after it, and the slot is not    *)
(* free while anything waits.  Stop forgets what waits, and once it has    *)
(* seen everything end no pass begins.                                     *)
(***************************************************************************)
CONSTANT Items   \* what a pass may be asked to reach

VARIABLES
    stage,   \* the slot: free, taken by a pass that is due, or by one under way
    next,    \* what the pass that is due will reach
    later,   \* what waits for the pass after the one that holds the slot
    life     \* on, stopping or closed

slotVars == << stage, next, later, life >>

Init ==
    /\ stage = "free" /\ next = {} /\ later = {}
    /\ life = "on"

\* A request takes a free slot, or waits; part of it may be on its way already.
Ask(R) ==
    /\ life = "on"
    /\ \/ /\ stage = "free"
          /\ stage' = "due" /\ next' = R /\ UNCHANGED later
       \/ /\ stage = "due"
          /\ \E N \in SUBSET R : next' = next \union N /\ later' = later \union (R \ N)
          /\ UNCHANGED stage
       \/ /\ stage = "passing"
          /\ later' = later \union R
          /\ UNCHANGED << stage, next >>
    /\ UNCHANGED life

\* A scheduled pass, which owes nobody anything.
Come ==
    /\ life # "closed" /\ stage = "free"
    /\ stage' = "due"
    /\ UNCHANGED << next, later, life >>

Begin ==
    /\ stage = "due"
    /\ stage' = "passing" /\ next' = {}
    /\ UNCHANGED << later, life >>

\* The slot is handed over while anything waits.
End ==
    /\ stage = "passing"
    /\ stage' \in (IF later = {} THEN {"free", "due"} ELSE {"due"})
    /\ next' = later /\ later' = {}
    /\ UNCHANGED life

\* A pass that is due is dropped only by Stop.
GiveUp ==
    /\ life = "stopping" /\ stage = "due"
    /\ stage' = "free"
    /\ UNCHANGED << next, later, life >>

Stop ==
    /\ life = "on"
    /\ life' = "stopping" /\ next' = {} /\ later' = {}
    /\ UNCHANGED stage

Close ==
    /\ life = "stopping" /\ stage = "free"
    /\ life' = "closed"
    /\ UNCHANGED << stage, next, later >>

Next ==
    \/ \E R \in SUBSET Items : Ask(R)
    \/ Come \/ Begin \/ End \/ GiveUp \/ Stop \/ Close

Spec == Init /\ [][Next]_slotVars

-----------------------------------------------------------------------------

\* The slot is free only when nothing waits, nothing waits after Stop, and a
\* closed slot stays free.
FreeIsIdle ==
    /\ stage # "due" \/ life # "on" => next = {}
    /\ stage = "free" \/ life # "on" => later = {}
    /\ life = "closed" => stage = "free"

\* What waits is put off once at most: the next pass to be due will reach it,
\* and what that pass will reach stays with it until it begins.
PutOffOnce ==
    [][life' = "on" =>
          /\ stage' = "passing" \/ next \subseteq next'
          /\ stage = "passing" /\ stage' # "passing" => later \subseteq next'
          /\ later \subseteq next' \union later']_slotVars
=============================================================================
