---------------------------- MODULE WorktreeLock ----------------------------
(***************************************************************************)
(* What FileLockManager promises its callers (internal/workspace/           *)
(* repolock.go): the worktrees of one bare clone have at most one mutator, *)
(* and the next begins only when the last has let go, by Unlock or because *)
(* its process died.                                                       *)
(***************************************************************************)
CONSTANT Callers

VARIABLE mutators    \* the callers that hold a handle

Init == mutators = {}

Take(c) == mutators = {} /\ mutators' = {c}

LetGo(c) == mutators = {c} /\ mutators' = {}

Next == \E c \in Callers : Take(c) \/ LetGo(c)

Spec == Init /\ [][Next]_mutators
=============================================================================
