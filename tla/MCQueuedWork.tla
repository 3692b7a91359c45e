---------------------------- MODULE MCQueuedWork ----------------------------
(* Two places where work waits while what it is about changes at the        *)
(* provider: the queue of deferred merges and the archive of a repository.  *)
(* They share no state, so a behaviour explores one of them, chosen         *)
(* initially, and the state spaces add up.                                  *)
EXTENDS DeferredMerge, TLC

CONSTANTS Issues, MergeRequests, MaxTime, MaxScans, MaxMoves

VARIABLES
    part,
    clock, updated, stored, archive, scan, item, archivePc, work, moves, early

Arch == INSTANCE ArchiveScan WITH pc <- archivePc

ASSUME ArchiveAssumption == Arch!ArchiveConstants

archiveVars == << clock, updated, stored, archive, scan, item, archivePc, work,
                  moves, early >>

MCInit ==
    /\ part \in {"merge", "archive"}
    /\ Init /\ Arch!Init
    /\ part # "archive" => \A i \in Issues \union MergeRequests : updated[i] = 0

MCNext ==
    /\ UNCHANGED part
    /\ \/ part = "merge" /\ Next /\ UNCHANGED archiveVars
       \/ part = "archive" /\ Arch!Next /\ UNCHANGED vars

MCSpec == MCInit /\ [][MCNext]_<< vars, part, archiveVars >>

Symmetry == Permutations(Handles)

-----------------------------------------------------------------------------
(* Properties, besides those of DeferredMerge. *)

\* The maintenance watermark passes no update of an item that was neither
\* stored nor queued, through pauses between pages, updates during a scan and
\* restarts (promptPages, CommitArchiveInventoryPage).
NoUpdateIsSkipped == Arch!NoUpdateIsSkipped
=============================================================================
