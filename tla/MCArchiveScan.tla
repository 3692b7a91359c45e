--------------------------- MODULE MCArchiveScan ----------------------------
(* One issue that is found, hydrated and updated while the inventories end. *)
EXTENDS ArchiveScan
=============================================================================
