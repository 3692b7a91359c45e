--------------------------- MODULE MCEventStream ---------------------------
(* One browser and two handlers, so that an abandoned handler overlaps its *)
(* successor; the ring holds one event of up to three.                     *)
EXTENDS EventStream
=============================================================================
