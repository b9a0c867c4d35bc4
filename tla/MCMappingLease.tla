--------------------------- MODULE MCMappingLease ---------------------------
(* MappingLease for the configuration with the sets of threads and rings   *)
(* named there as model values.                                            *)
EXTENDS MappingLease
=============================================================================
