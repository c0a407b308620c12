-------------------------- MODULE MCOrderIngestion --------------------------
(* Small instances of OrderIngestion for TLC; no symmetry, for a liveness   *)
(* property is checked.                                                     *)
EXTENDS OrderIngestion, TLC
=============================================================================
