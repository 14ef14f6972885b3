--------------------------- MODULE MCPresignPool ---------------------------
(***************************************************************************)
(* The presignature pool on a small clock.  Six instants with a lease of   *)
(* two let a lease end by its length, by the request and by the material,  *)
(* and let every command arrive early, in time and late.                   *)
(***************************************************************************)
EXTENDS PresignPool

MaxTime == 6

MCTimes == 1..MaxTime

=============================================================================
