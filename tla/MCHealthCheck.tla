---------------------------- MODULE MCHealthCheck ----------------------------
(* HealthCheck with the periods of a .cfg, in units of several seconds, which   *)
(* satisfy FastPath and ShortWrites.                                            *)
EXTENDS HealthCheck

ASSUME PeriodsFit == FastPath /\ ShortWrites
=============================================================================
