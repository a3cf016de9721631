---------------------------- MODULE MCTimeService ----------------------------
(* Model of TimeService: the instants of a second and the faults are given *)
(* by the configurations; one tick is a millisecond.                       *)
EXTENDS TimeService
=============================================================================
