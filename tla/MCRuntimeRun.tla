---------------------------- MODULE MCRuntimeRun ----------------------------
(***************************************************************************)
(* One session for TLC.  Saves fail in the short turns only: the runs in   *)
(* which some turn makes a second call have no failing save.               *)
(***************************************************************************)
EXTENDS RuntimeRun

ShortWhereSavesFail == faults = {} \/ \A t \in Turns : turn[t].calls <= 1
=============================================================================
