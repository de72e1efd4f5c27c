--------------------------- MODULE MCCronCluster ---------------------------
(***************************************************************************)
(* Two replicas for TLC, with a one-time job and an interval job.  Time    *)
(* goes on for long after the third unit only where one of the two was     *)
(* never added: there the interval job has room for three occurrences.     *)
(***************************************************************************)
EXTENDS CronCluster, TLC

CONSTANTS r1, r2, once, every

TwoReplicas == {r1, r2}
OneReplica  == {r1}
TwoJobs     == {once, every}
OneTime     == {once}
Delays      == once :> 1 @@ every :> 2

LongForOneJob == now <= 3 \/ added # Jobs
=============================================================================
