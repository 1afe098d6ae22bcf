----------------------------- MODULE MCJobSteps -----------------------------
(* Instances of JobSteps for TLC.                                          *)
EXTENDS JobSteps, TLC

CONSTANTS j1, j2, j3, t1, t2

\* All limits are 1, so that two jobs compete for every step (QUEUED's is 2 in the code).
Tight == [s \in Limited |-> 1]

====
