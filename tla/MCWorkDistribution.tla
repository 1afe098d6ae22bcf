------------------------ MODULE MCWorkDistribution ------------------------
(* Instances of WorkDistribution for TLC.                                  *)
EXTENDS WorkDistribution, TLC

CONSTANTS p1, p2, p3, j1, j2, h1, h2

\* One job owns every patch.
OneJob == [p \in Patches |-> j1]

\* The first patch is the first job's, all others are the second job's.
TwoJobs == [p \in Patches |-> IF p = p1 THEN j1 ELSE j2]

====
