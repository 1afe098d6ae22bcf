------------------------------ MODULE MCWorker ------------------------------
(* Instances of Worker for TLC.                                              *)
EXTENDS Worker, TLC

CONSTANTS s1, s2, r1, r2

====
