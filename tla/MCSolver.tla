----------------------------- MODULE MCSolver -----------------------------
(* Instances of Solver for TLC.                                            *)
EXTENDS Solver, TLC

CONSTANTS o1, o2, i1, i2, i3, i4

\* The first object has three images in two chunks, the second one image.
Owner == [i \in Images |-> IF i = i4 THEN o2 ELSE o1]

====
