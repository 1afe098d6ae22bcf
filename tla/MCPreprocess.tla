--------------------------- MODULE MCPreprocess ---------------------------
(* Instances of Preprocess for TLC.                                        *)
EXTENDS Preprocess, TLC

CONSTANTS o1, o2, c1, c2, c3, f1, f2, f3, t1, t2

\* The first object has two channels, the second one.
Owner == [c \in Channels |-> IF c = c3 THEN o2 ELSE o1]

\* One file per channel.
Source == [f \in Files |-> CASE f = f1 -> c1 [] f = f2 -> c2 [] OTHER -> c3]

\* The first file has two frames.
Depth == [f \in Files |-> IF f = f1 THEN 2 ELSE 1]

====
