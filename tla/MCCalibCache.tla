---------------------------- MODULE MCCalibCache ----------------------------
(* Instances of CalibCache for TLC.                                        *)
EXTENDS CalibCache, TLC

CONSTANTS j1, j2, j3, c1, c2, c3, c4, d1, d2, d3, d4, g1, g2

\* The first job has two channels.
Owner == [c \in Channels |-> CASE c = c3 -> j2 [] c = c4 -> j3 [] OTHER -> j1]

\* Two channels of a job share a list of two darks; the others have one of their own.
SharedDarks == [c \in Channels |-> IF c \in {c1, c2} THEN <<d1, d2>> ELSE <<d3>>]

\* One list of three darks, one of two of its files, and a dark that two jobs share.
LongDarks == [c \in Channels |-> CASE c = c1 -> <<d1, d2, d3>> [] c = c3 -> <<d1, d2>> [] OTHER -> <<d4>>]

\* Channels of two jobs share their gains.
Gains == [c \in Channels |-> IF c \in {c2, c4} THEN g2 ELSE g1]

Symmetry == Permutations(Blocks)

====
