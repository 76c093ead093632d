----------------------------- MODULE MCBundles -----------------------------
(* The instance of Bundles for TLC: a bundle of two commands, the second of *)
(* which has one target only.                                               *)
EXTENDS Bundles

CONSTANTS a1, a2, b1

Pair     == {a1, a2, b1}
PairIn   == [c \in Pair |-> 1]
PairNth  == [c \in Pair |-> IF c = a2 THEN 2 ELSE 1]
PairBy   == {<<a1, b1, a2>>, <<b1, a1, a2>>}
PairOn   == [c \in Pair |-> IF c = b1 THEN 2 ELSE 1]
First    == {a1}
=============================================================================
