------------------------------ MODULE MCMarkov ------------------------------
(* Small instances of the Markov chain for TLC. *)
EXTENDS WFMarkov

(* A new node, and one that delays in one direction. *)
MCZero == [tag \in {"DELAY", "MTU"} |-> [d \in {"LR", "RL"} |-> 0]]
Slow   == [MCZero EXCEPT !["DELAY"]["LR"] = 1]

MCValues == {MCZero, Slow}
MCWeights == {0, 40, 80}
MCDraws == {0, 30, 60, 100}
Some == 1 .. 3
=============================================================================
