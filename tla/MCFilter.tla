------------------------------ MODULE MCFilter ------------------------------
(* Small instances of the filter with its chain for TLC. *)
EXTENDS WFFilter

Val(v) == [value |-> v, plus |-> 0, algorithm |-> "U"]

(* A new node, and one that delays. *)
MCZero == [t \in Tag |-> [d \in Direction |-> Val(0)]]
Slow   == [MCZero EXCEPT !["DELAY"][LR] = Val(1)]

MCLens == {2}
MCWires == {MCZero, Slow}
MCChanges == MCWires \X MCWires
MCModes == {FIFO}
Some == 1 .. 3
MCWeights == {0, 60}
MCDraws == {0, 50, 100}
MCPeriods == {0, 1}
=============================================================================
