----------------------------- MODULE MCHandler ------------------------------
(* Small instances of the filter for TLC. *)
EXTENDS WFHandler

Val(v, plus) == [value |-> v, plus |-> plus, algorithm |-> "U"]

(* A wire with nothing set. *)
Plain == [t \in Tag |-> [d \in Direction |-> Val(0, 0)]]

MCLens == {2}
Both == {FIFO, NO_FIFO}
Fifo == {FIFO}

(* Delays of 0 to 2 ms towards the nested network, and a plain wire. *)
Delays == {Plain, [Plain EXCEPT !["DELAY"][LR] = Val(1, 1), !["DELAY"][RL] = Val(1, 0)]}

(* Four bytes take 1 ms on the interfaces; two bytes on the channel.       *)
Rates == {[Plain EXCEPT !["SPEED"][LR] = Val(4000, 0), !["SPEED"][RL] = Val(4000, 0),
                        !["BANDWIDTH"][RL] = Val(2000, 0)]}
Channel == {[Plain EXCEPT !["BANDWIDTH"][LR] = Val(4000, 0),
                          !["BANDWIDTH"][RL] = Val(2000, 0)]}

(* Losses, duplicates and noise, a small buffer and nothing beyond 2 bytes *)
(* towards the nested network.                                             *)
Lossy == {[Plain EXCEPT !["DELAY"][LR] = Val(1, 0), !["DELAY"][RL] = Val(2, 0),
                        !["DUP"][LR] = Val(50, 0), !["DUP"][RL] = Val(50, 0),
                        !["LOSS"][LR] = Val(50, 50), !["BURSTYLOSS"][LR] = Val(2, 0),
                        !["LOSS"][RL] = Val(10, 0),
                        !["MTU"][LR] = Val(2, 0), !["NOISE"][RL] = Val(8, 0),
                        !["CHANBUFSIZE"][LR] = Val(4, 0), !["CHANBUFSIZE"][RL] = Val(6, 0)]}

(* Copies that book the interface, or the channel until its buffer is full.*)
Booked == {[Plain EXCEPT !["SPEED"][RL] = Val(4000, 0), !["DUP"][RL] = Val(50, 0),
                         !["BANDWIDTH"][LR] = Val(4000, 0), !["DUP"][LR] = Val(50, 0),
                         !["CHANBUFSIZE"][LR] = Val(4, 0)]}

Steady == Rates \cup Channel \cup Lossy \cup Booked
SteadyLens == {2, 4}

(* The wire changes at any time, or stays as it is from the start. *)
AnyChange == Wires \X Wires
NoChange == {}

(* Packets doubled one way, or delays one way and a speed the other. *)
Mixed == {[Plain EXCEPT !["DUP"][RL] = Val(50, 0)],
          [Plain EXCEPT !["DELAY"][LR] = Val(1, 1), !["SPEED"][RL] = Val(2000, 0)]}
=============================================================================
