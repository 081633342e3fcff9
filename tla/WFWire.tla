------------------------------- MODULE WFWire -------------------------------
(***************************************************************************)
(* The values of the wire: what a node of the Markov chain holds for each  *)
(* tag and direction (wf_markov.c, lines 322-357), and the handlers of     *)
(* libvdeplug_wirefilter.c that decide by chance what becomes of a packet. *)
(* A random draw is the set of the values it can give.                     *)
(***************************************************************************)
EXTENDS Integers

Tag == {"DELAY", "DUP", "LOSS", "BURSTYLOSS", "MTU", "CHANBUFSIZE", "BANDWIDTH",
        "SPEED", "NOISE"}

WireValue == [value : Int, plus : Nat, algorithm : {"U", "N"}]

maxWireValue(wv) == wv.value + wv.plus
minWireValue(wv) == wv.value - wv.plus

(* The draws of computeWireValue(): within `plus' of the value, or, when   *)
(* Gaussian, in tails beyond it that are cut here at twice that.           *)
computeWireValue(wv) ==
  LET reach == IF wv.algorithm = "N" THEN 2 * wv.plus ELSE wv.plus
  IN  (wv.value - reach) .. (wv.value + reach)

-----------------------------------------------------------------------------
(* drand48() is in [0, 1): it can be below num/den unless that is 0 or     *)
(* negative, and at or above it unless that is 1 or more.  A division by   *)
(* zero is infinite, or, of zero, above nothing.                           *)
CanHit(num, den) == IF den = 0 THEN num > 0 ELSE num * den > 0
CanMiss(num, den) ==
  IF den = 0 THEN num <= 0 ELSE IF den > 0 THEN num < den ELSE num > den

Chance(num, den) == {hit \in BOOLEAN : IF hit THEN CanHit(num, den) ELSE CanMiss(num, den)}

OK_BURST     == 0
FAULTY_BURST == 1

(* Where the Gilbert model can go from a status, for a draw of the loss    *)
(* (percent) and of the burst length.                                      *)
BurstStep(status, loss, burst) ==
  IF status = OK_BURST
  THEN {IF enter THEN FAULTY_BURST ELSE OK_BURST : enter \in Chance(loss, burst * (100 - loss))}
  ELSE {IF leave THEN OK_BURST ELSE FAULTY_BURST : leave \in Chance(1, burst)}

(* mtuHandler(): the packet is let through *)
mtuHandler(wire, d, len) ==
  LET mtu == minWireValue(wire["MTU"][d]) IN ~ (mtu > 0 /\ len > mtu)

(* lossHandler(): whether the packet is let through, and the burst status  *)
(* it leaves behind                                                        *)
lossHandler(wire, d, status) ==
  LET loss  == wire["LOSS"][d]
      burst == wire["BURSTYLOSS"][d]
  IN  IF minWireValue(loss) >= 100
      THEN {[forward |-> FALSE, status |-> status]}
      ELSE IF maxWireValue(burst) > 0
      THEN {[forward |-> s = OK_BURST, status |-> s] :
              s \in UNION {BurstStep(status, l, b) : l \in computeWireValue(loss),
                                                     b \in computeWireValue(burst)}}
      ELSE {[forward |-> ~ lost, status |-> OK_BURST] :
              lost \in UNION {Chance(l, 100) : l \in computeWireValue(loss)}}

(* duplicatesHandler(): how many copies are made, cut at `max'; the loop   *)
(* ends only if some draw can miss, which no draw can at 100 %.            *)
duplicatesHandler(wire, d, max) ==
  LET dup == wire["DUP"][d]
      draws == UNION {Chance(x, 100) : x \in computeWireValue(dup)}
  IN  IF maxWireValue(dup) > 0
      THEN {k \in 0 .. max : FALSE \in draws /\ (k > 0 => TRUE \in draws)}
      ELSE {0}

(* Mutant of bufferSizeHandler: the packet itself is not counted. *)
bufferIgnoresLen(wire, d, len, used) ==
  LET size == wire["CHANBUFSIZE"][d]
  IN  IF maxWireValue(size) # 0
      THEN {used <= max : max \in computeWireValue(size)}
      ELSE {TRUE}

(* bufferSizeHandler(): the answers it can give for a packet of that       *)
(* length when `used' bytes are waiting (TRUE is FORWARD)                  *)
bufferSizeHandler(wire, d, len, used) ==
  LET size == wire["CHANBUFSIZE"][d]
  IN  IF maxWireValue(size) # 0
      THEN {used + len <= max : max \in computeWireValue(size)}
      ELSE {TRUE}

MEGA == 2 ^ 20

(* noiseHandler(): whether its loop, which goes on while a draw below      *)
(* 8 * MEGA is under a threshold, comes to an end.  The threshold is that  *)
(* of len - 2 bytes, which is unsigned and huge for one byte.  The bits it *)
(* flips change nothing the model keeps.                                   *)
noiseHandler(wire, d, len) ==
  LET noise == wire["NOISE"][d]
  IN  IF maxWireValue(noise) > 0
      THEN {x <= 0 \/ (len >= 2 /\ (len - 2) * x < MEGA) : x \in computeWireValue(noise)}
      ELSE {TRUE}

(* delayHandler(): the delays (ms) it can ask for *)
delayHandler(wire, d) ==
  LET delay == wire["DELAY"][d]
  IN  IF maxWireValue(delay) > 0
      THEN {IF x > 0 THEN x ELSE 0 : x \in computeWireValue(delay)}
      ELSE {0}

=============================================================================
