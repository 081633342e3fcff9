-------------------------- MODULE WFHandlerProofs ---------------------------
(***************************************************************************)
(* Theorems about the filter at work, for every configuration of the wire, *)
(* every change of it, any number of packets and any resolution of the     *)
(* clock; the last ones, about the buffer and the rates, for those         *)
(* configurations and changes that their hypotheses name.                  *)
(***************************************************************************)
EXTENDS WFHandler, WFQueueLemmas

(* The time a packet takes is a number of ticks. *)
LEMMA SendTimeNat ==
  ASSUME NEW len \in Nat, NEW rate \in Int, rate > 0
  PROVE  SendTime(len, rate) \in Nat
<1>1. len * 1000 * MS \in Nat
  BY TickAssumption
<1>2. \A n \in Nat : n \div rate \in Nat
  OBVIOUS
<1> QED
  BY <1>1, <1>2 DEF SendTime

(* The handlers draw numbers, whatever the configuration. *)
LEMMA DrawsAreNumbers ==
  ASSUME NEW wv \in WireValue
  PROVE  computeWireValue(wv) \subseteq Int
BY DEF WireValue, computeWireValue

(* The interface and the channel are booked ahead, never back. *)
LEMMA SpeedBooks ==
  ASSUME HandlerTypeOK, NEW d \in Direction, NEW len \in Nat,
         NEW s \in speedHandler(d, len)
  PROVE  s.delay \in Int /\ s.next \in Nat /\ s.next >= speed_next[d]
<1>1. wire["SPEED"][d] \in WireValue
  BY WiresAssumption DEF HandlerTypeOK, Tag
<1>2. computeWireValue(wire["SPEED"][d]) \subseteq Int
  BY <1>1, DrawsAreNumbers
<1>3. speed_next[d] \in Nat /\ now \in Nat
  BY DEF HandlerTypeOK
<1>4. CASE s = [delay |-> 0, next |-> speed_next[d]]
  BY <1>3, <1>4
<1>5. CASE s = Dropped(speed_next[d])
  BY <1>3, <1>5, TickAssumption DEF Dropped
<1>6. ASSUME NEW rate \in Int, rate > 0,
             s = [delay |-> SendTime(len, rate),
                  next |-> Later(speed_next[d], now) + SendTime(len, rate)]
      PROVE  s.delay \in Int /\ s.next \in Nat /\ s.next >= speed_next[d]
  <2>1. SendTime(len, rate) \in Nat
    BY <1>6, SendTimeNat
  <2> QED
    BY <1>3, <1>6, <2>1 DEF Later
<1>7. \/ s = [delay |-> 0, next |-> speed_next[d]]
      \/ s = Dropped(speed_next[d])
      \/ \E rate \in Int : /\ rate > 0
                           /\ s = [delay |-> SendTime(len, rate),
                                   next |-> Later(speed_next[d], now) + SendTime(len, rate)]
  BY <1>2 DEF speedHandler
<1> QED
  BY <1>4, <1>5, <1>6, <1>7

LEMMA BandwidthBooks ==
  ASSUME HandlerTypeOK, NEW d \in Direction, NEW len \in Nat,
         NEW s \in bandwidthHandler(d, len)
  PROVE  s.delay \in Int /\ s.next \in Nat
<1>1. wire["BANDWIDTH"][d] \in WireValue
  BY WiresAssumption DEF HandlerTypeOK, Tag
<1>2. computeWireValue(wire["BANDWIDTH"][d]) \subseteq Int
  BY <1>1, DrawsAreNumbers
<1>3. bandwidth_next[d] \in Nat /\ now \in Nat
  BY DEF HandlerTypeOK
<1> DEFINE start == Later(bandwidth_next[d], now)
<1>4. start \in Nat /\ ((start - now) \div MS) * MS \in Int
  BY <1>3, TickAssumption DEF Later
<1>5. CASE s = [delay |-> 0, next |-> bandwidth_next[d]]
  BY <1>3, <1>5
<1>6. CASE s = Dropped(bandwidth_next[d])
  BY <1>3, <1>6, TickAssumption DEF Dropped
<1>7. ASSUME NEW rate \in Int, rate > 0,
             s = [delay |-> ((start - now) \div MS) * MS + SendTime(len, rate),
                  next |-> start + SendTime(len, rate)]
      PROVE  s.delay \in Int /\ s.next \in Nat
  <2>1. SendTime(len, rate) \in Nat
    BY <1>7, SendTimeNat
  <2> HIDE DEF start
  <2> QED
    BY <1>4, <1>7, <2>1
<1>8. \/ s = [delay |-> 0, next |-> bandwidth_next[d]]
      \/ s = Dropped(bandwidth_next[d])
      \/ \E rate \in Int :
           /\ rate > 0
           /\ s = [delay |-> ((start - now) \div MS) * MS + SendTime(len, rate),
                   next |-> start + SendTime(len, rate)]
  BY <1>2 DEF bandwidthHandler
<1> QED
  BY <1>5, <1>6, <1>7, <1>8

LEMMA DelayIsNumber ==
  ASSUME HandlerTypeOK, NEW d \in Direction, NEW x \in delayHandler(wire, d)
  PROVE  x \in Int
<1>1. computeWireValue(wire["DELAY"][d]) \subseteq Int
  BY WiresAssumption, DrawsAreNumbers DEF HandlerTypeOK, Tag
<1> QED
  BY <1>1 DEF delayHandler

-----------------------------------------------------------------------------
(* The next section is one whose bit is set, or poll() when none is. *)
LEMMA NextSectionIsReported ==
  ASSUME NEW left, left \subseteq Sections
  PROVE  NextSection(left) = "POLL" \/ NextSection(left) \in left
<1>1. CASE left = {}
  BY <1>1 DEF NextSection
<1>2. CASE left # {}
  <2>1. \E s \in left :
          \/ s = "LR"
          \/ s = "RL"    /\ "LR" \notin left
          \/ s = "QUEUE" /\ left \cap {"LR", "RL"} = {}
          \/ s = "SPEED" /\ left \cap {"LR", "RL", "QUEUE"} = {}
          \/ left = {"CONTROL"}
    BY <1>2 DEF Sections
  <2> QED
    BY <1>2, <2>1 DEF NextSection
<1> QED
  BY <1>1, <1>2

LEMMA DoneMovesOn ==
  ASSUME revents \subseteq Sections, NEW section, Done(section)
  PROVE  /\ revents' = revents \ {section}
         /\ pc' = "POLL" \/ pc' \in revents'
         /\ pc' \in Sections \cup {"POLL"}
         /\ pc' # "COPIES" /\ pc' # "DRAIN"
<1>1. revents' \subseteq Sections /\ revents' = revents \ {section}
  BY DEF Done
<1>2. pc' = "POLL" \/ pc' \in revents'
  BY <1>1, NextSectionIsReported DEF Done
<1> QED
  BY <1>1, <1>2 DEF Sections

-----------------------------------------------------------------------------
(* Each action keeps the invariant of the threads. *)
LEMMA InitHandler == Init => HandlerInv
<1> SUFFICES ASSUME Init PROVE HandlerInv
  OBVIOUS
<1>1. HandlerTypeOK
  <2>1. job \in [direction : Direction, len : Nat, left : 0 .. MaxCopies + 1]
    BY HandlerBounds DEF Init, NoJob, Direction
  <2>2. /\ speed_next \in [Direction -> Nat]
        /\ bandwidth_next \in [Direction -> Nat]
        /\ burst \in [Direction -> {OK_BURST, FAULTY_BURST}]
    BY DEF Init
  <2>3. /\ send_pipe \in 0 .. PipeCap /\ nested \in 0 .. MaxOffered
        /\ offered \in 0 .. MaxOffered /\ errors \in 0 .. MaxErrors
        /\ receive_pipe \in 0 .. 1 /\ now \in Nat \ {0}
    BY HandlerBounds DEF Init
  <2> QED
    BY <2>1, <2>2, <2>3 DEF Init, HandlerTypeOK, Off
<1>2. OneAtATime
  BY DEF Init, OneAtATime
<1>3. Reported
  BY DEF Init, Reported, Off, Sections
<1> QED
  BY <1>1, <1>2, <1>3 DEF HandlerInv, Init

LEMMA PollStep == HandlerInv /\ Poll => HandlerInv'
<1> SUFFICES ASSUME HandlerInv, Poll PROVE HandlerInv'
  OBVIOUS
<1>1. revents' \subseteq Sections /\ revents' \subseteq Ready \cup {"CONTROL"}
  BY DEF Poll, Ready, Sections
<1>2. (pc' = "POLL" \/ pc' \in revents') /\ pc' # "COPIES"
  <2>1. pc' = "POLL" \/ pc' \in revents'
    BY <1>1, NextSectionIsReported DEF Poll
  <2> QED
    BY <1>1, <2>1 DEF Sections
<1>3. HandlerTypeOK'
  BY <1>1, <1>2 DEF Poll, HandlerInv, HandlerTypeOK, Sections, rateVars, recvVars, boundVars
<1>4. Reported'
  BY <1>1, <1>2 DEF Poll, HandlerInv, Reported, Ready, Expired, Sections
<1>5. OneAtATime' /\ nested' <= offered'
  BY DEF Poll, HandlerInv, OneAtATime, recvVars, boundVars
<1> QED
  BY <1>3, <1>4, <1>5 DEF HandlerInv

(* A packet that is taken is dropped, or its copies come next. *)
LEMMA AdmitOutcome ==
  ASSUME HandlerTypeOK, NEW section, NEW d \in Direction, NEW len \in Nat,
         Admit(section, d, len)
  PROVE  /\ job' \in [direction : Direction, len : Nat, left : 0 .. MaxCopies + 1]
         /\ burst' \in [Direction -> {OK_BURST, FAULTY_BURST}]
         /\ \/ Done(section)
            \/ pc' = "COPIES" /\ revents' = revents /\ job'.direction = d
<1> USE DEF HandlerTypeOK
<1>1. \A loss \in lossHandler(wire, d, burst[d]) : loss.status \in {OK_BURST, FAULTY_BURST}
  <2>1. \A l, b : BurstStep(burst[d], l, b) \subseteq {OK_BURST, FAULTY_BURST}
    BY DEF BurstStep
  <2>2. burst[d] \in {OK_BURST, FAULTY_BURST}
    OBVIOUS
  <2> QED
    BY <2>1, <2>2 DEF lossHandler
<1>2. \A k \in duplicatesHandler(wire, d, MaxCopies) : k \in 0 .. MaxCopies
  <2>1. \/ duplicatesHandler(wire, d, MaxCopies) = {0}
        \/ duplicatesHandler(wire, d, MaxCopies) \subseteq 0 .. MaxCopies
    BY Zenon DEF duplicatesHandler
  <2> QED
    BY <2>1, HandlerBounds
<1>3. CASE ~ mtuHandler(wire, d, len)
  BY <1>3 DEF Admit
<1>4. CASE mtuHandler(wire, d, len)
  <2>1. PICK loss \in lossHandler(wire, d, burst[d]) :
          /\ burst' = [burst EXCEPT ![d] = loss.status]
          /\ \/ ~ loss.forward /\ Done(section) /\ UNCHANGED job
             \/ /\ loss.forward
                /\ \E k \in duplicatesHandler(wire, d, MaxCopies) :
                     job' = [direction |-> d, len |-> len, left |-> 1 + k]
                /\ pc' = "COPIES"
                /\ UNCHANGED revents
    BY <1>4 DEF Admit
  <2>2. burst' \in [Direction -> {OK_BURST, FAULTY_BURST}]
    BY <1>1, <2>1
  <2>3. CASE Done(section) /\ UNCHANGED job
    BY <2>2, <2>3
  <2>4. CASE /\ \E k \in duplicatesHandler(wire, d, MaxCopies) :
                  job' = [direction |-> d, len |-> len, left |-> 1 + k]
             /\ pc' = "COPIES"
             /\ UNCHANGED revents
    BY <1>2, <2>2, <2>4, HandlerBounds
  <2> QED
    BY <2>1, <2>3, <2>4
<1> QED
  BY <1>3, <1>4

LEMMA TakeLRStep == HandlerInv /\ TakeLR => HandlerInv'
<1> SUFFICES ASSUME HandlerInv, TakeLR PROVE HandlerInv'
  OBVIOUS
<1> USE DEF HandlerInv
<1>1. send_pipe > 0 /\ pc = "LR" /\ revents \subseteq Sections
  BY DEF TakeLR, Reported, Sections, HandlerTypeOK
<1>2. /\ job' \in [direction : Direction, len : Nat, left : 0 .. MaxCopies + 1]
      /\ burst' \in [Direction -> {OK_BURST, FAULTY_BURST}]
      /\ Done("LR") \/ (pc' = "COPIES" /\ revents' = revents /\ job'.direction = LR)
  BY AdmitOutcome, LensAssumption DEF TakeLR, Direction
<1>3. HandlerTypeOK'
  <2>1. revents' \subseteq Sections /\ pc' \in Sections \cup {"POLL", "COPIES", "DRAIN"}
    BY <1>1, <1>2, DoneMovesOn
  <2>2. send_pipe' \in 0 .. PipeCap
    BY <1>1, HandlerBounds DEF TakeLR, HandlerTypeOK
  <2> QED
    BY <1>2, <2>1, <2>2 DEF TakeLR, HandlerTypeOK, recvVars, boundVars
<1>4. Reported'
  <2>1. CASE Done("LR")
    BY <1>1, <2>1, DoneMovesOn DEF TakeLR, Reported, Sections
  <2>2. CASE pc' = "COPIES" /\ revents' = revents /\ job'.direction = LR
    BY <1>1, <2>2 DEF TakeLR, Reported, Sections
  <2> QED
    BY <1>2, <2>1, <2>2
<1>5. OneAtATime' /\ nested' <= offered'
  BY DEF TakeLR, OneAtATime, recvVars, boundVars
<1> QED
  BY <1>3, <1>4, <1>5

LEMMA HoldRLStep == HandlerInv /\ HoldRL => HandlerInv'
<1> SUFFICES ASSUME HandlerInv, HoldRL PROVE HandlerInv'
  OBVIOUS
<1> USE DEF HandlerInv
<1>1. revents \subseteq Sections /\ Done("RL") /\ speed_next[RL] > 0 /\ speed_next[RL] \in Nat
  BY DEF HoldRL, HandlerTypeOK, Direction
<1>2. HandlerTypeOK'
  BY <1>1, DoneMovesOn DEF HoldRL, HandlerTypeOK, rateVars, recvVars, boundVars
<1>3. Reported'
  BY <1>1, DoneMovesOn DEF HoldRL, Reported, Sections, Off
<1>4. OneAtATime' /\ nested' <= offered'
  BY DEF HoldRL, OneAtATime, recvVars, boundVars
<1> QED
  BY <1>2, <1>3, <1>4

LEMMA TakeRLStep == HandlerInv /\ TakeRL => HandlerInv'
<1> SUFFICES ASSUME HandlerInv, TakeRL PROVE HandlerInv'
  OBVIOUS
<1> USE DEF HandlerInv
<1>1. nested > 0 /\ rl_enabled /\ pc = "RL" /\ revents \subseteq Sections
  BY DEF TakeRL, Reported, Sections, HandlerTypeOK
<1>2. /\ job' \in [direction : Direction, len : Nat, left : 0 .. MaxCopies + 1]
      /\ burst' \in [Direction -> {OK_BURST, FAULTY_BURST}]
      /\ Done("RL") \/ (pc' = "COPIES" /\ revents' = revents /\ job'.direction = RL)
  <2>1. CASE Done("RL") /\ UNCHANGED <<job, burst>>
    BY <2>1 DEF HandlerTypeOK
  <2>2. CASE \E len \in Lens : Admit("RL", RL, len)
    BY <2>2, AdmitOutcome, LensAssumption DEF Direction
  <2> QED
    BY <2>1, <2>2 DEF TakeRL
<1>3. nested' \in 0 .. MaxOffered /\ nested' <= offered'
  BY <1>1, HandlerBounds DEF TakeRL, HandlerTypeOK, boundVars
<1>4. HandlerTypeOK'
  <2>1. revents' \subseteq Sections /\ pc' \in Sections \cup {"POLL", "COPIES", "DRAIN"}
    BY <1>1, <1>2, DoneMovesOn
  <2> QED
    BY <1>2, <1>3, <2>1 DEF TakeRL, HandlerTypeOK, recvVars, boundVars
<1>5. Reported'
  <2>1. CASE Done("RL")
    BY <1>1, <2>1, DoneMovesOn DEF TakeRL, Reported, Sections
  <2>2. CASE pc' = "COPIES" /\ revents' = revents /\ job'.direction = RL
    BY <1>1, <2>2 DEF TakeRL, Reported, Sections
  <2> QED
    BY <1>2, <2>1, <2>2
<1>6. OneAtATime'
  BY DEF TakeRL, OneAtATime, recvVars
<1> QED
  BY <1>3, <1>4, <1>5, <1>6

LEMMA FailRLStep == HandlerInv /\ FailRL => HandlerInv'
<1> SUFFICES ASSUME HandlerInv, FailRL PROVE HandlerInv'
  OBVIOUS
<1> USE DEF HandlerInv
<1>1. errors' \in 0 .. MaxErrors
  BY HandlerBounds DEF FailRL, HandlerTypeOK
<1>2. HandlerTypeOK'
  BY <1>1 DEF FailRL, HandlerTypeOK, rateVars, recvVars
<1>3. Reported'
  BY DEF FailRL, Reported, Sections
<1>4. OneAtATime' /\ nested' <= offered'
  BY DEF FailRL, OneAtATime, recvVars
<1> QED
  BY <1>2, <1>3, <1>4

-----------------------------------------------------------------------------
(* One copy: the next packet of the queue is queued for some time or sent  *)
(* at once, and the rates are booked ahead.                                *)
LEMMA CopyOutcome ==
  ASSUME HandlerTypeOK, QueueTypeOK, Copy
  PROVE  /\ speed_next' \in [Direction -> Nat]
         /\ bandwidth_next' \in [Direction -> Nat]
         /\ speed_next'[RL] >= speed_next[RL]
         /\ \E p \in Packet, total \in Int :
              /\ p.serial = serial + 1
              /\ Queued(p, total) \/ SentAtOnce(p, total)
<1> DEFINE d == job.direction
           p == NewPacket(d, job.len)
<1>1. d \in Direction /\ job.len \in Nat
  BY DEF HandlerTypeOK
<1>2. p \in Packet /\ p.serial = serial + 1
  BY <1>1, BoundAssumption DEF NewPacket, Packet, QueueTypeOK
<1>3. PICK speed \in speedHandler(d, job.len), bandwidth \in bandwidthHandler(d, job.len),
           delay \in delayHandler(wire, d) :
        LET total == speed.delay + bandwidth.delay + delay * MS
        IN  /\ speed_next' = [speed_next EXCEPT ![d] = speed.next]
            /\ bandwidth_next' = [bandwidth_next EXCEPT ![d] = bandwidth.next]
            /\ Queued(p, total) \/ SentAtOnce(p, total)
  BY DEF Copy
<1>4. speed.delay \in Int /\ speed.next \in Nat /\ speed.next >= speed_next[d]
  BY <1>1, SpeedBooks
<1>5. bandwidth.delay \in Int /\ bandwidth.next \in Nat
  BY <1>1, BandwidthBooks
<1>6. delay \in Int
  BY <1>1, DelayIsNumber
<1>7. speed.delay + bandwidth.delay + delay * MS \in Int
  BY <1>4, <1>5, <1>6, TickAssumption
<1> HIDE DEF p, d
<1>8. speed_next' \in [Direction -> Nat] /\ bandwidth_next' \in [Direction -> Nat]
  BY <1>1, <1>3, <1>4, <1>5 DEF HandlerTypeOK
<1>9. speed_next'[RL] >= speed_next[RL]
  BY <1>1, <1>3, <1>4 DEF HandlerTypeOK, Direction
<1> QED
  BY <1>2, <1>3, <1>7, <1>8, <1>9

(* The steps of the others leave the packets in the queue alone. *)
LEMMA OthersRest ==
  ASSUME \/ Poll \/ TakeLR \/ HoldRL \/ TakeRL \/ FailRL \/ CopyDropped \/ DrainBegin
         \/ DrainEnd \/ RestoreRL \/ SendRL
         \/ SendCall \/ SendWrite \/ RecvRead \/ RecvUnlock \/ Arrive \/ Tick
         \/ UNCHANGED vars
  PROVE  UNCHANGED <<queueVars, serial, last>>
BY DEF Poll, TakeLR, HoldRL, TakeRL, FailRL, CopyDropped, DrainBegin, DrainEnd, RestoreRL,
       SendRL, SendCall, SendWrite, RecvRead, RecvUnlock, Arrive, Tick, vars, appUnchanged

(* A step of the filter is, for the queue, the next packet enqueued, one   *)
(* that passes by, one dequeued, or rest.                                  *)
LEMMA QueueSteps ==
  ASSUME OrderInv, HandlerInv, [Next]_vars
  PROVE  \/ /\ serial < MaxSerial /\ serial' = serial + 1
            /\ \E p \in Packet, t \in Int :
                 /\ p.serial = serial + 1
                 /\ enqueue(p, t)
            /\ last' = last
         \/ /\ serial < MaxSerial /\ serial' = serial + 1
            /\ fifoness = FIFO => queue = {}
            /\ UNCHANGED queueVars
            /\ last' = IF fifoness = FIFO THEN serial + 1 ELSE last
         \/ (\E n \in queue : dequeue(n) /\ Release(n)) /\ serial' = serial
         \/ /\ UNCHANGED <<queue, byte_size, max_forward_time, counter, serial, last>>
            /\ fifoness' \in {FIFO, NO_FIFO}
<1>1. CASE Copy
  <2>1. serial < MaxSerial /\ serial' = serial + 1
    BY <1>1 DEF Copy
  <2>2. PICK p \in Packet, total \in Int :
          /\ p.serial = serial + 1
          /\ Queued(p, total) \/ SentAtOnce(p, total)
    BY <1>1, CopyOutcome DEF HandlerInv, OrderInv
  <2>3. CASE Queued(p, total)
    <3>1. enqueue(p, now + total) /\ last' = last
      BY <2>3 DEF Queued
    <3>2. now + total \in Int
      BY DEF HandlerInv, HandlerTypeOK
    <3> QED
      BY <2>1, <2>2, <3>1, <3>2
  <2>4. CASE SentAtOnce(p, total)
    BY <2>1, <2>2, <2>4 DEF SentAtOnce, MustQueue
  <2> QED
    BY <2>2, <2>3, <2>4
<1>2. CASE DrainOne
  BY <1>2 DEF DrainOne
<1>3. CASE \E finished \in BOOLEAN : Control(finished)
  BY <1>3, ModesAssumption DEF Control, setFIFO, OrderInv, QueueTypeOK
<1>4. CASE UNCHANGED <<queueVars, serial, last>>
  BY <1>4 DEF queueVars, OrderInv, QueueTypeOK
<1> QED
  BY <1>1, <1>2, <1>3, <1>4, OthersRest DEF Next, Handler

LEMMA OrderStep == OrderInv /\ HandlerInv /\ [Next]_vars => OrderInv'
<1> SUFFICES ASSUME OrderInv, HandlerInv, [Next]_vars PROVE OrderInv'
  OBVIOUS
<1>1. QueueTypeOK
  BY DEF OrderInv
<1> QED
  BY <1>1, QueueSteps, EnqueueBytes, EnqueueKeepsOrder, PassingKeepsOrder,
     DequeueKeepsOrder, RestKeepsOrder

-----------------------------------------------------------------------------
LEMMA LaterGrows ==
  ASSUME NEW t \in Int, NEW n \in Int
  PROVE  Later(t, n) \in Int /\ Later(t, n + 1) \in Int /\ Later(t, n) <= Later(t, n + 1)
BY DEF Later

(* The timer that setQueueTimer sets is due by the first packet's time. *)
LEMMA TimerSet ==
  ASSUME now \in Nat \ {0}, queue' \subseteq Node, setQueueTimer
  PROVE  /\ queue_timer' \in Nat /\ queue_timer' # Off
         /\ \A m \in queue' : queue_timer' <= Later(m.forward_time, now + 1)
<1>1. PICK n \in Heads(queue') : queue_timer' = Later(n.forward_time, now + 1)
  BY DEF setQueueTimer
<1>2. \A m \in queue' : m.forward_time \in Int
  BY DEF Node
<1>3. n \in queue' /\ \A m \in queue' : n.forward_time <= m.forward_time
  BY <1>2 DEF Heads, Before
<1> QED
  BY <1>1, <1>2, <1>3 DEF Later, Off

(* The end of a copy: another one follows, or the section is done. *)
LEMMA CopyDoneOutcome ==
  ASSUME HandlerTypeOK, pc = "COPIES", CopyDone
  PROVE  /\ job' \in [direction : Direction, len : Nat, left : 0 .. MaxCopies + 1]
         /\ \/ pc' = "COPIES" /\ revents' = revents /\ job'.direction = job.direction
            \/ Done(IF job.direction = LR THEN "LR" ELSE "RL")
<1>1. CASE job.left > 1 /\ job' = [job EXCEPT !.left = @ - 1] /\ UNCHANGED <<pc, revents>>
  BY <1>1, HandlerBounds DEF HandlerTypeOK
<1>2. CASE job.left = 1 /\ job' = NoJob /\ Done(IF job.direction = LR THEN "LR" ELSE "RL")
  BY <1>2, HandlerBounds DEF NoJob, Direction
<1> QED
  BY <1>1, <1>2 DEF CopyDone

(* Once the section of the packet is done there is no copy left to make,   *)
(* and what was reported of the other section still holds.                 *)
LEMMA JobDoneReported ==
  ASSUME HandlerTypeOK, Reported, pc = "COPIES",
         Done(IF job.direction = LR THEN "LR" ELSE "RL"),
         UNCHANGED <<send_pipe, nested, rl_enabled, speed_timer>>
  PROVE  Reported'
<1>1. revents \subseteq Sections /\ job.direction \in {LR, RL}
  BY DEF HandlerTypeOK, Direction
<1>2. CASE job.direction = LR
  BY <1>1, <1>2, DoneMovesOn DEF Reported, Sections, LR, RL
<1>3. CASE job.direction = RL
  BY <1>1, <1>3, DoneMovesOn DEF Reported, Sections, LR, RL
<1> QED
  BY <1>1, <1>2, <1>3

LEMMA CopyDroppedStep == HandlerInv /\ CopyDropped => HandlerInv'
<1> SUFFICES ASSUME HandlerInv, CopyDropped PROVE HandlerInv'
  OBVIOUS
<1> USE DEF HandlerInv
<1>1. HandlerTypeOK'
  <2>1. job' \in [direction : Direction, len : Nat, left : 0 .. MaxCopies + 1]
    BY HandlerBounds DEF CopyDropped, NoJob, Direction
  <2>2. revents' \subseteq Sections /\ pc' \in Sections \cup {"POLL"}
    BY DoneMovesOn DEF CopyDropped, HandlerTypeOK
  <2> QED
    BY <2>1, <2>2 DEF CopyDropped, HandlerTypeOK, rateVars, recvVars, boundVars
<1>2. Reported'
  BY JobDoneReported DEF CopyDropped
<1>3. OneAtATime' /\ nested' <= offered'
  BY DEF CopyDropped, OneAtATime, recvVars, boundVars
<1> QED
  BY <1>1, <1>2, <1>3

LEMMA CopyStep == OrderInv /\ HandlerInv /\ OrderInv' /\ Copy => HandlerInv'
<1> SUFFICES ASSUME OrderInv, HandlerInv, OrderInv', Copy PROVE HandlerInv'
  OBVIOUS
<1> USE DEF HandlerInv
<1>1. PICK p \in Packet, total \in Int : Queued(p, total) \/ SentAtOnce(p, total)
  BY CopyOutcome DEF OrderInv
<1>2. handing' \in BOOLEAN /\ queue_timer' \in Nat
  <2>1. CASE Queued(p, total)
    <3>1. setQueueTimer /\ handing' = handing
      BY <2>1 DEF Queued
    <3> QED
      BY <3>1, TimerSet DEF OrderInv, QueueTypeOK, HandlerTypeOK
  <2>2. CASE SentAtOnce(p, total)
    BY <2>2 DEF SentAtOnce, HandOver, HandlerTypeOK
  <2> QED
    BY <1>1, <2>1, <2>2
<1>3. speed_next' \in [Direction -> Nat] /\ bandwidth_next' \in [Direction -> Nat]
  BY CopyOutcome DEF OrderInv
<1>4. pc = "COPIES" /\ CopyDone
      /\ UNCHANGED <<now, wire, rl_enabled, speed_timer, burst, sender, send_pipe,
                     nested, recvVars, boundVars>>
  BY DEF Copy
<1>5. /\ job' \in [direction : Direction, len : Nat, left : 0 .. MaxCopies + 1]
      /\ \/ pc' = "COPIES" /\ revents' = revents /\ job'.direction = job.direction
         \/ Done(IF job.direction = LR THEN "LR" ELSE "RL")
  BY <1>4, CopyDoneOutcome
<1>6. revents' \subseteq Sections /\ pc' \in Sections \cup {"POLL", "COPIES", "DRAIN"}
  BY <1>5, DoneMovesOn DEF HandlerTypeOK
<1>7. HandlerTypeOK'
  BY <1>2, <1>3, <1>4, <1>5, <1>6 DEF HandlerTypeOK, recvVars, boundVars
<1>8. Reported'
  <2>1. CASE pc' = "COPIES" /\ revents' = revents /\ job'.direction = job.direction
    BY <1>4, <2>1 DEF Reported, Sections
  <2>2. CASE Done(IF job.direction = LR THEN "LR" ELSE "RL")
    BY <1>4, <2>2, JobDoneReported
  <2> QED
    BY <1>5, <2>1, <2>2
<1>9. OneAtATime' /\ nested' <= offered'
  BY <1>4 DEF OneAtATime, recvVars, boundVars
<1> QED
  BY <1>7, <1>8, <1>9

LEMMA DrainBeginStep == HandlerInv /\ DrainBegin => HandlerInv'
<1> SUFFICES ASSUME HandlerInv, DrainBegin PROVE HandlerInv'
  OBVIOUS
<1> USE DEF HandlerInv
<1>1. HandlerTypeOK'
  BY DEF DrainBegin, HandlerTypeOK, Off, rateVars, recvVars, boundVars
<1>2. Reported'
  BY DEF DrainBegin, Reported, Sections
<1>3. OneAtATime' /\ nested' <= offered'
  BY DEF DrainBegin, OneAtATime, recvVars, boundVars
<1> QED
  BY <1>1, <1>2, <1>3

LEMMA DrainOneStep == HandlerInv /\ DrainOne => HandlerInv'
<1> SUFFICES ASSUME HandlerInv, DrainOne PROVE HandlerInv'
  OBVIOUS
<1> USE DEF HandlerInv
<1>1. HandlerTypeOK'
  BY DEF DrainOne, HandOver, HandlerTypeOK, rateVars, recvVars, boundVars
<1>2. Reported'
  BY DEF DrainOne, Reported
<1>3. OneAtATime' /\ nested' <= offered'
  BY DEF DrainOne, OneAtATime, recvVars, boundVars
<1> QED
  BY <1>1, <1>2, <1>3

LEMMA DrainEndStep == HandlerInv /\ OrderInv' /\ DrainEnd => HandlerInv'
<1> SUFFICES ASSUME HandlerInv, OrderInv', DrainEnd PROVE HandlerInv'
  OBVIOUS
<1> USE DEF HandlerInv
<1>1. queue_timer' \in Nat
  <2>1. CASE queue = {}
    BY <2>1 DEF DrainEnd, HandlerTypeOK
  <2>2. CASE queue # {}
    BY <2>2, TimerSet DEF DrainEnd, OrderInv, QueueTypeOK, HandlerTypeOK
  <2> QED
    BY <2>1, <2>2
<1>2. revents \subseteq Sections /\ Done("QUEUE")
  BY DEF DrainEnd, HandlerTypeOK
<1>3. HandlerTypeOK'
  BY <1>1, <1>2, DoneMovesOn DEF DrainEnd, HandlerTypeOK, rateVars, recvVars, boundVars
<1>4. Reported'
  BY <1>2, DoneMovesOn DEF DrainEnd, Reported, Sections
<1>5. OneAtATime' /\ nested' <= offered'
  BY DEF DrainEnd, OneAtATime, recvVars, boundVars
<1> QED
  BY <1>3, <1>4, <1>5

LEMMA RestoreRLStep == HandlerInv /\ RestoreRL => HandlerInv'
<1> SUFFICES ASSUME HandlerInv, RestoreRL PROVE HandlerInv'
  OBVIOUS
<1> USE DEF HandlerInv
<1>0. revents \subseteq Sections /\ Done("SPEED")
  BY DEF RestoreRL, HandlerTypeOK
<1>1. HandlerTypeOK'
  BY <1>0, DoneMovesOn DEF RestoreRL, HandlerTypeOK, Off, rateVars, recvVars, boundVars
<1>2. Reported'
  BY <1>0, DoneMovesOn DEF RestoreRL, Reported, Sections, Off
<1>3. OneAtATime' /\ nested' <= offered'
  BY DEF RestoreRL, OneAtATime, recvVars, boundVars
<1> QED
  BY <1>1, <1>2, <1>3

LEMMA ControlStep ==
  ASSUME NEW finished \in BOOLEAN
  PROVE  HandlerInv /\ Control(finished) => HandlerInv'
<1> SUFFICES ASSUME HandlerInv, Control(finished) PROVE HandlerInv'
  OBVIOUS
<1> USE DEF HandlerInv
<1>0. /\ revents \subseteq Sections
      /\ Done("CONTROL") \/ UNCHANGED <<pc, revents>>
  BY DEF Control, HandlerTypeOK
<1>1. HandlerTypeOK'
  BY <1>0, DoneMovesOn DEF Control, HandlerTypeOK, rateVars, recvVars, boundVars
<1>2. Reported'
  BY <1>0, DoneMovesOn DEF Control, Reported, Sections
<1>3. OneAtATime' /\ nested' <= offered'
  BY DEF Control, OneAtATime, recvVars, boundVars
<1> QED
  BY <1>1, <1>2, <1>3

LEMMA SendRLStep == HandlerInv /\ SendRL => HandlerInv'
<1> SUFFICES ASSUME HandlerInv, SendRL PROVE HandlerInv'
  OBVIOUS
<1> USE DEF HandlerInv
<1>0. receive_pipe = 0 /\ receiver = FALSE
  BY DEF SendRL, OneAtATime, HandlerTypeOK
<1>1. HandlerTypeOK'
  <2>1. receive_pipe' \in 0 .. 1 /\ errors' \in 0 .. MaxErrors
    BY <1>0, HandlerBounds DEF SendRL, HandlerTypeOK
  <2>2. receive_lock' \in BOOLEAN /\ handing' \in BOOLEAN
    BY Zenon DEF SendRL
  <2> QED
    BY <2>1, <2>2 DEF SendRL, HandlerTypeOK, rateVars, boundVars
<1>2. Reported'
  BY DEF SendRL, Reported
<1>3. OneAtATime' /\ nested' <= offered'
  BY DEF SendRL, OneAtATime, HandlerTypeOK, boundVars
<1> QED
  BY <1>1, <1>2, <1>3

-----------------------------------------------------------------------------
(* The steps of the application, of the nested network and of the clock. *)
LEMMA SendCallStep == HandlerInv /\ SendCall => HandlerInv'
<1> SUFFICES ASSUME HandlerInv, SendCall PROVE HandlerInv'
  OBVIOUS
<1> USE DEF HandlerInv
<1>1. HandlerTypeOK'
  BY HandlerBounds
     DEF SendCall, HandlerTypeOK, Later, Direction, appUnchanged, threadVars, rateVars,
         recvVars, boundVars
<1>2. Reported'
  BY DEF SendCall, Reported, appUnchanged, threadVars,
         rateVars, recvVars, boundVars
<1>3. OneAtATime' /\ nested' <= offered'
  BY DEF SendCall, OneAtATime, HandlerTypeOK, appUnchanged, threadVars,
         rateVars, recvVars, boundVars
<1> QED
  BY <1>1, <1>2, <1>3

LEMMA SendWriteStep == HandlerInv /\ SendWrite => HandlerInv'
<1> SUFFICES ASSUME HandlerInv, SendWrite PROVE HandlerInv'
  OBVIOUS
<1> USE DEF HandlerInv
<1>1. HandlerTypeOK'
  BY HandlerBounds DEF SendWrite, HandlerTypeOK, Off, appUnchanged, threadVars,
                      rateVars, recvVars, boundVars
<1>2. Reported'
  BY DEF SendWrite, Reported, HandlerTypeOK, appUnchanged, threadVars,
         rateVars, recvVars, boundVars
<1>3. OneAtATime' /\ nested' <= offered'
  BY DEF SendWrite, OneAtATime, appUnchanged, threadVars,
         rateVars, recvVars, boundVars
<1> QED
  BY <1>1, <1>2, <1>3

LEMMA RecvReadStep == HandlerInv /\ RecvRead => HandlerInv'
<1> SUFFICES ASSUME HandlerInv, RecvRead PROVE HandlerInv'
  OBVIOUS
<1> USE DEF HandlerInv
<1>1. HandlerTypeOK'
  BY DEF RecvRead, HandlerTypeOK, appUnchanged, threadVars,
         rateVars, recvVars, boundVars
<1>2. Reported'
  BY DEF RecvRead, Reported, appUnchanged, threadVars,
         rateVars, recvVars, boundVars
<1>3. OneAtATime' /\ nested' <= offered'
  BY DEF RecvRead, OneAtATime, HandlerTypeOK, appUnchanged, threadVars,
         rateVars, recvVars, boundVars
<1> QED
  BY <1>1, <1>2, <1>3

LEMMA RecvUnlockStep == HandlerInv /\ RecvUnlock => HandlerInv'
<1> SUFFICES ASSUME HandlerInv, RecvUnlock PROVE HandlerInv'
  OBVIOUS
<1> USE DEF HandlerInv
<1>1. HandlerTypeOK'
  BY DEF RecvUnlock, HandlerTypeOK, appUnchanged, threadVars,
         rateVars, recvVars, boundVars
<1>2. Reported'
  BY DEF RecvUnlock, Reported, appUnchanged, threadVars,
         rateVars, recvVars, boundVars
<1>3. OneAtATime' /\ nested' <= offered'
  BY DEF RecvUnlock, OneAtATime, HandlerTypeOK, appUnchanged, threadVars,
         rateVars, recvVars, boundVars
<1> QED
  BY <1>1, <1>2, <1>3

LEMMA ArriveStep == HandlerInv /\ Arrive => HandlerInv'
<1> SUFFICES ASSUME HandlerInv, Arrive PROVE HandlerInv'
  OBVIOUS
<1> USE DEF HandlerInv
<1>1. HandlerTypeOK'
  BY HandlerBounds DEF Arrive, HandlerTypeOK, appUnchanged, threadVars,
                      rateVars, recvVars, boundVars
<1>2. Reported'
  BY DEF Arrive, Reported, HandlerTypeOK, appUnchanged, threadVars,
         rateVars, recvVars, boundVars
<1>3. OneAtATime' /\ nested' <= offered'
  BY DEF Arrive, OneAtATime, HandlerTypeOK, appUnchanged, threadVars,
         rateVars, recvVars, boundVars
<1> QED
  BY <1>1, <1>2, <1>3

LEMMA TickStep == HandlerInv /\ Tick => HandlerInv'
<1> SUFFICES ASSUME HandlerInv, Tick PROVE HandlerInv'
  OBVIOUS
<1> USE DEF HandlerInv
<1>1. HandlerTypeOK'
  BY DEF Tick, HandlerTypeOK, threadVars, rateVars, recvVars, boundVars
<1>2. Reported'
  BY DEF Tick, Reported, threadVars
<1>3. OneAtATime' /\ nested' <= offered'
  BY DEF Tick, OneAtATime, recvVars, boundVars
<1> QED
  BY <1>1, <1>2, <1>3

LEMMA HandlerStep == OrderInv /\ HandlerInv /\ OrderInv' /\ [Next]_vars => HandlerInv'
<1> SUFFICES ASSUME OrderInv, HandlerInv, OrderInv', [Next]_vars PROVE HandlerInv'
  OBVIOUS
<1>1. CASE Handler
  BY <1>1, PollStep, TakeLRStep, HoldRLStep, TakeRLStep, FailRLStep, CopyDroppedStep, CopyStep,
     DrainBeginStep, DrainOneStep, DrainEndStep, RestoreRLStep, ControlStep, SendRLStep
     DEF Handler
<1>2. CASE UNCHANGED vars
  BY <1>2 DEF vars, threadVars, rateVars, recvVars, boundVars, HandlerInv, HandlerTypeOK,
              Reported, OneAtATime
<1> QED
  BY <1>1, <1>2, SendCallStep, SendWriteStep, RecvReadStep, RecvUnlockStep, ArriveStep,
     TickStep DEF Next

-----------------------------------------------------------------------------
LEMMA InitOrder == Init => OrderInv
  BY BoundAssumption, ModesAssumption
     DEF Init, initQueue, OrderInv, QueueTypeOK, Numbered, KeysInOrder, KeysBounded,
         CounterBounded, LastLeft, FifoNodes

(* The keys of the queue and the report of poll() are what the rest of the *)
(* module builds on (packetHandlerThread, handlePacket, vde_send,          *)
(* vde_recv).                                                              *)
THEOREM FilterInvariant == Spec => [](OrderInv /\ HandlerInv)
<1>1. Init => OrderInv /\ HandlerInv
  BY InitOrder, InitHandler
<1>2. OrderInv /\ HandlerInv /\ [Next]_vars => (OrderInv /\ HandlerInv)'
  BY OrderStep, HandlerStep
<1> QED
  BY <1>1, <1>2, PTL DEF Spec

(* Type correctness of the filter: no pipe is read when it is empty or     *)
(* written beyond its room.                                                *)
THEOREM TypeCorrect == Spec => []TypeOK
<1>1. OrderInv /\ HandlerInv => TypeOK
  BY DEF OrderInv, HandlerInv, TypeOK
<1> QED
  BY <1>1, FilterInvariant, PTL

(* The sections of the loop find what poll() reported, whatever the other  *)
(* threads and the sections before them have done since.                   *)
THEOREM StillReadyKept == Spec => []StillReady
<1>1. HandlerInv => StillReady
  BY DEF HandlerInv, Reported, StillReady, Sections
<1> QED
  BY <1>1, FilterInvariant, PTL

(* The lock that one thread takes and another releases keeps the packets   *)
(* in the pipe to vde_recv apart.                                          *)
THEOREM OneAtATimeKept == Spec => []OneAtATime
<1>1. HandlerInv => OneAtATime
  BY DEF HandlerInv
<1> QED
  BY <1>1, FilterInvariant, PTL

(* The whole filter keeps the promise of FIFO mode, with packets sent past *)
(* the queue and the mode changed at any time (handlePacket, enqueue).     *)
THEOREM FifoOrderKept == Spec => FifoOrder
<1>1. Init => Wire!Init
  BY DEF Init, initQueue, Wire!Init, Waiting, FifoNodes
<1>2. OrderInv /\ HandlerInv /\ [Next]_vars => [Wire!Next]_(Wire!wireVars)
  <2> SUFFICES ASSUME OrderInv, HandlerInv, [Next]_vars
               PROVE  Wire!Next \/ UNCHANGED Wire!wireVars
    OBVIOUS
  <2> QED
    BY QueueSteps, EnqueueAccepts, PassingAccepts, DequeueDelivers, RestIsStutter
       DEF Wire!Next
<1> QED
  BY <1>1, <1>2, FilterInvariant, PTL DEF Spec, FifoOrder, Wire!Spec

-----------------------------------------------------------------------------
(* The timer of the queue.                                                 *)
LEMMA TimerStep ==
  ASSUME OrderInv, HandlerInv, OrderInv', HandlerInv', TimerArmed, [Next]_vars
  PROVE  TimerArmed'
<1>1. /\ now \in Nat \ {0} /\ now' \in Nat
      /\ queue' \subseteq Node
      /\ \A n \in queue : n.forward_time \in Int
  BY DEF HandlerInv, HandlerTypeOK, OrderInv, QueueTypeOK, Node
<1>2. CASE Copy
  <2>1. PICK p \in Packet, total \in Int : Queued(p, total) \/ SentAtOnce(p, total)
    BY <1>2, CopyOutcome DEF OrderInv, HandlerInv
  <2>2. now' = now /\ pc = "COPIES"
    BY <1>2 DEF Copy
  <2>3. CASE Queued(p, total)
    BY <1>1, <2>2, <2>3, TimerSet DEF Queued, TimerArmed
  <2>4. CASE SentAtOnce(p, total)
    BY <2>2, <2>4 DEF SentAtOnce, TimerArmed, queueVars
  <2> QED
    BY <2>1, <2>3, <2>4
<1>3. CASE DrainEnd
  <2>1. now' = now /\ queue' = queue
    BY <1>3 DEF DrainEnd, queueVars
  <2>2. CASE queue = {}
    BY <2>1, <2>2 DEF TimerArmed
  <2>3. CASE queue # {}
    BY <1>1, <1>3, <2>1, <2>3, TimerSet DEF DrainEnd, TimerArmed
  <2> QED
    BY <2>2, <2>3
<1>4. CASE DrainBegin \/ DrainOne
  BY <1>4 DEF DrainBegin, DrainOne, TimerArmed
<1>5. CASE Tick
  <2>1. UNCHANGED <<pc, queue, queue_timer>> /\ now' = now + 1
    BY <1>5 DEF Tick, threadVars, queueVars
  <2>2. queue_timer \in Nat
    BY DEF HandlerInv, HandlerTypeOK
  <2>3. \A t \in Int : /\ Later(t, now + 1) \in Int /\ Later(t, (now + 1) + 1) \in Int
                        /\ Later(t, now + 1) <= Later(t, (now + 1) + 1)
    <3> TAKE t \in Int
    <3>1. now + 1 \in Int
      BY <1>1
    <3> QED
      BY <3>1, LaterGrows
  <2> QED
    BY <1>1, <2>1, <2>2, <2>3 DEF TimerArmed
<1>6. CASE Poll \/ TakeLR \/ HoldRL \/ TakeRL \/ FailRL \/ CopyDropped \/ RestoreRL
  <2>1. pc # "DRAIN" /\ UNCHANGED <<queue, queue_timer, now>>
    BY <1>6 DEF Poll, TakeLR, HoldRL, TakeRL, FailRL, CopyDropped, RestoreRL, queueVars
  <2> QED
    BY <2>1 DEF TimerArmed
<1>7. CASE \E finished \in BOOLEAN : Control(finished)
  <2>1. pc # "DRAIN" /\ UNCHANGED <<queue, queue_timer, now>>
    BY <1>7 DEF Control, setFIFO
  <2> QED
    BY <2>1 DEF TimerArmed
<1>8. CASE \/ SendRL \/ SendCall \/ SendWrite \/ RecvRead \/ RecvUnlock \/ Arrive
           \/ UNCHANGED vars
  <2>1. UNCHANGED <<pc, queue, queue_timer, now>>
    BY <1>8 DEF SendRL, SendCall, SendWrite, RecvRead, RecvUnlock, Arrive, vars,
                appUnchanged, threadVars, queueVars
  <2> QED
    BY <2>1 DEF TimerArmed
<1> QED
  BY <1>2, <1>3, <1>4, <1>5, <1>6, <1>7, <1>8 DEF Next, Handler

(* A packet in the queue always has a timer that leads to its release:     *)
(* setQueueTimer is called wherever the queue or the timer changes.        *)
THEOREM TimerArmedKept == Spec => []TimerArmed
<1>1. Init => TimerArmed
  BY DEF Init, initQueue, TimerArmed
<1> QED
  BY <1>1, TimerStep, FilterInvariant, PTL DEF Spec

-----------------------------------------------------------------------------
(* The input from the nested network.                                      *)
LEMMA InputStep ==
  ASSUME OrderInv, HandlerInv, HandlerInv', InputRestored, [Next]_vars
  PROVE  InputRestored'
<1>1. /\ now \in Nat /\ speed_timer \in Nat
      /\ speed_next[RL] \in Nat
      /\ now' \in Nat /\ speed_next'[RL] \in Nat
  BY DEF HandlerInv, HandlerTypeOK, Direction
<1>2. CASE HoldRL
  <2>1. speed_timer' = speed_next[RL] /\ speed_next' = speed_next /\ now' = now
        /\ speed_next[RL] > now
    BY <1>2 DEF HoldRL, rateVars
  <2> QED
    BY <1>1, <2>1 DEF InputRestored, Later, Off
<1>3. CASE RestoreRL
  BY <1>3 DEF RestoreRL, InputRestored
<1>4. ASSUME UNCHANGED <<rl_enabled, speed_timer>>, now' >= now,
             speed_next'[RL] >= speed_next[RL]
      PROVE  InputRestored'
  BY <1>1, <1>4 DEF InputRestored, Later
<1>5. CASE Copy
  <2>1. speed_next'[RL] >= speed_next[RL]
    BY <1>5, CopyOutcome DEF HandlerInv, OrderInv
  <2>2. UNCHANGED <<rl_enabled, speed_timer>> /\ now' = now
    BY <1>5 DEF Copy
  <2> QED
    BY <1>1, <1>4, <2>1, <2>2
<1>6. CASE Tick
  BY <1>1, <1>4, <1>6 DEF Tick, threadVars, rateVars
<1>7. CASE \/ Poll \/ TakeLR \/ TakeRL \/ FailRL \/ CopyDropped
           \/ DrainBegin \/ DrainOne \/ DrainEnd \/ SendRL
           \/ \E finished \in BOOLEAN : Control(finished)
           \/ SendCall \/ SendWrite \/ RecvRead \/ RecvUnlock \/ Arrive
           \/ UNCHANGED vars
  <2>1. UNCHANGED <<rl_enabled, speed_timer, now, speed_next>>
    BY <1>7 DEF Poll, TakeLR, TakeRL, FailRL, CopyDropped, DrainBegin, DrainOne, DrainEnd,
                Control, SendRL, SendCall, SendWrite, RecvRead, RecvUnlock, Arrive, vars,
                appUnchanged, threadVars, rateVars
  <2> QED
    BY <1>1, <1>4, <2>1
<1> QED
  BY <1>2, <1>3, <1>5, <1>6, <1>7 DEF Next, Handler

(* Input that is suspended has a timer to restore it, for no later than    *)
(* the interface is free, however the wire changes meanwhile               *)
(* (packetHandlerThread, speedHandler).                                    *)
THEOREM InputRestoredKept == Spec => []InputRestored
<1>1. Init => InputRestored
  BY DEF Init, InputRestored
<1> QED
  BY <1>1, InputStep, FilterInvariant, PTL DEF Spec

-----------------------------------------------------------------------------
(* The queue may keep a packet longer than asked for, never shorter.       *)
NotBeforeDue == \A n \in queue : n.due <= n.forward_time

LEMMA DueStep ==
  ASSUME OrderInv, HandlerInv, NotBeforeDue, [Next]_vars
  PROVE  NotBeforeDue'
<1>1. ASSUME NEW p \in Packet, NEW t \in Int, enqueue(p, t)
      PROVE  NotBeforeDue'
  BY <1>1 DEF enqueue, Insert, NotBeforeDue, OrderInv, QueueTypeOK
<1>2. ASSUME NEW n \in queue, dequeue(n)
      PROVE  NotBeforeDue'
  BY <1>2 DEF dequeue, NotBeforeDue
<1>3. ASSUME UNCHANGED queue
      PROVE  NotBeforeDue'
  BY <1>3 DEF NotBeforeDue
<1> QED
  BY <1>1, <1>2, <1>3, QueueSteps DEF queueVars

LEMMA LeavesWhenDue ==
  ASSUME OrderInv, HandlerInv, NotBeforeDue, [Next]_vars
  PROVE  \A n \in queue \ queue' : n.due <= now
<1>1. CASE DrainOne
  <2>1. PICK m \in queue : m.forward_time < now /\ queue' = queue \ {m}
    BY <1>1 DEF DrainOne, dequeue
  <2>2. m.due <= m.forward_time /\ m.due \in Int /\ m.forward_time \in Int /\ now \in Int
    BY DEF NotBeforeDue, OrderInv, QueueTypeOK, Node, HandlerInv, HandlerTypeOK
  <2> QED
    BY <2>1, <2>2
<1>2. CASE Copy
  <2>1. PICK p \in Packet, total \in Int : Queued(p, total) \/ SentAtOnce(p, total)
    BY <1>2, CopyOutcome DEF OrderInv, HandlerInv
  <2>2. queue \subseteq queue'
    BY <2>1 DEF Queued, SentAtOnce, enqueue, Insert, queueVars
  <2> QED
    BY <2>2
<1>3. CASE \E finished \in BOOLEAN : Control(finished)
  BY <1>3 DEF Control, setFIFO
<1>4. CASE UNCHANGED <<queueVars, serial, last>>
  BY <1>4 DEF queueVars
<1> QED
  BY <1>1, <1>2, <1>3, <1>4, OthersRest DEF Next, Handler

(* No packet leaves the queue before the time its delays ask for           *)
(* (handlePacket, enqueue, the drain of the queue).                        *)
THEOREM NoEarlyKept == Spec => NoEarly
<1>1. Init => NotBeforeDue
  BY DEF Init, initQueue, NotBeforeDue
<1>2. Spec => []NotBeforeDue
  BY <1>1, DueStep, FilterInvariant, PTL DEF Spec
<1>3. OrderInv /\ HandlerInv /\ NotBeforeDue /\ [Next]_vars
        => [\A n \in queue \ queue' : n.due <= now]_vars
  BY LeavesWhenDue
<1> QED
  BY <1>2, <1>3, FilterInvariant, PTL DEF Spec, NoEarly

-----------------------------------------------------------------------------
(* The counters of the bytes that wait.                                    *)
LEMMA BytesStep ==
  ASSUME OrderInv, HandlerInv, BytesInv, [Next]_vars
  PROVE  BytesInv'
BY QueueSteps, EnqueueKeepsBytes, DequeueKeepsBytes, RestKeepsBytes DEF OrderInv, queueVars

LEMMA BytesInvariant == Spec => []BytesInv
<1>1. Init => BytesInv
  BY EmptyHasNoBytes DEF Init, initQueue
<1> QED
  BY <1>1, BytesStep, FilterInvariant, PTL DEF Spec

(* The counters that the limit of the buffer is checked against are the    *)
(* bytes of the packets in the queue, in each direction (enqueue,          *)
(* dequeue).                                                               *)
THEOREM ByteSizeAlwaysExact == Spec => []ByteSizeExact
<1>1. OrderInv /\ BytesInv => ByteSizeExact
  BY BytesExact DEF OrderInv, QueueTypeOK
<1> QED
  BY <1>1, BytesInvariant, FilterInvariant, PTL

-----------------------------------------------------------------------------
(* The buffer.  Its draws do not go beyond its maximum, as Gaussian ones   *)
(* may; and no change of the wire makes it smaller, for then it holds what *)
(* it held.                                                                *)
BufferDraws ==
  \A w \in Wires, d \in Direction :
    LET size == w["CHANBUFSIZE"][d] IN size.algorithm = "U" \/ size.plus = 0

BufferNeverShrinks ==
  \A c \in Changes, d \in Direction :
    LET old == maxWireValue(c[1]["CHANBUFSIZE"][d])
        new == maxWireValue(c[2]["CHANBUFSIZE"][d])
    IN  new > 0 => old > 0 /\ old <= new

(* A packet that is queued has found room.                                 *)
LEMMA RoomFound ==
  ASSUME BufferDraws, HandlerTypeOK, NEW d \in Direction, NEW len, NEW used,
         used + len \in Int,
         TRUE \in bufferSizeHandler(wire, d, len, used),
         maxWireValue(wire["CHANBUFSIZE"][d]) > 0
  PROVE  used + len <= maxWireValue(wire["CHANBUFSIZE"][d])
<1> DEFINE size == wire["CHANBUFSIZE"][d]
<1>1. size \in WireValue /\ (size.algorithm = "U" \/ size.plus = 0)
  BY WiresAssumption DEF HandlerTypeOK, Tag, BufferDraws
<1>2. maxWireValue(size) \in Int /\ maxWireValue(size) # 0
  BY <1>1 DEF maxWireValue, WireValue
<1>3. TRUE \in {used + len <= max : max \in computeWireValue(size)}
  BY <1>2, Zenon DEF bufferSizeHandler
<1>4. PICK max \in computeWireValue(size) : used + len <= max
  BY <1>3, Zenon
<1>5. max \in Int /\ max <= maxWireValue(size)
  BY <1>1 DEF computeWireValue, maxWireValue, WireValue
<1> HIDE DEF size
<1>6. used + len <= maxWireValue(size)
  BY <1>2, <1>4, <1>5
<1> QED
  BY <1>6 DEF size

(* What a copy does to the bytes that wait: nothing, or room was found.    *)
LEMMA CopyBytes ==
  ASSUME HandlerTypeOK, QueueTypeOK, Copy
  PROVE  \/ byte_size' = byte_size
         \/ /\ byte_size' = [byte_size EXCEPT ![job.direction] = @ + job.len]
            /\ TRUE \in bufferSizeHandler(wire, job.direction, job.len,
                                          byte_size[job.direction])
<1> DEFINE p == NewPacket(job.direction, job.len)
<1>1. \E total : Queued(p, total) \/ SentAtOnce(p, total)
  BY DEF Copy
<1>2. p.direction = job.direction /\ p.len = job.len
  BY DEF NewPacket
<1> HIDE DEF p
<1> QED
  BY <1>1, <1>2 DEF Copy, Queued, SentAtOnce, enqueue, Insert, queueVars

LEMMA BufferStep ==
  ASSUME BufferDraws, BufferNeverShrinks,
         OrderInv, HandlerInv, OrderInv', HandlerInv', BufferRespected, [Next]_vars
  PROVE  BufferRespected'
<1> DEFINE Limit(w, d) == maxWireValue(w["CHANBUFSIZE"][d])
<1>1. HandlerTypeOK /\ QueueTypeOK /\ QueueTypeOK'
  BY DEF HandlerInv, OrderInv
<1>2. byte_size \in [Direction -> Int] /\ byte_size' \in [Direction -> Int]
  BY <1>1 DEF QueueTypeOK
<1>3. \A w \in Wires, d \in Direction : Limit(w, d) \in Int
  BY WiresAssumption DEF Tag, WireValue, maxWireValue
<1>4. wire \in Wires /\ wire' \in Wires
  BY DEF HandlerInv, HandlerTypeOK
<1>5. \A d \in Direction : Limit(wire, d) > 0 => byte_size[d] <= Limit(wire, d)
  BY DEF BufferRespected
<1> SUFFICES ASSUME NEW d \in Direction, Limit(wire', d) > 0
             PROVE  byte_size'[d] <= Limit(wire', d)
  BY DEF BufferRespected
<1>6. ASSUME wire' = wire, byte_size'[d] <= byte_size[d]
      PROVE  byte_size'[d] <= Limit(wire', d)
  <2> HIDE DEF Limit
  <2> QED
    BY <1>2, <1>3, <1>4, <1>5, <1>6
<1>7. CASE Copy
  <2>1. wire' = wire
    BY <1>7 DEF Copy
  <2>2. CASE byte_size' = byte_size
    BY <1>2, <1>6, <2>1, <2>2
  <2>3. CASE /\ byte_size' = [byte_size EXCEPT ![job.direction] = @ + job.len]
             /\ TRUE \in bufferSizeHandler(wire, job.direction, job.len,
                                           byte_size[job.direction])
    <3>1. job.direction \in Direction /\ job.len \in Nat
      BY <1>1 DEF HandlerTypeOK
    <3>2. CASE d = job.direction
      <4>1. byte_size'[d] = byte_size[d] + job.len /\ byte_size'[d] \in Int
        BY <1>2, <2>3, <3>1, <3>2
      <4>2. byte_size[d] + job.len <= Limit(wire, d)
        BY <1>1, <2>1, <2>3, <3>2, <4>1, RoomFound
      <4> QED
        BY <2>1, <4>1, <4>2
    <3>3. CASE d # job.direction
      BY <1>2, <1>6, <2>1, <2>3, <3>3
    <3> QED
      BY <3>2, <3>3
  <2> QED
    BY <1>1, <1>7, <2>2, <2>3, CopyBytes
<1>8. CASE DrainOne
  <2>1. wire' = wire
    BY <1>8 DEF DrainOne
  <2>2. PICK n \in queue : dequeue(n)
    BY <1>8 DEF DrainOne
  <2>3. n.packet.len \in Nat
    BY <1>1 DEF QueueTypeOK, Node, Packet
  <2>4. byte_size'[d] <= byte_size[d]
    BY <1>2, <2>2, <2>3 DEF dequeue
  <2> QED
    BY <1>6, <2>1, <2>4
<1>9. CASE \E finished \in BOOLEAN : Control(finished)
  <2>1. byte_size' = byte_size /\ (wire' = wire \/ <<wire, wire'>> \in Changes)
    BY <1>9 DEF Control, setFIFO
  <2>2. CASE wire' = wire
    BY <1>2, <1>6, <2>1, <2>2
  <2>3. CASE <<wire, wire'>> \in Changes
    <3>1. Limit(wire, d) > 0 /\ Limit(wire, d) <= Limit(wire', d)
      BY <2>3 DEF BufferNeverShrinks
    <3> HIDE DEF Limit
    <3> QED
      BY <1>2, <1>3, <1>4, <1>5, <2>1, <3>1
  <2> QED
    BY <2>1, <2>2, <2>3
<1>10. CASE /\ UNCHANGED <<queueVars, serial, last>>
            /\ wire' = wire
  BY <1>2, <1>6, <1>10 DEF queueVars
<1>11. [Next]_vars => Copy \/ DrainOne \/ (\E finished \in BOOLEAN : Control(finished))
                      \/ wire' = wire
  BY DEF Next, Handler, Poll, TakeLR, HoldRL, TakeRL, FailRL, CopyDropped, DrainBegin,
         DrainEnd, RestoreRL, SendRL, SendCall, SendWrite, RecvRead, RecvUnlock, Arrive,
         Tick, vars, appUnchanged
<1> QED
  BY <1>7, <1>8, <1>9, <1>10, <1>11, OthersRest DEF Next, Handler

(* The bytes waiting in a direction fit the buffer set for it, whatever    *)
(* the delays draw and whatever is queued by FIFO mode alone: the check is *)
(* of the bytes that wait and the packet's own (bufferSizeHandler,         *)
(* enqueue).                                                               *)
THEOREM BufferAlwaysRespected ==
  BufferDraws /\ BufferNeverShrinks => (Spec => []BufferRespected)
<1> SUFFICES ASSUME BufferDraws, BufferNeverShrinks PROVE Spec => []BufferRespected
  OBVIOUS
<1>1. Init => BufferRespected
  <2> SUFFICES ASSUME Init PROVE BufferRespected
    OBVIOUS
  <2>1. wire \in Wires /\ \A d \in Direction : byte_size[d] = 0
    BY DEF Init, initQueue
  <2>2. \A d \in Direction : maxWireValue(wire["CHANBUFSIZE"][d]) \in Int
    BY <2>1, WiresAssumption DEF Tag, WireValue, maxWireValue
  <2> QED
    BY <2>1, <2>2 DEF BufferRespected
<1>2. /\ OrderInv /\ HandlerInv /\ BufferRespected /\ [Next]_vars
      /\ OrderInv' /\ HandlerInv'
      => BufferRespected'
  BY BufferStep
<1> QED
  BY <1>1, <1>2, FilterInvariant, PTL DEF Spec

-----------------------------------------------------------------------------
LEMMA SlowerTakesLonger ==
  ASSUME NEW len \in Nat, NEW fast \in Int, NEW slow \in Int, 0 < slow, slow <= fast
  PROVE  SendTime(len, fast) <= SendTime(len, slow)
<1> DEFINE a == len * 1000 * MS
           q == a \div fast
<1>1. a \in Nat
  BY TickAssumption
<1> HIDE DEF a
<1>2. q \in Nat /\ q * fast <= a
  BY <1>1, DivAtMost
<1> HIDE DEF q
<1>3. slow * q <= fast * q
  BY <1>2, TimesGrows
<1>4. q * slow <= a
  BY <1>1, <1>2, <1>3
<1>5. q <= a \div slow
  BY <1>1, <1>2, <1>4, DivAtLeast
<1> QED
  BY <1>5 DEF SendTime, a, q

-----------------------------------------------------------------------------
(* The interface towards the application.  Its speed is not drawn at       *)
(* random, and no change of the wire makes it faster or takes away its     *)
(* duplicates, for then the time already booked was that of a slower one.  *)
Copies(w) == IF maxWireValue(w["DUP"][RL]) > 0 THEN MaxCopies + 1 ELSE 1
Speed(w) == w["SPEED"][RL].value

SpeedDrawsNone == \A w \in Wires : w["SPEED"][RL].plus = 0

SpeedNeverRises ==
  \A c \in Changes :
    Speed(c[2]) > 0 => /\ Speed(c[1]) >= Speed(c[2])
                       /\ Copies(c[1]) <= Copies(c[2])

(* While the copies of a packet are made, the time booked is that of the   *)
(* copies made so far.                                                     *)
BookedForCopies ==
  pc = "COPIES" /\ job.direction = RL =>
    /\ job.len \in Lens /\ job.left <= Copies(wire)
    /\ Speed(wire) > 0 =>
         speed_next[RL] <= now + (Copies(wire) - job.left) * SendTime(job.len, Speed(wire))

PacedInv ==
  /\ Speed(wire) > 0 =>
       \E len \in Lens : speed_next[RL] <= now + Copies(wire) * SendTime(len, Speed(wire))
  /\ BookedForCopies

LEMMA PacedTypes ==
  ASSUME HandlerTypeOK, SpeedDrawsNone
  PROVE  /\ wire["SPEED"][RL] \in WireValue /\ wire["SPEED"][RL].plus = 0
         /\ Speed(wire) \in Int /\ Copies(wire) \in Nat
         /\ Speed(wire) > 0 => \A len \in Lens : SendTime(len, Speed(wire)) \in Nat
         /\ speed_next[RL] \in Nat /\ now \in Nat
<1>1. wire \in Wires /\ speed_next[RL] \in Nat /\ now \in Nat
  BY DEF HandlerTypeOK, Direction
<1>2. wire["SPEED"][RL] \in WireValue /\ wire["SPEED"][RL].plus = 0
  BY <1>1, WiresAssumption DEF Tag, Direction, SpeedDrawsNone
<1>3. Speed(wire) \in Int /\ Copies(wire) \in Nat
  BY <1>2, HandlerBounds DEF Speed, Copies, WireValue
<1>4. Speed(wire) > 0 => \A len \in Lens : SendTime(len, Speed(wire)) \in Nat
  BY <1>3, LensAssumption, SendTimeNat
<1> QED
  BY <1>1, <1>2, <1>3, <1>4

(* A packet is taken when the interface is free. *)
LEMMA TakeRLPaced ==
  ASSUME HandlerInv, HandlerTypeOK', SpeedDrawsNone, PacedInv, TakeRL
  PROVE  PacedInv'
<1> USE DEF HandlerInv
<1>1. UNCHANGED <<wire, now, speed_next>> /\ speed_next[RL] <= now
  BY DEF TakeRL
<1>2. CASE Done("RL")
  <2>1. pc' # "COPIES"
    BY <1>2, DoneMovesOn DEF HandlerTypeOK
  <2> QED
    BY <1>1, <2>1 DEF PacedInv, BookedForCopies
<1>3. ASSUME NEW len \in Lens, Admit("RL", RL, len)
      PROVE  PacedInv'
  <2>1. CASE Done("RL")
    BY <1>2, <2>1
  <2>2. CASE \E k \in duplicatesHandler(wire, RL, MaxCopies) :
               job' = [direction |-> RL, len |-> len, left |-> 1 + k]
    <3>1. PICK k \in duplicatesHandler(wire, RL, MaxCopies) :
            job' = [direction |-> RL, len |-> len, left |-> 1 + k]
      BY <2>2
    <3>2. k \in Nat /\ 1 + k <= Copies(wire)
      <4>1. CASE maxWireValue(wire["DUP"][RL]) > 0
        <5>1. duplicatesHandler(wire, RL, MaxCopies) \subseteq 0 .. MaxCopies
          BY <4>1, Zenon DEF duplicatesHandler
        <5> QED
          BY <4>1, <5>1, HandlerBounds DEF Copies
      <4>2. CASE ~ (maxWireValue(wire["DUP"][RL]) > 0)
        <5>1. duplicatesHandler(wire, RL, MaxCopies) = {0}
          BY <4>2, Zenon DEF duplicatesHandler
        <5> QED
          BY <4>2, <5>1 DEF Copies
      <4> QED
        BY <4>1, <4>2
    <3>3. Speed(wire) > 0 =>
            speed_next[RL] <= now + (Copies(wire) - (1 + k)) * SendTime(len, Speed(wire))
      <4> SUFFICES ASSUME Speed(wire) > 0
                   PROVE speed_next[RL]
                           <= now + (Copies(wire) - (1 + k)) * SendTime(len, Speed(wire))
        OBVIOUS
      <4>1. \A m, t \in Nat : m * t \in Nat
        OBVIOUS
      <4>2. Copies(wire) - (1 + k) \in Nat /\ SendTime(len, Speed(wire)) \in Nat
        BY <3>2, PacedTypes
      <4>3. (Copies(wire) - (1 + k)) * SendTime(len, Speed(wire)) \in Nat
        BY <4>1, <4>2
      <4>4. speed_next[RL] \in Nat /\ now \in Nat
        BY PacedTypes
      <4> QED
        BY <1>1, <4>3, <4>4
    <3>4. job'.len = len /\ job'.left = 1 + k /\ wire' = wire
      BY <1>1, <3>1
    <3>5. BookedForCopies'
      BY <1>1, <3>2, <3>3, <3>4 DEF BookedForCopies
    <3> QED
      BY <1>1, <3>5 DEF PacedInv
  <2> QED
    BY <1>3, <2>1, <2>2, Zenon DEF Admit
<1> QED
  BY <1>2, <1>3 DEF TakeRL

(* A copy books the time of one more. *)
LEMMA CopyPaced ==
  ASSUME HandlerInv, SpeedDrawsNone, PacedInv, Copy
  PROVE  PacedInv'
<1> USE DEF HandlerInv
<1> DEFINE c == Copies(wire)
           v == Speed(wire)
<1>1. wire' = wire /\ now' = now /\ pc = "COPIES" /\ job.direction \in Direction
  BY DEF Copy, HandlerTypeOK
<1>0. CopyDone /\ HandlerTypeOK
  BY DEF Copy
<1>2. PICK speed \in speedHandler(job.direction, job.len) :
        speed_next' = [speed_next EXCEPT ![job.direction] = speed.next]
  BY DEF Copy
<1>3. CASE job.direction = LR
  <2>1. speed_next'[RL] = speed_next[RL]
    BY <1>0, <1>2, <1>3 DEF HandlerTypeOK, Direction, LR, RL
  <2>2. ~ (pc' = "COPIES" /\ job'.direction = RL)
    <3>1. CASE Done(IF job.direction = LR THEN "LR" ELSE "RL")
      BY <1>0, <3>1, DoneMovesOn DEF HandlerTypeOK
    <3>2. CASE job'.direction = job.direction
      BY <1>3, <3>2 DEF LR, RL
    <3> QED
      BY <1>0, <1>1, <3>1, <3>2, CopyDoneOutcome
  <2> QED
    BY <1>1, <2>1, <2>2 DEF PacedInv, BookedForCopies
<1>4. CASE job.direction = RL
  <2>1. /\ job.len \in Lens /\ job.left <= c /\ job.left \in Nat /\ c \in Nat
        /\ v > 0 => speed_next[RL] <= now + (c - job.left) * SendTime(job.len, v)
    BY <1>1, <1>4, PacedTypes DEF PacedInv, BookedForCopies, HandlerTypeOK
  <2>2. v > 0 => /\ speed_next'[RL] = Later(speed_next[RL], now) + SendTime(job.len, v)
                 /\ SendTime(job.len, v) \in Nat
    <3> SUFFICES ASSUME v > 0
                 PROVE  /\ speed_next'[RL] = Later(speed_next[RL], now) + SendTime(job.len, v)
                        /\ SendTime(job.len, v) \in Nat
      OBVIOUS
    <3>1. /\ computeWireValue(wire["SPEED"][RL]) = {v}
          /\ maxWireValue(wire["SPEED"][RL]) > 0 /\ v \in Int
      BY PacedTypes DEF Speed, computeWireValue, maxWireValue, WireValue
    <3>2. speed.next = Later(speed_next[RL], now) + SendTime(job.len, v)
      BY <1>4, <3>1 DEF speedHandler
    <3> QED
      BY <1>2, <1>4, <2>1, <3>2, PacedTypes DEF HandlerTypeOK, Direction
  <2>3. job.left >= 1
    BY <1>0, <2>1 DEF CopyDone
  <2>4. v > 0 => speed_next'[RL] <= now + (c - (job.left - 1)) * SendTime(job.len, v)
    <3> SUFFICES ASSUME v > 0
                 PROVE  speed_next'[RL] <= now + (c - (job.left - 1)) * SendTime(job.len, v)
      OBVIOUS
    <3> DEFINE T == SendTime(job.len, v)
               m == c - job.left
    <3>1. m \in Nat /\ T \in Nat /\ c - (job.left - 1) = m + 1
      BY <2>1, <2>2
    <3>2. speed_next[RL] \in Nat /\ now \in Nat
      BY PacedTypes
    <3>3. speed_next[RL] <= now + m * T /\ speed_next'[RL] = Later(speed_next[RL], now) + T
      BY <2>1, <2>2
    <3> HIDE DEF T, m
    <3>4. m * T \in Nat /\ (m + 1) * T = m * T + T
      BY <3>1
    <3>5. speed_next'[RL] <= now + (m + 1) * T
      BY <3>1, <3>2, <3>3, <3>4 DEF Later
    <3> QED
      BY <3>1, <3>5 DEF T
  <2>5. v > 0 => speed_next'[RL] <= now + c * SendTime(job.len, v)
    <3> SUFFICES ASSUME v > 0
                 PROVE  speed_next'[RL] <= now + c * SendTime(job.len, v)
      OBVIOUS
    <3> DEFINE T == SendTime(job.len, v)
               m == c - (job.left - 1)
    <3>1. m \in Nat /\ T \in Nat /\ m <= c /\ c \in Nat
      BY <2>1, <2>2, <2>3
    <3>2. speed_next'[RL] <= now + m * T
      BY <2>4
    <3>3. speed_next'[RL] \in Nat /\ now \in Nat
      BY <2>2, PacedTypes DEF Later
    <3> HIDE DEF T, m, c
    <3>4. m * T <= c * T /\ m * T \in Nat /\ c * T \in Nat
      BY <3>1, TimesGrows
    <3>5. speed_next'[RL] <= now + c * T
      BY <3>2, <3>3, <3>4
    <3> QED
      BY <3>5 DEF T
  <2>6. BookedForCopies'
    <3>1. CASE job.left > 1 /\ job' = [job EXCEPT !.left = @ - 1]
      <4>1. job'.len = job.len /\ job'.left = job.left - 1
        BY <3>1 DEF HandlerTypeOK
      <4> HIDE DEF c, v
      <4>2. /\ job'.len \in Lens /\ job'.left <= c
            /\ v > 0 => speed_next'[RL] <= now + (c - job'.left) * SendTime(job'.len, v)
        BY <2>1, <2>4, <4>1
      <4> QED
        BY <1>1, <4>2 DEF BookedForCopies, c, v
    <3>2. CASE Done(IF job.direction = LR THEN "LR" ELSE "RL")
      BY <3>2, DoneMovesOn DEF HandlerTypeOK, BookedForCopies
    <3> QED
      BY <1>0, <3>1, <3>2 DEF CopyDone
  <2> QED
    BY <1>1, <2>1, <2>5, <2>6 DEF PacedInv
<1> QED
  BY <1>1, <1>3, <1>4 DEF Direction

(* Every step of the filter. *)
LEMMA PacedStep ==
  ASSUME SpeedDrawsNone, SpeedNeverRises, OrderInv, HandlerInv, HandlerInv', PacedInv,
         [Next]_vars
  PROVE  PacedInv'
<1>1. CASE TakeRL
  BY <1>1, TakeRLPaced DEF HandlerInv
<1>2. CASE Copy
  BY <1>2, CopyPaced
<1>3. CASE TakeLR
  <2>1. UNCHANGED <<wire, now, speed_next>>
    BY <1>3 DEF TakeLR
  <2>2. ~ (pc' = "COPIES" /\ job'.direction = RL)
    <3>1. PICK len \in Lens : Admit("LR", LR, len)
      BY <1>3 DEF TakeLR
    <3>2. Done("LR") \/ job'.direction = LR
      BY <3>1, AdmitOutcome, LensAssumption DEF HandlerInv, Direction
    <3> QED
      BY <3>2, DoneMovesOn DEF HandlerInv, HandlerTypeOK, LR, RL
  <2> QED
    BY <2>1, <2>2 DEF PacedInv, BookedForCopies
<1>4. CASE Poll \/ HoldRL \/ FailRL \/ CopyDropped \/ DrainBegin \/ DrainEnd \/ RestoreRL
  <2>1. UNCHANGED <<wire, now, speed_next>>
    BY <1>4 DEF Poll, HoldRL, FailRL, CopyDropped, DrainBegin, DrainEnd, RestoreRL, rateVars
  <2>2. pc' # "COPIES"
    <3>1. CASE Poll
      BY <3>1, NextSectionIsReported DEF Poll, Ready, Sections
    <3>2. CASE FailRL \/ DrainBegin
      BY <3>2 DEF FailRL, DrainBegin
    <3>3. CASE HoldRL \/ CopyDropped \/ DrainEnd \/ RestoreRL
      BY <3>3, DoneMovesOn DEF HoldRL, CopyDropped, DrainEnd, RestoreRL, HandlerInv,
                               HandlerTypeOK
    <3> QED
      BY <1>4, <3>1, <3>2, <3>3
  <2> QED
    BY <2>1, <2>2 DEF PacedInv, BookedForCopies
<1>5. CASE \/ DrainOne \/ SendRL \/ SendCall \/ SendWrite \/ RecvRead \/ RecvUnlock \/ Arrive
           \/ UNCHANGED vars
  BY <1>5 DEF DrainOne, SendRL, SendCall, SendWrite, RecvRead, RecvUnlock, Arrive, vars,
              appUnchanged, threadVars, rateVars, PacedInv, BookedForCopies
<1>6. CASE \E finished \in BOOLEAN : Control(finished)
  <2>1. PICK finished \in BOOLEAN : Control(finished)
    BY <1>6
  <2>2. /\ UNCHANGED <<now, speed_next>> /\ pc' # "COPIES"
        /\ wire' = wire \/ <<wire, wire'>> \in Changes
    BY <2>1, DoneMovesOn DEF Control, rateVars, HandlerInv, HandlerTypeOK
  <2>3. CASE wire' = wire
    BY <2>2, <2>3 DEF PacedInv, BookedForCopies
  <2>4. CASE <<wire, wire'>> \in Changes
    <3> SUFFICES ASSUME Speed(wire') > 0
                 PROVE  \E len \in Lens :
                          speed_next[RL] <= now + Copies(wire') * SendTime(len, Speed(wire'))
      BY <2>2 DEF PacedInv, BookedForCopies
    <3>1. Speed(wire) >= Speed(wire') /\ Copies(wire) <= Copies(wire')
      BY <2>4 DEF SpeedNeverRises
    <3>2. Speed(wire') \in Int /\ Copies(wire') \in Nat
      <4>1. wire' \in Wires
        BY DEF HandlerInv, HandlerTypeOK
      <4> QED
        BY <4>1, WiresAssumption, HandlerBounds DEF Tag, Direction, Speed, Copies, WireValue
    <3>3. /\ Speed(wire) \in Int /\ Copies(wire) \in Nat
          /\ speed_next[RL] \in Nat /\ now \in Nat
      BY PacedTypes DEF HandlerInv
    <3>4. PICK len \in Lens :
            speed_next[RL] <= now + Copies(wire) * SendTime(len, Speed(wire))
      BY <3>1, <3>2, <3>3 DEF PacedInv
    <3> DEFINE s == SendTime(len, Speed(wire))
               t == SendTime(len, Speed(wire'))
    <3>5. len \in Nat /\ s \in Nat /\ t \in Nat /\ s <= t
      <4>1. len \in Nat
        BY LensAssumption
      <4>2. Speed(wire) > 0
        BY <3>1, <3>2, <3>3
      <4>3. s \in Nat
        BY <3>3, <4>1, <4>2, SendTimeNat
      <4>4. t \in Nat
        BY <3>2, <4>1, SendTimeNat
      <4>5. s <= t
        BY <3>1, <3>2, <3>3, <4>1, SlowerTakesLonger
      <4> HIDE DEF s, t
      <4> QED
        BY <4>1, <4>3, <4>4, <4>5
    <3> HIDE DEF s, t
    <3>6. Copies(wire) * s <= Copies(wire) * t
      <4>1. s * Copies(wire) <= t * Copies(wire)
        BY <3>3, <3>5, TimesGrows
      <4> QED
        BY <3>3, <3>5, <4>1
    <3>7. Copies(wire) * t <= Copies(wire') * t
      BY <3>1, <3>2, <3>3, <3>5, TimesGrows
    <3>8. /\ Copies(wire) * s \in Nat /\ Copies(wire) * t \in Nat
          /\ Copies(wire') * t \in Nat
      BY <3>2, <3>3, <3>5
    <3>9. speed_next[RL] <= now + Copies(wire) * s
      BY <3>4 DEF s
    <3>10. speed_next[RL] <= now + Copies(wire') * t
      BY <3>3, <3>6, <3>7, <3>8, <3>9
    <3> QED
      BY <3>10 DEF t
  <2> QED
    BY <2>2, <2>3, <2>4
<1>7. CASE Tick
  <2>1. UNCHANGED <<wire, pc, job, speed_next>> /\ now' = now + 1
    BY <1>7 DEF Tick, threadVars, rateVars
  <2>2. /\ now \in Nat /\ speed_next[RL] \in Nat
        /\ Copies(wire) \in Nat /\ job.left \in Nat
        /\ Speed(wire) > 0 => \A len \in Lens : SendTime(len, Speed(wire)) \in Nat
    BY PacedTypes DEF HandlerInv, HandlerTypeOK
  <2>3. \A a, b, c, t \in Nat, e \in Int : t <= a + e * b => t <= (a + 1) + e * b
    OBVIOUS
  <2> QED
    BY <2>1, <2>2, <2>3 DEF PacedInv, BookedForCopies
<1> QED
  BY <1>1, <1>2, <1>3, <1>4, <1>5, <1>6, <1>7 DEF Next, Handler

(* The interface towards the application is never booked for more than the *)
(* time of the copies of one packet: reception really stops for that time  *)
(* (speedHandler, the section of the loop for RL packets).                 *)
THEOREM ReceptionPaced ==
  SpeedDrawsNone /\ SpeedNeverRises => (Spec => []PacedRL)
<1> SUFFICES ASSUME SpeedDrawsNone, SpeedNeverRises PROVE Spec => []PacedRL
  OBVIOUS
<1>1. Init => PacedInv
  <2> SUFFICES ASSUME Init PROVE PacedInv
    OBVIOUS
  <2>1. HandlerTypeOK /\ speed_next[RL] = 0 /\ pc = "POLL"
    BY InitHandler DEF Init, HandlerInv, Direction
  <2>2. /\ Copies(wire) \in Nat /\ now \in Nat
        /\ Speed(wire) > 0 => \A len \in Lens : SendTime(len, Speed(wire)) \in Nat
    BY <2>1, PacedTypes
  <2>3. \A a, b, c \in Nat : 0 <= a + b * c
    OBVIOUS
  <2> QED
    BY <2>1, <2>2, <2>3, LensAssumption DEF PacedInv, BookedForCopies
<1>2. /\ OrderInv /\ HandlerInv /\ PacedInv /\ [Next]_vars
      /\ OrderInv' /\ HandlerInv'
      => PacedInv'
  BY PacedStep
<1>3. HandlerInv /\ PacedInv => PacedRL
  <2> SUFFICES ASSUME HandlerInv, PacedInv PROVE PacedRL
    OBVIOUS
  <2> QED
    BY DEF PacedInv, PacedRL, Paced, Speed, Copies
<1> QED
  BY <1>1, <1>2, <1>3, FilterInvariant, PTL DEF Spec

-----------------------------------------------------------------------------
-----------------------------------------------------------------------------
(* The time that the bytes of a node take on the channel at so many bytes  *)
(* per second; and for several nodes, no more than for all their bytes     *)
(* together.                                                               *)
Times(rate) == [n \in Node |-> SendTime(n.packet.len, rate)]

LEMMA TimesNat ==
  ASSUME NEW n \in Node, NEW rate \in Int, rate > 0
  PROVE  Times(rate)[n] = SendTime(n.packet.len, rate) /\ Times(rate)[n] \in Nat
<1>1. n.packet.len \in Nat
  BY DEF Node, Packet
<1> QED
  BY <1>1, SendTimeNat DEF Times

LEMMA TimesAddUp ==
  ASSUME NEW l \in Nat, NEW m \in Nat, NEW rate \in Int, rate > 0
  PROVE  SendTime(l, rate) + SendTime(m, rate) <= SendTime(l + m, rate)
<1> DEFINE a == l * 1000 * MS
           b == m * 1000 * MS
           p == a \div rate
           q == b \div rate
<1>1. a \in Nat /\ b \in Nat /\ (l + m) * 1000 * MS = a + b
  BY TickAssumption
<1> HIDE DEF a, b
<1>2. p \in Int /\ q \in Int /\ p * rate <= a /\ q * rate <= b
  BY <1>1, DivAtMost
<1> HIDE DEF p, q
<1>3. (p + q) * rate = p * rate + q * rate
  BY <1>2
<1>4. p * rate \in Int /\ q * rate \in Int
  BY <1>2
<1>5. (p + q) * rate <= a + b
  BY <1>1, <1>2, <1>3, <1>4
<1>6. p + q <= (a + b) \div rate
  BY <1>1, <1>2, <1>5, DivAtLeast
<1> QED
  BY <1>1, <1>6 DEF SendTime, a, b, p, q

LEMMA TimesTogether ==
  ASSUME NEW S \in SUBSET Node, IsFiniteSet(S), NEW rate \in Int, rate > 0
  PROVE  Total(Length, S) \in Nat /\ Total(Times(rate), S) <= SendTime(Total(Length, S), rate)
<1> DEFINE w == Times(rate)
           T == {s \in SUBSET S : /\ Total(Length, s) \in Nat /\ Total(w, s) \in Nat
                                  /\ Total(w, s) <= SendTime(Total(Length, s), rate)}
<1>1. ASSUME NEW s \in SUBSET S, \A x \in s : s \ {x} \in T
      PROVE  s \in T
  <2>1. CASE s = {}
    <3>1. Total(Length, s) = 0 /\ Total(w, s) = 0
      BY <2>1, TotalEmpty
    <3>2. SendTime(0, rate) \in Nat
      BY SendTimeNat
    <3> HIDE DEF w
    <3> QED
      BY <3>1, <3>2
  <2>2. CASE s # {}
    <3>1. PICK x \in s : TRUE
      BY <2>2
    <3>2. IsFiniteSet(s) /\ \A y \in s : Length[y] \in Int /\ w[y] \in Int
      BY FS_Subset, LengthIsInt, TimesNat
    <3> DEFINE l == Total(Length, s \ {x})
               t == Total(w, s \ {x})
    <3>3. l \in Nat /\ t \in Nat /\ t <= SendTime(l, rate)
      BY <1>1
    <3>4. Length[x] \in Nat /\ w[x] \in Nat /\ w[x] = SendTime(Length[x], rate)
      BY TimesNat DEF Length, Node, Packet
    <3>5. Total(Length, s) = Length[x] + l /\ Total(w, s) = w[x] + t
      <4> HIDE DEF w
      <4> QED
        BY <3>2, TotalRemove
    <3> HIDE DEF w, l, t
    <3>6. SendTime(Length[x], rate) + SendTime(l, rate) <= SendTime(Length[x] + l, rate)
      BY <3>3, <3>4, TimesAddUp
    <3>7. SendTime(Length[x] + l, rate) \in Nat /\ SendTime(l, rate) \in Nat
      BY <3>3, <3>4, SendTimeNat
    <3> QED
      BY <3>3, <3>4, <3>5, <3>6, <3>7
  <2> QED
    BY <2>1, <2>2
<1>2. T = SUBSET S
  <2> HIDE DEF T
  <2>1. T \in SUBSET SUBSET S
    BY DEF T
  <2> QED
    BY <1>1, <2>1, SubsetInduction
<1> QED
  BY <1>2

-----------------------------------------------------------------------------
(* The nodes of q towards d that were numbered after s.                    *)
After(q, d, s) == {n \in q : n.packet.direction = d /\ n.packet.serial > s}

(* A channel given out until b, less the nodes numbered after s, is ahead  *)
(* of the time t by less than a millisecond.                               *)
Booked(b, t, q, d, s, rate) == b < t + MS + Total(Times(rate), After(q, d, s))

(* The nodes up to s0 do not matter any more for how far ahead the channel *)
(* is given out; each one after it keeps its place until it leaves.        *)
Places(b, t, q, d, rate, s0) ==
  /\ Booked(b, t, q, d, s0, rate)
  /\ \A n \in After(q, d, s0) : Booked(b, n.due, q, d, n.packet.serial, rate)

LEMMA AfterNat ==
  ASSUME NEW q \in SUBSET Node, IsFiniteSet(q), NEW d, NEW s, NEW rate \in Int, rate > 0
  PROVE  /\ After(q, d, s) \in SUBSET Node /\ IsFiniteSet(After(q, d, s))
         /\ Total(Times(rate), After(q, d, s)) \in Nat
<1>1. After(q, d, s) \in SUBSET Node /\ IsFiniteSet(After(q, d, s))
  BY FS_Subset DEF After
<1> DEFINE S == After(q, d, s)
           w == Times(rate)
<1>2. \A x \in S : w[x] \in Nat /\ w[x] \in Nat /\ w[x] <= w[x]
  BY <1>1, TimesNat
<1>3. Total(w, S) \in Nat
  <2> HIDE DEF S, w
  <2> QED
    BY <1>1, <1>2, TotalGrows DEF S
<1> QED
  BY <1>1, <1>3

(* A node that comes with a number above all others adds its time. *)
LEMMA AfterAdd ==
  ASSUME NEW q \in SUBSET Node, IsFiniteSet(q), NEW d, NEW s \in Int, NEW rate \in Int, rate > 0,
         NEW new \in Node, new.packet.direction = d, s < new.packet.serial,
         \A n \in q : n.packet.serial < new.packet.serial
  PROVE  Total(Times(rate), After(q \cup {new}, d, s))
           = SendTime(new.packet.len, rate) + Total(Times(rate), After(q, d, s))
<1> DEFINE S == After(q, d, s)
           w == Times(rate)
<1>1. new \notin q /\ After(q \cup {new}, d, s) = S \cup {new} /\ new \notin S
  BY DEF After, Node, Packet
<1>2. S \in SUBSET Node /\ IsFiniteSet(S)
  BY AfterNat
<1>3. \A x \in S \cup {new} : w[x] \in Int
  BY <1>2, TimesNat
<1>4. w[new] = SendTime(new.packet.len, rate)
  BY TimesNat
<1>5. Total(w, S \cup {new}) = w[new] + Total(w, S)
  <2> HIDE DEF S, w
  <2> QED
    BY <1>1, <1>2, <1>3, TotalAdd
<1> QED
  BY <1>1, <1>4, <1>5

LEMMA AfterRemove ==
  ASSUME NEW q \in SUBSET Node, NEW d, NEW n \in q, NEW s,
         ~ (n.packet.direction = d /\ n.packet.serial > s)
  PROVE  After(q \ {n}, d, s) = After(q, d, s)
BY DEF After

-----------------------------------------------------------------------------
(* A packet for which the channel is given out further, and which waits    *)
(* until nearly then.                                                      *)
LEMMA PlacesAdd ==
  ASSUME NEW q \in SUBSET Node, IsFiniteSet(q), NEW d, NEW rate \in Int, rate > 0,
         NEW b \in Nat, NEW t \in Nat, NEW s0 \in Nat, NEW sn \in Nat, s0 <= sn,
         Places(b, t, q, d, rate, s0),
         \A n \in q : n.packet.serial <= sn,
         NEW new \in Node, new.packet.direction = d, new.packet.serial = sn + 1,
         NEW c \in Int, c = Later(b, t) + SendTime(new.packet.len, rate),
         c < new.due + MS
  PROVE  \E s \in 0 .. sn : Places(c, t, q \cup {new}, d, rate, s)
<1> DEFINE r == q \cup {new}
           T == SendTime(new.packet.len, rate)
<1>1. T \in Nat /\ MS \in Nat \ {0} /\ r \in SUBSET Node /\ IsFiniteSet(r)
  <2>1. new.packet.len \in Nat
    BY DEF Node, Packet
  <2> QED
    BY <2>1, SendTimeNat, TickAssumption, FS_AddElement
<1>2. \A s \in Int : s <= sn =>
        Total(Times(rate), After(r, d, s)) = T + Total(Times(rate), After(q, d, s))
  <2> TAKE s \in Int
  <2>1. \A n \in q : n.packet.serial < new.packet.serial
    BY DEF Node, Packet
  <2> QED
    BY <2>1, AfterAdd
<1>3. \A s \in Int : /\ Total(Times(rate), After(q, d, s)) \in Nat
                     /\ Total(Times(rate), After(r, d, s)) \in Nat
  BY <1>1, AfterNat
<1>4. new.due \in Int /\ new.packet.serial \in Int
  BY DEF Node
<1>0. /\ \A s, n : n \in After(r, d, s) => n = new \/ n \in q
      /\ \A n \in After(r, d, sn) : n = new
  BY DEF After, Node, Packet
<1> HIDE DEF T, r
<1>5. Booked(c, new.due, r, d, new.packet.serial, rate)
  BY <1>1, <1>3, <1>4 DEF Booked
<1>6. CASE b > t
  <2>1. c = b + T
    BY <1>6 DEF Later, T
  <2>2. \A u, s \in Int : s <= sn /\ Booked(b, u, q, d, s, rate) => Booked(c, u, r, d, s, rate)
    <3> TAKE u, s \in Int
    <3> QED
      BY <1>1, <1>2, <1>3, <2>1 DEF Booked
  <2>3. Booked(c, t, r, d, s0, rate)
    BY <2>2 DEF Places
  <2>4. ASSUME NEW n \in After(r, d, s0)
        PROVE  Booked(c, n.due, r, d, n.packet.serial, rate)
    <3>1. CASE n = new
      BY <1>5, <3>1
    <3>2. CASE n \in q
      <4>1. n \in After(q, d, s0) /\ n.packet.serial \in Int /\ n.due \in Int
            /\ n.packet.serial <= sn
        BY <2>4, <3>2 DEF After, Node, Packet, r
      <4> QED
        BY <2>2, <4>1 DEF Places
    <3> QED
      BY <1>0, <2>4, <3>1, <3>2
  <2>5. s0 \in 0 .. sn
    OBVIOUS
  <2> QED
    BY <2>3, <2>4, <2>5 DEF Places, r
<1>7. CASE ~ (b > t)
  <2>1. c = t + T
    BY <1>7 DEF Later, T
  <2>2. Booked(c, t, r, d, sn, rate)
    <3> DEFINE m == Total(Times(rate), After(q, d, sn))
    <3>1. m \in Nat /\ Total(Times(rate), After(r, d, sn)) = T + m
      BY <1>2, <1>3
    <3> HIDE DEF m, r
    <3>2. c < t + MS + (T + m)
      BY <1>1, <2>1, <3>1
    <3> QED
      BY <3>1, <3>2 DEF Booked
  <2>3. \A n \in After(r, d, sn) : n = new
    BY <1>0
  <2>4. sn \in 0 .. sn
    OBVIOUS
  <2> QED
    BY <1>5, <2>2, <2>3, <2>4 DEF Places, r
<1> QED
  BY <1>6, <1>7

(* A packet that is due leaves. *)
LEMMA PlacesRemove ==
  ASSUME NEW q \in SUBSET Node, IsFiniteSet(q), NEW d, NEW rate \in Int, rate > 0,
         NEW b \in Nat, NEW t \in Nat, NEW s0 \in Nat, NEW sn \in Nat, s0 <= sn,
         Places(b, t, q, d, rate, s0),
         \A m \in q : m.packet.serial <= sn,
         NEW n \in q, n.due <= t
  PROVE  \E s \in 0 .. sn : Places(b, t, q \ {n}, d, rate, s)
<1> DEFINE r == q \ {n}
<1>0. \A m \in q : m.packet.serial \in Nat /\ m.due \in Int
  BY DEF Node, Packet
<1>1. \A s \in Int : ~ (n.packet.direction = d /\ n.packet.serial > s) =>
        \A u \in Int : Booked(b, u, q, d, s, rate) => Booked(b, u, r, d, s, rate)
  BY AfterRemove DEF Booked
<1>01. \A s, m : m \in After(r, d, s) => m \in q /\ m \in After(q, d, s)
  BY DEF After
<1> HIDE DEF r
<1>2. CASE n \in After(q, d, s0)
  <2> DEFINE s == n.packet.serial
  <2>1. s \in 0 .. sn /\ s > s0
    BY <1>0, <1>2 DEF After
  <2>2. Booked(b, n.due, q, d, s, rate)
    BY <1>2 DEF Places
  <2>3. Booked(b, t, q, d, s, rate)
    <3>1. Total(Times(rate), After(q, d, s)) \in Nat
      BY <1>0, AfterNat
    <3> HIDE DEF s
    <3> QED
      BY <1>0, <2>2, <3>1, TickAssumption DEF Booked
  <2>4. Booked(b, t, r, d, s, rate)
    <3>1. s \in Int /\ ~ (s > s)
      BY <2>1
    <3> QED
      BY <1>1, <2>3, <3>1
  <2>5. ASSUME NEW m \in After(r, d, s)
        PROVE  Booked(b, m.due, r, d, m.packet.serial, rate)
    <3>1. m \in After(q, d, s0) /\ m.packet.serial > s /\ m.packet.serial \in Int
      BY <1>0, <1>01, <2>1, <2>5 DEF After
    <3>2. ~ (n.packet.direction = d /\ n.packet.serial > m.packet.serial)
      BY <1>0, <3>1
    <3> QED
      <4>1. Booked(b, m.due, q, d, m.packet.serial, rate)
        BY <3>1 DEF Places
      <4>2. m.due \in Int
        BY <1>0, <3>1 DEF After
      <4> QED
        BY <1>1, <3>1, <3>2, <4>1, <4>2
  <2> QED
    BY <2>1, <2>4, <2>5 DEF Places, r
<1>3. CASE n \notin After(q, d, s0)
  <2>1. ~ (n.packet.direction = d /\ n.packet.serial > s0)
    BY <1>3 DEF After
  <2>2. Booked(b, t, r, d, s0, rate)
    <3>1. Booked(b, t, q, d, s0, rate) /\ s0 \in Int /\ t \in Int
      BY DEF Places
    <3> QED
      BY <1>1, <2>1, <3>1
  <2>3. ASSUME NEW m \in After(r, d, s0)
        PROVE  Booked(b, m.due, r, d, m.packet.serial, rate)
    <3>1. m \in After(q, d, s0) /\ m.packet.serial > s0 /\ m.packet.serial \in Int
      BY <1>0, <1>01, <2>3 DEF After
    <3>2. ~ (n.packet.direction = d /\ n.packet.serial > m.packet.serial)
      BY <1>0, <2>1, <3>1
    <3> QED
      <4>1. Booked(b, m.due, q, d, m.packet.serial, rate)
        BY <3>1 DEF Places
      <4>2. m.due \in Int
        BY <1>0, <3>1 DEF After
      <4> QED
        BY <1>1, <3>1, <3>2, <4>1, <4>2
  <2>4. s0 \in 0 .. sn
    OBVIOUS
  <2> QED
    BY <2>2, <2>3, <2>4 DEF Places, r
<1> QED
  BY <1>2, <1>3

(* A slower channel, a later time. *)
LEMMA PlacesSlower ==
  ASSUME NEW q \in SUBSET Node, IsFiniteSet(q), NEW d,
         NEW fast \in Int, NEW slow \in Int, 0 < slow, slow <= fast,
         NEW b \in Nat, NEW t \in Nat, NEW u \in Nat, t <= u, NEW s0 \in Nat,
         Places(b, t, q, d, fast, s0)
  PROVE  Places(b, u, q, d, slow, s0)
<1>1. ASSUME NEW x \in Int, NEW y \in Int, x <= y, NEW s \in Int, Booked(b, x, q, d, s, fast)
      PROVE  Booked(b, y, q, d, s, slow)
  <2> DEFINE S == After(q, d, s)
             v == Times(fast)
             w == Times(slow)
  <2>1. S \in SUBSET Node /\ IsFiniteSet(S)
    BY AfterNat
  <2>2. \A n \in S : v[n] \in Nat /\ w[n] \in Nat /\ v[n] <= w[n]
    <3> TAKE n \in S
    <3>1. n \in Node /\ n.packet.len \in Nat
      BY <2>1 DEF Node, Packet
    <3>2. v[n] = SendTime(n.packet.len, fast) /\ v[n] \in Nat
      BY <3>1, TimesNat
    <3>3. w[n] = SendTime(n.packet.len, slow) /\ w[n] \in Nat
      BY <3>1, TimesNat
    <3>4. SendTime(n.packet.len, fast) <= SendTime(n.packet.len, slow)
      BY <3>1, SlowerTakesLonger
    <3> QED
      BY <3>2, <3>3, <3>4
  <2>3. Total(v, S) <= Total(w, S) /\ Total(v, S) \in Nat /\ Total(w, S) \in Nat
    <3> HIDE DEF S, v, w
    <3>1. \A part \in SUBSET S : Total(v, part) \in Nat /\ Total(v, part) <= Total(w, S)
      BY <2>1, <2>2, TotalGrows
    <3>2. \A part \in SUBSET S : Total(w, part) \in Nat /\ Total(w, part) <= Total(w, S)
      <4>1. \A n \in S : w[n] \in Nat /\ w[n] <= w[n]
        BY <2>2
      <4> QED
        BY <2>1, <4>1, TotalGrows
    <3> QED
      BY <3>1, <3>2
  <2>4. b < x + MS + Total(v, S)
    BY <1>1 DEF Booked
  <2> HIDE DEF S, v, w
  <2>5. b < y + MS + Total(w, S)
    BY <1>1, <2>3, <2>4, TickAssumption
  <2> QED
    BY <2>5 DEF Booked, S, w
<1>2. \A n \in After(q, d, s0) : n.due \in Int /\ n.packet.serial \in Int
  BY DEF After, Node, Packet
<1> QED
  BY <1>1, <1>2 DEF Places

-----------------------------------------------------------------------------
(* The channel.  Its rate is not drawn at random, and no change of the     *)
(* wire raises it; and the speed of an interface is never drawn at or      *)
(* below zero, which would take time off the delay (speedHandler gives     *)
(* DROP, that is -1).                                                      *)
Rate(w, d) == w["BANDWIDTH"][d].value

RateDrawsNone == \A w \in Wires, d \in Direction : w["BANDWIDTH"][d].plus = 0

RateNeverRises ==
  \A c \in Changes, d \in Direction :
    Rate(c[2], d) > 0 => Rate(c[1], d) >= Rate(c[2], d)

SpeedsPositive ==
  \A w \in Wires, d \in Direction :
    LET speed == w["SPEED"][d]
    IN  maxWireValue(speed) > 0 => \A rate \in computeWireValue(speed) : rate > 0

ChannelInv ==
  \A d \in Direction :
    Rate(wire, d) > 0 =>
      \E s \in 0 .. serial : Places(bandwidth_next[d], now, queue, d, Rate(wire, d), s)

(* The speed and the delay only make a packet wait longer. *)
LEMMA SpeedWaits ==
  ASSUME SpeedsPositive, HandlerTypeOK, NEW d \in Direction, NEW len \in Nat,
         NEW s \in speedHandler(d, len)
  PROVE  s.delay \in Nat
<1>1. wire["SPEED"][d] \in WireValue /\ wire \in Wires
  BY WiresAssumption DEF HandlerTypeOK, Tag
<1>2. computeWireValue(wire["SPEED"][d]) \subseteq Int
  BY <1>1, DrawsAreNumbers
<1>3. \/ s.delay = 0
      \/ \E rate \in Int : rate > 0 /\ s.delay = SendTime(len, rate)
  BY <1>1, <1>2 DEF speedHandler, SpeedsPositive
<1> QED
  BY <1>3, SendTimeNat

LEMMA DelayWaits ==
  ASSUME HandlerTypeOK, NEW d \in Direction, NEW x \in delayHandler(wire, d)
  PROVE  x \in Nat
<1>1. computeWireValue(wire["DELAY"][d]) \subseteq Int
  BY WiresAssumption, DrawsAreNumbers DEF HandlerTypeOK, Tag
<1> QED
  BY <1>1 DEF delayHandler

(* The channel is given out from where it is free, and the packet waits    *)
(* until less than a millisecond before.                                   *)
LEMMA ChannelBooked ==
  ASSUME RateDrawsNone, HandlerTypeOK, NEW d \in Direction, NEW len \in Nat,
         Rate(wire, d) > 0, NEW b \in bandwidthHandler(d, len)
  PROVE  /\ Rate(wire, d) \in Int /\ SendTime(len, Rate(wire, d)) \in Nat
         /\ b.next = Later(bandwidth_next[d], now) + SendTime(len, Rate(wire, d))
         /\ b.delay \in Nat /\ b.delay >= SendTime(len, Rate(wire, d))
         /\ b.next < now + b.delay + MS
<1> DEFINE v == Rate(wire, d)
           T == SendTime(len, v)
           start == Later(bandwidth_next[d], now)
<1>1. wire["BANDWIDTH"][d] \in WireValue /\ wire["BANDWIDTH"][d].plus = 0
  BY WiresAssumption DEF HandlerTypeOK, Tag, RateDrawsNone
<1>2. v \in Int /\ maxWireValue(wire["BANDWIDTH"][d]) > 0
      /\ computeWireValue(wire["BANDWIDTH"][d]) = {v}
  BY <1>1 DEF Rate, computeWireValue, maxWireValue, WireValue
<1>3. T \in Nat
  BY <1>2, SendTimeNat
<1>4. b = [delay |-> ((start - now) \div MS) * MS + T, next |-> start + T]
  BY <1>2 DEF bandwidthHandler
<1>5. start \in Nat /\ now \in Nat /\ start >= now
  BY DEF HandlerTypeOK, Later
<1> HIDE DEF T, start, v
<1> DEFINE a == start - now
           k == a \div MS
<1>6. a \in Nat /\ k \in Nat /\ a < k * MS + MS
  BY <1>5, TickAssumption
<1> HIDE DEF k
<1>7. k * MS \in Nat
  BY <1>6, TickAssumption
<1>8. b.delay = k * MS + T /\ b.next = start + T
  BY <1>4 DEF k
<1>9. b.next < now + b.delay + MS
  BY <1>3, <1>5, <1>6, <1>7, <1>8, TickAssumption
<1>10. b.delay \in Nat /\ b.delay >= T
  BY <1>3, <1>7, <1>8
<1> QED
  BY <1>2, <1>3, <1>8, <1>9, <1>10 DEF T, start, v

(* The node that enqueue adds is due when the caller asks. *)
LEMMA EnqueueDue ==
  ASSUME NEW p, NEW t, enqueue(p, t)
  PROVE  \E new \in queue' : queue' = queue \cup {new} /\ new.packet = p /\ new.due = t
<1>1. PICK ft, cnt : Insert(p, t, ft, cnt)
  BY Zenon DEF enqueue
<1>2. queue' = queue \cup {NewNode(p, t, ft, cnt)}
  BY <1>1 DEF Insert, NewNode
<1>3. NewNode(p, t, ft, cnt).packet = p /\ NewNode(p, t, ft, cnt).due = t
  BY DEF NewNode
<1> QED
  BY <1>2, <1>3

(* A copy takes its place, or is sent at once when the channel is free.    *)
LEMMA CopyChannel ==
  ASSUME RateDrawsNone, SpeedsPositive, OrderInv, HandlerInv, OrderInv', BytesInv,
         ChannelInv, Copy
  PROVE  ChannelInv'
<1> DEFINE e == job.direction
           p == NewPacket(e, job.len)
<1>1. /\ HandlerTypeOK /\ QueueTypeOK /\ QueueTypeOK' /\ Numbered /\ Numbered'
      /\ e \in Direction /\ job.len \in Nat /\ IsFiniteSet(queue)
  BY DEF HandlerInv, OrderInv, HandlerTypeOK, BytesInv
<1>2. PICK speed \in speedHandler(e, job.len), bandwidth \in bandwidthHandler(e, job.len),
           delay \in delayHandler(wire, e) :
        LET total == speed.delay + bandwidth.delay + delay * MS
        IN  /\ speed_next' = [speed_next EXCEPT ![e] = speed.next]
            /\ bandwidth_next' = [bandwidth_next EXCEPT ![e] = bandwidth.next]
            /\ Queued(p, total) \/ SentAtOnce(p, total)
  BY DEF Copy
<1> DEFINE total == speed.delay + bandwidth.delay + delay * MS
<1>3. wire' = wire /\ now' = now /\ serial' = serial + 1 /\ serial \in Nat /\ now \in Nat
  BY <1>1, BoundAssumption DEF Copy, QueueTypeOK, HandlerTypeOK
<1>4. p.direction = e /\ p.serial = serial + 1 /\ p.len = job.len
  BY DEF NewPacket
<1>5. \A n \in queue : n.packet.serial <= serial /\ n.packet.serial \in Int
  BY <1>1 DEF Numbered, QueueTypeOK, Node, Packet
<1>6. total \in Int /\ total >= bandwidth.delay
  <2>1. speed.delay \in Nat /\ delay \in Nat /\ bandwidth.delay \in Int
    BY <1>1, SpeedWaits, DelayWaits, BandwidthBooks
  <2>2. delay * MS \in Nat
    BY <2>1, TickAssumption
  <2> QED
    BY <2>1, <2>2
<1>7. \/ \E new \in Node : /\ queue' = queue \cup {new} /\ new.packet = p
                           /\ new.due = now + total
      \/ queue' = queue /\ total <= 0
  <2>1. CASE Queued(p, total)
    BY <1>1, <2>1, EnqueueDue DEF Queued, QueueTypeOK
  <2>2. CASE SentAtOnce(p, total)
    <3>1. ~ (total > 0) /\ queue' = queue
      BY <2>2 DEF SentAtOnce, MustQueue, queueVars
    <3> HIDE DEF total
    <3> QED
      BY <1>6, <3>1
  <2> QED
    BY <1>2, <2>1, <2>2
<1> HIDE DEF p
<1> SUFFICES ASSUME NEW d \in Direction, Rate(wire, d) > 0
             PROVE  \E s \in 0 .. serial' :
                      Places(bandwidth_next'[d], now, queue', d, Rate(wire, d), s)
  BY <1>3 DEF ChannelInv
<1>8. PICK s0 \in 0 .. serial :
         Places(bandwidth_next[d], now, queue, d, Rate(wire, d), s0)
  BY DEF ChannelInv
<1>9. CASE d # e
  <2>1. bandwidth_next'[d] = bandwidth_next[d]
    BY <1>1, <1>2, <1>9 DEF HandlerTypeOK
  <2>2. \A s : After(queue', d, s) = After(queue, d, s)
    BY <1>4, <1>7, <1>9 DEF After
  <2>3. s0 \in 0 .. serial'
    BY <1>3
  <2> QED
    BY <1>8, <2>1, <2>2, <2>3 DEF Places, Booked
<1>10. CASE d = e
  <2> DEFINE T == SendTime(job.len, Rate(wire, d))
             c == bandwidth_next'[d]
  <2>1. /\ Rate(wire, d) \in Int /\ T \in Nat
        /\ bandwidth.next = Later(bandwidth_next[d], now) + T
        /\ bandwidth.delay \in Nat /\ bandwidth.delay >= T
        /\ bandwidth.next < now + bandwidth.delay + MS
    BY <1>1, <1>10, ChannelBooked
  <2>2. c = bandwidth.next /\ bandwidth_next[d] \in Nat
    BY <1>1, <1>2, <1>10 DEF HandlerTypeOK
  <2>3. total \in Int /\ total >= bandwidth.delay
    BY <1>6
  <2> HIDE DEF total, c
  <2>4. c \in Int /\ c < now + total + MS
    BY <1>3, <2>1, <2>2, <2>3, TickAssumption DEF Later
  <2>5. ASSUME NEW new \in Node, queue' = queue \cup {new}, new.packet = p,
               new.due = now + total
        PROVE  \E s \in 0 .. serial' : Places(c, now, queue', d, Rate(wire, d), s)
    <3>1. queue \in SUBSET Node /\ s0 \in Nat /\ s0 <= serial
      BY <1>1 DEF QueueTypeOK
    <3>2. new.packet.direction = d /\ new.packet.serial = serial + 1
          /\ new.packet.len = job.len /\ c < new.due + MS
      BY <1>4, <1>10, <2>4, <2>5
    <3>3. c = Later(bandwidth_next[d], now) + SendTime(new.packet.len, Rate(wire, d))
      BY <2>1, <2>2, <3>2
    <3>4. \E s \in 0 .. serial : Places(c, now, queue \cup {new}, d, Rate(wire, d), s)
      BY <1>1, <1>3, <1>5, <1>8, <2>1, <2>2, <2>4, <3>1, <3>2, <3>3, PlacesAdd
    <3>5. 0 .. serial \subseteq 0 .. serial'
      BY <1>3
    <3> QED
      BY <2>5, <3>4, <3>5
  <2>6. CASE queue' = queue /\ total <= 0
    <3>1. c < now + MS
      BY <1>3, <2>3, <2>4, <2>6, TickAssumption
    <3>2. After(queue, d, serial') = {}
      BY <1>3, <1>5 DEF After
    <3>3. Places(c, now, queue', d, Rate(wire, d), serial')
      BY <1>3, <2>6, <3>1, <3>2, TotalEmpty, TickAssumption DEF Places, Booked
    <3>4. serial' \in 0 .. serial'
      BY <1>3
    <3> QED
      BY <3>3, <3>4 DEF c
  <2> QED
    BY <1>7, <2>5, <2>6 DEF c
<1> QED
  BY <1>9, <1>10

LEMMA ChannelStep ==
  ASSUME RateDrawsNone, RateNeverRises, SpeedsPositive,
         OrderInv, HandlerInv, OrderInv', HandlerInv', BytesInv, NotBeforeDue, ChannelInv,
         [Next]_vars
  PROVE  ChannelInv'
<1>1. /\ HandlerTypeOK /\ QueueTypeOK /\ IsFiniteSet(queue) /\ queue \in SUBSET Node
      /\ serial \in Nat /\ now \in Nat
      /\ \A d \in Direction : bandwidth_next[d] \in Nat
  BY BoundAssumption DEF HandlerInv, OrderInv, HandlerTypeOK, BytesInv, QueueTypeOK
<1>2. \A d \in Direction : Rate(wire, d) \in Int /\ Rate(wire', d) \in Int
  <2>1. wire \in Wires /\ wire' \in Wires
    BY DEF HandlerInv, HandlerTypeOK
  <2> QED
    BY <2>1, WiresAssumption DEF Tag, Rate, WireValue
<1>3. CASE Copy
  BY <1>3, CopyChannel
<1>4. CASE DrainOne
  <2>1. PICK n \in queue : n.forward_time < now /\ queue' = queue \ {n}
    BY <1>4 DEF DrainOne, dequeue
  <2>2. UNCHANGED <<wire, now, serial, bandwidth_next>>
    BY <1>4 DEF DrainOne, rateVars
  <2>3. n.due <= now
    BY <1>1, <2>1 DEF NotBeforeDue, Node
  <2>4. \A m \in queue : m.packet.serial <= serial
    BY DEF OrderInv, Numbered
  <2> SUFFICES ASSUME NEW d \in Direction, Rate(wire, d) > 0
               PROVE  \E s \in 0 .. serial :
                        Places(bandwidth_next[d], now, queue \ {n}, d, Rate(wire, d), s)
    BY <2>1, <2>2 DEF ChannelInv
  <2>5. PICK s0 \in 0 .. serial :
           Places(bandwidth_next[d], now, queue, d, Rate(wire, d), s0)
    BY DEF ChannelInv
  <2>6. s0 \in Nat /\ s0 <= serial
    BY <1>1
  <2> QED
    BY <1>1, <1>2, <2>3, <2>4, <2>5, <2>6, PlacesRemove
<1>5. ASSUME UNCHANGED <<queue, serial, bandwidth_next>>, now' \in Nat, now <= now',
             wire' = wire \/ <<wire, wire'>> \in Changes
      PROVE  ChannelInv'
  <2> SUFFICES ASSUME NEW d \in Direction, Rate(wire', d) > 0
               PROVE  \E s \in 0 .. serial :
                        Places(bandwidth_next[d], now', queue, d, Rate(wire', d), s)
    BY <1>5 DEF ChannelInv
  <2>1. Rate(wire, d) >= Rate(wire', d) /\ Rate(wire, d) > 0
    <3>1. CASE wire' = wire
      BY <1>2, <3>1
    <3>2. CASE <<wire, wire'>> \in Changes
      <4>1. Rate(wire, d) >= Rate(wire', d)
        BY <3>2 DEF RateNeverRises
      <4> QED
        BY <1>2, <4>1
    <3> QED
      BY <1>5, <3>1, <3>2
  <2>2. PICK s0 \in 0 .. serial :
           Places(bandwidth_next[d], now, queue, d, Rate(wire, d), s0)
    BY <2>1 DEF ChannelInv
  <2>3. s0 \in Nat
    BY <1>1
  <2> QED
    BY <1>1, <1>2, <1>5, <2>1, <2>2, <2>3, PlacesSlower
<1>6. CASE Tick
  BY <1>1, <1>5, <1>6 DEF Tick, queueVars, rateVars
<1>7. CASE \E finished \in BOOLEAN : Control(finished)
  BY <1>1, <1>5, <1>7 DEF Control, setFIFO, rateVars
<1>8. CASE \/ Poll \/ TakeLR \/ HoldRL \/ TakeRL \/ FailRL \/ CopyDropped \/ DrainBegin
           \/ DrainEnd \/ RestoreRL \/ SendRL
           \/ SendCall \/ SendWrite \/ RecvRead \/ RecvUnlock \/ Arrive
           \/ UNCHANGED vars
  <2>1. UNCHANGED <<queue, serial, bandwidth_next, now, wire>>
    BY <1>8 DEF Poll, TakeLR, HoldRL, TakeRL, FailRL, CopyDropped, DrainBegin, DrainEnd,
                RestoreRL, SendRL, SendCall, SendWrite, RecvRead, RecvUnlock, Arrive, vars,
                appUnchanged, queueVars, rateVars
  <2> QED
    BY <1>1, <1>5, <2>1
<1> QED
  BY <1>3, <1>4, <1>6, <1>7, <1>8 DEF Next, Handler

(* The channel given out ahead of the clock is that of the bytes waiting,  *)
(* however packets are delayed, ordered and dropped: none has left early,  *)
(* but for the millisecond bandwidthHandler rounds (bandwidthHandler,      *)
(* handlePacket).                                                          *)
THEOREM ChannelPaced ==
  RateDrawsNone /\ RateNeverRises /\ SpeedsPositive => (Spec => []BandwidthPaced)
<1> SUFFICES ASSUME RateDrawsNone, RateNeverRises, SpeedsPositive
             PROVE  Spec => []BandwidthPaced
  OBVIOUS
<1>1. Init => ChannelInv /\ NotBeforeDue
  <2>1. Init => NotBeforeDue
    BY DEF Init, initQueue, NotBeforeDue
  <2>2. ASSUME Init, NEW d \in Direction
        PROVE  \E s \in 0 .. serial :
                 Places(bandwidth_next[d], now, queue, d, Rate(wire, d), s)
    <3>1. queue = {} /\ bandwidth_next[d] = 0 /\ now = 1 /\ serial = 0
      BY <2>2 DEF Init, initQueue
    <3>2. After(queue, d, 0) = {}
      BY <3>1 DEF After
    <3>3. Places(bandwidth_next[d], now, queue, d, Rate(wire, d), 0)
      BY <3>1, <3>2, TotalEmpty, TickAssumption DEF Places, Booked
    <3> QED
      BY <3>1, <3>3
  <2> QED
    BY <2>1, <2>2 DEF ChannelInv
<1>2. /\ OrderInv /\ HandlerInv /\ BytesInv /\ NotBeforeDue /\ ChannelInv /\ [Next]_vars
      /\ OrderInv' /\ HandlerInv'
      => ChannelInv' /\ NotBeforeDue'
  BY ChannelStep, DueStep
<1>3. OrderInv /\ HandlerInv /\ BytesInv /\ ChannelInv => BandwidthPaced
  <2> SUFFICES ASSUME OrderInv, HandlerInv, BytesInv, ChannelInv,
                      NEW d \in Direction, Rate(wire, d) > 0
               PROVE  bandwidth_next[d] < now + SendTime(byte_size[d], Rate(wire, d)) + MS
    BY DEF BandwidthPaced, Rate
  <2> DEFINE v == Rate(wire, d)
             w == Times(v)
             S == Towards(d)
  <2>1. PICK s \in 0 .. serial : Places(bandwidth_next[d], now, queue, d, v, s)
    BY DEF ChannelInv
  <2>2. v \in Int /\ bandwidth_next[d] \in Nat /\ now \in Nat
    BY WiresAssumption DEF HandlerInv, HandlerTypeOK, Tag, Rate, WireValue
  <2>3. S \in SUBSET Node /\ IsFiniteSet(S)
    BY FS_Subset DEF Towards, BytesInv, OrderInv, QueueTypeOK
  <2>4. byte_size[d] = Total(Length, S)
    BY DEF BytesInv
  <2>5. Total(w, S) <= SendTime(byte_size[d], v) /\ SendTime(byte_size[d], v) \in Nat
    <3> HIDE DEF S, v
    <3>1. v \in Int /\ v > 0
      BY <2>2 DEF v
    <3>2. /\ Total(Length, S) \in Nat
          /\ Total(w, S) <= SendTime(Total(Length, S), v)
      BY <2>3, <3>1, TimesTogether
    <3> QED
      BY <2>4, <3>1, <3>2, SendTimeNat
  <2>6. /\ Total(w, After(queue, d, s)) \in Nat /\ Total(w, S) \in Int
        /\ Total(w, After(queue, d, s)) <= Total(w, S)
    <3>1. After(queue, d, s) \in SUBSET S
      BY DEF After, Towards
    <3>2. \A n \in S : w[n] \in Nat /\ w[n] <= w[n]
      BY <2>2, <2>3, TimesNat
    <3>3. \A n \in S : w[n] \in Int
      BY <3>2
    <3> HIDE DEF S, w
    <3> QED
      BY <2>3, <3>1, <3>2, <3>3, TotalGrows, TotalIsInt
  <2>7. bandwidth_next[d] < now + MS + Total(w, After(queue, d, s))
    BY <2>1 DEF Places, Booked
  <2> HIDE DEF w, S, v
  <2>8. bandwidth_next[d] < now + SendTime(byte_size[d], v) + MS
    BY <2>2, <2>5, <2>6, <2>7, TickAssumption
  <2> QED
    BY <2>8 DEF v
<1> QED
  BY <1>1, <1>2, <1>3, BytesInvariant, FilterInvariant, PTL DEF Spec

=============================================================================
