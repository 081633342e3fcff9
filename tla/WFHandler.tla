----------------------------- MODULE WFHandler ------------------------------
(***************************************************************************)
(* The filter at work: the packet handler thread of                        *)
(* libvdeplug_wirefilter.c around its delay queue, the two threads of the  *)
(* application that call vde_send and vde_recv, the nested network and the *)
(* clock.                                                                  *)
(*                                                                         *)
(* One iteration of the handler's loop is a poll(), which fixes `revents', *)
(* and then the sections whose bit is set, in the order of the source;     *)
(* between any two steps the other threads run and time passes.  Time is   *)
(* counted in ticks, MS to the millisecond.  Packets in the pipe from      *)
(* vde_send and in the nested network have no identity yet, so these are   *)
(* counts; a packet gets its number when a copy of it is made to be sent.  *)
(***************************************************************************)
EXTENDS WFQueue, WFWire

CONSTANTS
  MS,           \* ticks per millisecond
  Wires,        \* the configurations a Markov node may have
  Changes,      \* from which configuration to which other commands and steps lead
  Modes,        \* the arguments of the fifo command
  PipeCap,      \* how many packets fit in the pipe from vde_send
  OneThread,    \* TRUE when one application thread both sends and receives
  MaxOffered,   \* bound: packets that come from either side
  MaxCopies,    \* bound: duplicates of one packet
  WritesFail,   \* whether the write to the pipe of vde_recv may fail
  MaxErrors,    \* bound: failures of vde_recv on the nested network and of that write
  MaxTime       \* bound: the clock, when no timer is set

ASSUME TickAssumption == MS \in Nat \ {0}
ASSUME WiresAssumption == Wires \subseteq [Tag -> [Direction -> WireValue]]
ASSUME ChangesAssumption == Changes \subseteq Wires \X Wires
ASSUME ModesAssumption == Modes \subseteq {FIFO, NO_FIFO}
ASSUME HandlerBounds ==
  /\ PipeCap \in Nat \ {0}
  /\ OneThread \in BOOLEAN /\ WritesFail \in BOOLEAN
  /\ MaxOffered \in Nat /\ MaxCopies \in Nat /\ MaxErrors \in Nat /\ MaxTime \in Nat

VARIABLES
  now,              \* now_ns()
  wire,             \* the configuration of the current Markov node
  pc,               \* where the handler is
  revents,          \* what the last poll() reported and is not yet handled
  job,              \* the packet in handlePacket: direction, length, copies left
  handing,          \* sendPacket waits for receive_lock with an RL packet
  rl_enabled,       \* POLLIN is set in poll_fd[POLL_PIPE_RL].events
  queue_timer,      \* when queue.timerfd expires, or Off
  speed_timer,      \* when speed_timer expires, or Off
  speed_next,       \* per direction, when the interface is free again
  bandwidth_next,   \* per direction, the end of the bandwidth already given out
  burst,            \* bursty_loss_status, per direction
  sender,           \* until when vde_send sleeps, or Off outside vde_send
  send_pipe,        \* packets in the pipe to the handler
  nested,           \* packets waiting in the nested network
  receive_lock,     \* the mutex of the pipe to vde_recv
  receive_pipe,     \* packets in that pipe
  receiver,         \* TRUE between vde_recv's read and its unlock
  offered,          \* bound: packets that have come so far
  errors            \* bound: failures so far

threadVars == <<pc, revents, job, handing, rl_enabled, queue_timer, speed_timer>>
rateVars   == <<speed_next, bandwidth_next, burst>>
recvVars   == <<receive_lock, receive_pipe, receiver>>
boundVars  == <<offered, errors>>
vars == <<queueVars, serial, last, now, wire, threadVars, rateVars, sender,
          send_pipe, nested, recvVars, boundVars>>

Off == 0   \* the clock starts at 1

Later(s, t) == IF s > t THEN s ELSE t

Sections == {"LR", "RL", "QUEUE", "SPEED", "CONTROL"}

(* The next section of the loop with work to do, the bits of `left' being  *)
(* still set.                                                              *)
NextSection(left) ==
  IF left = {} THEN "POLL"
  ELSE CHOOSE s \in left :
         \/ s = "LR"
         \/ s = "RL"    /\ "LR" \notin left
         \/ s = "QUEUE" /\ left \cap {"LR", "RL"} = {}
         \/ s = "SPEED" /\ left \cap {"LR", "RL", "QUEUE"} = {}
         \/ left = {"CONTROL"}

(* A section is done. *)
Done(section) ==
  /\ revents' = revents \ {section}
  /\ pc' = NextSection(revents')

Expired(timer) == timer # Off /\ timer <= now

(* setQueueTimer(), for the queue as it is after the step *)
setQueueTimer == \E n \in Heads(queue') : queue_timer' = Later(n.forward_time, now + 1)

-----------------------------------------------------------------------------
NoJob == [direction |-> LR, len |-> 0, left |-> 0]

Init ==
  /\ \E mode \in Modes : initQueue(mode)
  /\ serial = 0 /\ last = 0
  /\ now = 1
  /\ wire \in Wires
  /\ pc = "POLL" /\ revents = {} /\ job = NoJob /\ handing = FALSE
  /\ rl_enabled = TRUE /\ queue_timer = Off /\ speed_timer = Off
  /\ speed_next = [d \in Direction |-> 0]
  /\ bandwidth_next = [d \in Direction |-> 0]
  /\ burst = [d \in Direction |-> OK_BURST]
  /\ sender = Off /\ send_pipe = 0 /\ nested = 0
  /\ receive_lock = FALSE /\ receive_pipe = 0 /\ receiver = FALSE
  /\ offered = 0 /\ errors = 0

(* Mutant of Ready: the suspension of RL input is forgotten. *)
ReadyAnyRL ==
  {s \in Sections \ {"CONTROL"} :
     \/ s = "LR"    /\ send_pipe > 0
     \/ s = "RL"    /\ nested > 0
     \/ s = "QUEUE" /\ Expired(queue_timer)
     \/ s = "SPEED" /\ Expired(speed_timer)}

(* What poll() finds ready; the operator and the Markov timer may always   *)
(* have a change of configuration ready too.                               *)
Ready ==
  {s \in Sections \ {"CONTROL"} :
     \/ s = "LR"    /\ send_pipe > 0
     \/ s = "RL"    /\ rl_enabled /\ nested > 0
     \/ s = "QUEUE" /\ Expired(queue_timer)
     \/ s = "SPEED" /\ Expired(speed_timer)}

Poll ==
  /\ pc = "POLL" /\ ~ handing
  /\ \E control \in SUBSET {"CONTROL"} : revents' = Ready \cup control
  /\ revents' # {}
  /\ pc' = NextSection(revents')
  /\ UNCHANGED <<queueVars, serial, last, now, wire, job, handing, rl_enabled,
                 queue_timer, speed_timer, rateVars, sender, send_pipe, nested,
                 recvVars, boundVars>>

(* handlePacket() up to the number of copies: the packet of that section   *)
(* is dropped, or the loop over its copies begins.                         *)
Admit(section, d, len) ==
  \/ /\ ~ mtuHandler(wire, d, len)
     /\ Done(section)
     /\ UNCHANGED <<job, burst>>
  \/ /\ mtuHandler(wire, d, len)
     /\ \E loss \in lossHandler(wire, d, burst[d]) :
          /\ burst' = [burst EXCEPT ![d] = loss.status]
          /\ \/ ~ loss.forward /\ Done(section) /\ UNCHANGED job
             \/ /\ loss.forward
                /\ \E k \in duplicatesHandler(wire, d, MaxCopies) :
                     job' = [direction |-> d, len |-> len, left |-> 1 + k]
                /\ pc' = "COPIES"
                /\ UNCHANGED revents

(* A packet is read from the pipe of vde_send. *)
TakeLR ==
  /\ pc = "LR" /\ ~ handing
  /\ send_pipe' = send_pipe - 1
  /\ \E len \in Lens : Admit("LR", LR, len)
  /\ UNCHANGED <<queueVars, serial, last, now, wire, handing, rl_enabled, queue_timer,
                 speed_timer, speed_next, bandwidth_next, sender, nested, recvVars,
                 boundVars>>

(* Mutant of HoldRL: input stops with no timer to restore it. *)
HoldRLNoTimer ==
  /\ pc = "RL" /\ ~ handing
  /\ speed_next[RL] > now
  /\ rl_enabled' = FALSE
  /\ Done("RL")
  /\ UNCHANGED <<queueVars, serial, last, now, wire, job, handing, queue_timer,
                 speed_timer, rateVars, sender, send_pipe, nested, recvVars, boundVars>>

(* The interface is still busy with an RL packet: input stops until then.  *)
HoldRL ==
  /\ pc = "RL" /\ ~ handing
  /\ speed_next[RL] > now
  /\ rl_enabled' = FALSE
  /\ speed_timer' = speed_next[RL]
  /\ Done("RL")
  /\ UNCHANGED <<queueVars, serial, last, now, wire, job, handing, queue_timer,
                 rateVars, sender, send_pipe, nested, recvVars, boundVars>>

(* Mutant of TakeRL: a packet is taken however busy the interface is. *)
TakeRLBusy ==
  /\ pc = "RL" /\ ~ handing
  /\ nested' = nested - 1
  /\ \E len \in Lens : len > 1 /\ Admit("RL", RL, len)
  /\ UNCHANGED <<queueVars, serial, last, now, wire, handing, rl_enabled, queue_timer,
                 speed_timer, speed_next, bandwidth_next, sender, send_pipe, recvVars,
                 boundVars>>

(* vde_recv gives a packet, or one to be discarded: a byte or none. *)
TakeRL ==
  /\ pc = "RL" /\ ~ handing
  /\ speed_next[RL] <= now
  /\ nested' = nested - 1
  /\ \/ Done("RL") /\ UNCHANGED <<job, burst>>
     \/ \E len \in Lens : len > 1 /\ Admit("RL", RL, len)
  /\ UNCHANGED <<queueVars, serial, last, now, wire, handing, rl_enabled, queue_timer,
                 speed_timer, speed_next, bandwidth_next, sender, send_pipe, recvVars,
                 boundVars>>

(* vde_recv fails: back to poll(), whatever else it had reported. *)
FailRL ==
  /\ pc = "RL" /\ ~ handing
  /\ speed_next[RL] <= now
  /\ errors < MaxErrors /\ errors' = errors + 1
  /\ revents' = {} /\ pc' = "POLL"
  /\ UNCHANGED <<queueVars, serial, last, now, wire, job, handing, rl_enabled,
                 queue_timer, speed_timer, rateVars, sender, send_pipe, nested,
                 recvVars, offered>>

-----------------------------------------------------------------------------
(* How long `len' bytes take at so many bytes per second. *)
SendTime(len, rate) == (len * 1000 * MS) \div rate

(* What a handler returns for a rate that is zero or negative: DROP is -1, *)
(* and its caller adds it to the delay, a millisecond.                     *)
Dropped(next) == [delay |-> - MS, next |-> next]

(* speedHandler(): the delay and the new speed_next it may give *)
speedHandler(d, len) ==
  LET speed == wire["SPEED"][d]
      start == Later(speed_next[d], now)
      Slot(rate) == IF rate <= 0 THEN Dropped(speed_next[d])
                    ELSE [delay |-> SendTime(len, rate), next |-> start + SendTime(len, rate)]
  IN  IF maxWireValue(speed) > 0
      THEN {Slot(rate) : rate \in computeWireValue(speed)}
      ELSE {[delay |-> 0, next |-> speed_next[d]]}

(* Mutant of bandwidthHandler: a packet that finds the channel busy waits  *)
(* for its turn, but not for its own transmission.                         *)
bandwidthNoSendTime(d, len) ==
  LET bandwidth == wire["BANDWIDTH"][d]
      start == Later(bandwidth_next[d], now)
      Slot(rate) == IF rate <= 0 THEN Dropped(bandwidth_next[d])
                    ELSE [delay |-> ((start - now) \div MS) * MS,
                          next |-> start + SendTime(len, rate)]
  IN  IF maxWireValue(bandwidth) > 0
      THEN {Slot(rate) : rate \in computeWireValue(bandwidth)}
      ELSE {[delay |-> 0, next |-> bandwidth_next[d]]}

(* bandwidthHandler(): likewise; the time until the channel is free is     *)
(* taken in whole milliseconds (NS_TO_MS).                                 *)
bandwidthHandler(d, len) ==
  LET bandwidth == wire["BANDWIDTH"][d]
      start == Later(bandwidth_next[d], now)
      Slot(rate) == IF rate <= 0 THEN Dropped(bandwidth_next[d])
                    ELSE [delay |-> ((start - now) \div MS) * MS + SendTime(len, rate),
                          next |-> start + SendTime(len, rate)]
  IN  IF maxWireValue(bandwidth) > 0
      THEN {Slot(rate) : rate \in computeWireValue(bandwidth)}
      ELSE {[delay |-> 0, next |-> bandwidth_next[d]]}

(* sendPacket(): a packet for the nested network is gone at once, one for  *)
(* the application waits for the lock of its pipe.                         *)
HandOver(d) == handing' = (d = RL)

(* One copy is finished: the next one, or the end of the section. *)
CopyDone ==
  \/ job.left > 1 /\ job' = [job EXCEPT !.left = @ - 1] /\ UNCHANGED <<pc, revents>>
  \/ job.left = 1 /\ job' = NoJob /\ Done(IF job.direction = LR THEN "LR" ELSE "RL")

(* The buffer is full: handlePacket returns, the copies left are not made. *)
CopyDropped ==
  /\ pc = "COPIES" /\ ~ handing
  /\ FALSE \in bufferSizeHandler(wire, job.direction, job.len, byte_size[job.direction])
  /\ job' = NoJob
  /\ Done(IF job.direction = LR THEN "LR" ELSE "RL")
  /\ UNCHANGED <<queueVars, serial, last, now, wire, handing, rl_enabled, queue_timer,
                 speed_timer, rateVars, sender, send_pipe, nested, recvVars, boundVars>>

(* Mutant of MustQueue: only a delay of its own makes a packet wait. *)
MustQueueIfDelayed(delay) == delay > 0

(* A packet waits if it is delayed or, in FIFO mode, behind others. *)
MustQueue(delay) == delay > 0 \/ (fifoness = FIFO /\ queue # {})

Queued(p, delay) ==
  /\ MustQueue(delay)
  /\ enqueue(p, now + delay)
  /\ setQueueTimer
  /\ UNCHANGED <<last, handing>>

SentAtOnce(p, delay) ==
  /\ ~ MustQueue(delay)
  /\ HandOver(p.direction)
  /\ last' = IF fifoness = FIFO THEN p.serial ELSE last
  /\ UNCHANGED <<queueVars, queue_timer>>

(* A copy gets its delay, and is queued or sent. *)
Copy ==
  LET d == job.direction
      p == NewPacket(d, job.len)
  IN  /\ pc = "COPIES" /\ ~ handing
      /\ serial < MaxSerial
      /\ TRUE \in bufferSizeHandler(wire, d, job.len, byte_size[d])
      /\ TRUE \in noiseHandler(wire, d, job.len)
      /\ serial' = serial + 1
      /\ \E speed \in speedHandler(d, job.len), bandwidth \in bandwidthHandler(d, job.len),
            delay \in delayHandler(wire, d) :
           LET total == speed.delay + bandwidth.delay + delay * MS
           IN  /\ speed_next' = [speed_next EXCEPT ![d] = speed.next]
               /\ bandwidth_next' = [bandwidth_next EXCEPT ![d] = bandwidth.next]
               /\ Queued(p, total) \/ SentAtOnce(p, total)
      /\ CopyDone
      /\ UNCHANGED <<now, wire, rl_enabled, speed_timer, burst, sender, send_pipe,
                     nested, recvVars, boundVars>>

-----------------------------------------------------------------------------
(* The queue timer has expired: it is disarmed and what is due is sent,    *)
(* one packet at a time, as long as the first is due (DrainOne),           *)
DrainBegin ==
  /\ pc = "QUEUE" /\ ~ handing
  /\ queue_timer' = Off
  /\ pc' = "DRAIN"
  /\ UNCHANGED <<queueVars, serial, last, now, wire, revents, job, handing, rl_enabled,
                 speed_timer, rateVars, sender, send_pipe, nested, recvVars, boundVars>>

(* Mutant of DrainOne: the whole queue is sent. *)
DrainAll ==
  /\ pc = "DRAIN" /\ ~ handing
  /\ \E n \in queue :
       /\ dequeue(n) /\ Release(n)
       /\ HandOver(n.packet.direction)
  /\ UNCHANGED <<serial, now, wire, pc, revents, job, rl_enabled, queue_timer,
                 speed_timer, rateVars, sender, send_pipe, nested, recvVars, boundVars>>

DrainOne ==
  /\ pc = "DRAIN" /\ ~ handing
  /\ \E n \in queue :
       /\ n.forward_time < now
       /\ dequeue(n) /\ Release(n)
       /\ HandOver(n.packet.direction)
  /\ UNCHANGED <<serial, now, wire, pc, revents, job, rl_enabled, queue_timer,
                 speed_timer, rateVars, sender, send_pipe, nested, recvVars, boundVars>>

(* Mutant of DrainEnd: the timer is left off when packets remain. *)
DrainEndNoTimer ==
  /\ pc = "DRAIN" /\ ~ handing
  /\ \A n \in Heads(queue) : n.forward_time >= now
  /\ UNCHANGED queue_timer
  /\ Done("QUEUE")
  /\ UNCHANGED <<queueVars, serial, last, now, wire, job, handing, rl_enabled,
                 speed_timer, rateVars, sender, send_pipe, nested, recvVars, boundVars>>

(* and then the timer is set for the next packet.                          *)
DrainEnd ==
  /\ pc = "DRAIN" /\ ~ handing
  /\ \A n \in Heads(queue) : n.forward_time >= now
  /\ UNCHANGED queueVars
  /\ IF queue = {} THEN UNCHANGED queue_timer ELSE setQueueTimer
  /\ Done("QUEUE")
  /\ UNCHANGED <<serial, last, now, wire, job, handing, rl_enabled,
                 speed_timer, rateVars, sender, send_pipe, nested, recvVars, boundVars>>

(* The interface is free again: RL packets are received as before. *)
RestoreRL ==
  /\ pc = "SPEED" /\ ~ handing
  /\ speed_timer' = Off
  /\ rl_enabled' = TRUE
  /\ Done("SPEED")
  /\ UNCHANGED <<queueVars, serial, last, now, wire, job, handing, queue_timer,
                 rateVars, sender, send_pipe, nested, recvVars, boundVars>>

(* The Markov chain moves and management commands change the wire and its  *)
(* FIFO mode, or leave them as they are; the section goes on for as long   *)
(* as there are commands (WFFilter shows what is in it).                   *)
Control(finished) ==
  /\ pc = "CONTROL" /\ ~ handing
  /\ wire' \in {wire} \cup {w \in Wires : <<wire, w>> \in Changes}
  /\ \E mode \in Modes \cup {fifoness} : setFIFO(mode)
  /\ IF finished THEN Done("CONTROL") ELSE UNCHANGED <<pc, revents>>
  /\ UNCHANGED <<serial, last, now, job, handing, rl_enabled, queue_timer, speed_timer,
                 rateVars, sender, send_pipe, nested, recvVars, boundVars>>

(* Mutant of SendRL: the packet is written without taking the lock. *)
SendRLNoLock ==
  /\ handing
  /\ receive_lock' = TRUE
  /\ receive_pipe' = receive_pipe + 1
  /\ handing' = FALSE
  /\ UNCHANGED <<queueVars, serial, last, now, wire, pc, revents, job, rl_enabled,
                 queue_timer, speed_timer, rateVars, sender, send_pipe, nested,
                 receiver, boundVars>>

(* The lock of the pipe to vde_recv is free: the packet is written, or     *)
(* lost when that fails.  The lock stays with the application either way.  *)
SendRL ==
  /\ handing
  /\ ~ receive_lock
  /\ receive_lock' = TRUE
  /\ \/ receive_pipe' = receive_pipe + 1 /\ UNCHANGED errors
     \/ /\ WritesFail
        /\ errors < MaxErrors /\ errors' = errors + 1
        /\ UNCHANGED receive_pipe
  /\ handing' = FALSE
  /\ UNCHANGED <<queueVars, serial, last, now, wire, pc, revents, job, rl_enabled,
                 queue_timer, speed_timer, rateVars, sender, send_pipe, nested,
                 receiver, offered>>

Handler ==
  \/ Poll \/ TakeLR \/ HoldRL \/ TakeRL \/ FailRL
  \/ CopyDropped \/ Copy
  \/ DrainBegin \/ DrainOne \/ DrainEnd
  \/ RestoreRL \/ (\E finished \in BOOLEAN : Control(finished)) \/ SendRL

-----------------------------------------------------------------------------
appUnchanged == <<queueVars, serial, last, now, wire, threadVars, rateVars, errors>>

(* vde_send: the application waits for the interface to be free,           *)
SendCall ==
  /\ sender = Off
  /\ offered < MaxOffered /\ offered' = offered + 1
  /\ OneThread => ~ receiver
  /\ sender' = Later(speed_next[LR], now)
  /\ UNCHANGED <<appUnchanged, send_pipe, nested, recvVars>>

(* and passes its packet on when the pipe has room.                        *)
SendWrite ==
  /\ Expired(sender)
  /\ send_pipe < PipeCap
  /\ send_pipe' = send_pipe + 1
  /\ sender' = Off
  /\ UNCHANGED <<appUnchanged, nested, recvVars, offered>>

(* vde_recv: the packet is read,                                           *)
RecvRead ==
  /\ ~ receiver /\ receive_pipe > 0
  /\ OneThread => sender = Off
  /\ receive_pipe' = receive_pipe - 1
  /\ receiver' = TRUE
  /\ UNCHANGED <<appUnchanged, sender, send_pipe, nested, receive_lock, offered>>

(* Mutant of RecvUnlock: the lock is kept. *)
RecvKeepsLock ==
  /\ receiver
  /\ receiver' = FALSE
  /\ UNCHANGED <<appUnchanged, sender, send_pipe, nested, receive_lock, receive_pipe,
                 offered>>

(* then the handler may write the next one.                                *)
RecvUnlock ==
  /\ receiver
  /\ receive_lock' = FALSE
  /\ receiver' = FALSE
  /\ UNCHANGED <<appUnchanged, sender, send_pipe, nested, receive_pipe, offered>>

(* A packet arrives from the nested network. *)
Arrive ==
  /\ offered < MaxOffered /\ offered' = offered + 1
  /\ nested' = nested + 1
  /\ UNCHANGED <<appUnchanged, sender, send_pipe, recvVars>>

(* Time passes: up to the bound, and beyond it for as long as somebody has *)
(* set a timer or sleeps.                                                  *)
Tick ==
  /\ now < MaxTime \/ \E t \in {queue_timer, speed_timer, sender} : t > now
  /\ now' = now + 1
  /\ UNCHANGED <<queueVars, serial, last, wire, threadVars, rateVars, sender, send_pipe,
                 nested, recvVars, boundVars>>

Next ==
  \/ Handler
  \/ SendCall \/ SendWrite \/ RecvRead \/ RecvUnlock
  \/ Arrive \/ Tick

Spec == Init /\ [][Next]_vars

(* The handler and the two application threads are scheduled, and time     *)
(* passes.  The sessions are few, so the last section comes to its end.    *)
(* Nobody is obliged to offer packets.                                     *)
Fairness ==
  /\ WF_vars(Handler) /\ WF_vars(Control(TRUE))
  /\ WF_vars(SendWrite) /\ WF_vars(RecvRead) /\ WF_vars(RecvUnlock)
  /\ WF_vars(Tick)

FairSpec == Spec /\ Fairness

-----------------------------------------------------------------------------
(* Everything but the queue. *)
HandlerTypeOK ==
  /\ now \in Nat \ {0}
  /\ wire \in Wires
  /\ pc \in Sections \cup {"POLL", "COPIES", "DRAIN"}
  /\ revents \subseteq Sections
  /\ job \in [direction : Direction, len : Nat, left : 0 .. MaxCopies + 1]
  /\ handing \in BOOLEAN /\ rl_enabled \in BOOLEAN
  /\ queue_timer \in Nat /\ speed_timer \in Nat
  /\ speed_next \in [Direction -> Nat]
  /\ bandwidth_next \in [Direction -> Nat]
  /\ burst \in [Direction -> {OK_BURST, FAULTY_BURST}]
  /\ sender \in Nat
  /\ send_pipe \in 0 .. PipeCap
  /\ nested \in 0 .. MaxOffered
  /\ receive_lock \in BOOLEAN /\ receiver \in BOOLEAN
  /\ receive_pipe \in 0 .. 1
  /\ offered \in 0 .. MaxOffered
  /\ errors \in 0 .. MaxErrors

TypeOK == QueueTypeOK /\ HandlerTypeOK

(* Copies leave in the order in which handlePacket took them up as long as *)
(* they were taken up in FIFO mode, through the queue or past it.          *)
FifoOrder == Wire!Spec

(* No packet leaves the queue before the time its delays ask for. *)
NoEarly == [][\A n \in queue \ queue' : n.due <= now]_vars

(* Outside the drain of the queue there is a timer for what is in it, set  *)
(* for no later than the time of each packet, or the next instant.         *)
TimerArmed ==
  pc # "DRAIN" =>
    \A n \in queue : queue_timer # Off /\ queue_timer <= Later(n.forward_time, now + 1)

(* When the reception of RL packets is suspended a timer will restore it,  *)
(* as soon as the interface is free.                                       *)
InputRestored ==
  ~ rl_enabled => speed_timer # Off /\ speed_timer <= Later(speed_next[RL], now)

(* A section still finds what poll() reported when its turn comes, so the  *)
(* handler never blocks in a read: its bits are not stale.                 *)
StillReady ==
  /\ pc = "LR" => send_pipe > 0
  /\ pc = "RL" => nested > 0 /\ rl_enabled
  /\ pc = "SPEED" => ~ rl_enabled

(* The packets in the pipe to vde_recv, and the one being read, are never  *)
(* more than one, so its boundaries are kept, and the lock is held for as  *)
(* long as there is one (a write that failed leaves it held for nothing).  *)
OneAtATime ==
  /\ receive_pipe + (IF receiver THEN 1 ELSE 0) <= 1
  /\ receive_pipe > 0 \/ receiver => receive_lock

(* What poll() reported and is not handled yet still holds, but for the    *)
(* packet whose copies are being made.                                     *)
Reported ==
  /\ pc \in Sections => pc \in revents
  /\ "LR" \in revents /\ ~ (pc = "COPIES" /\ job.direction = LR) => send_pipe > 0
  /\ "RL" \in revents /\ ~ (pc = "COPIES" /\ job.direction = RL)
       => nested > 0 /\ rl_enabled
  /\ "SPEED" \in revents => speed_timer # Off
  /\ speed_timer # Off => ~ rl_enabled

(* The inductive invariant of the threads (WFHandlerProofs): the types,    *)
(* the pipe to vde_recv, and the report of poll() that lets the sections   *)
(* take from pipes that are not empty.                                     *)
HandlerInv ==
  /\ HandlerTypeOK
  /\ OneAtATime
  /\ Reported
  /\ nested <= offered

(* Where every byte of the channel takes the same time, the bandwidth      *)
(* given out ahead of the clock is that of bytes still in the queue: none  *)
(* has left early, give or take the millisecond bandwidthHandler rounds.   *)
BandwidthPaced ==
  \A d \in Direction :
    LET bandwidth == wire["BANDWIDTH"][d]
    IN  bandwidth.value > 0 =>
          bandwidth_next[d] < now + SendTime(byte_size[d], bandwidth.value) + MS

(* The interface is never booked for more than the copies of one packet.   *)
Paced(d) ==
  LET speed  == wire["SPEED"][d]
      copies == IF maxWireValue(wire["DUP"][d]) > 0 THEN MaxCopies + 1 ELSE 1
  IN  speed.value > 0 =>
        \E len \in Lens : speed_next[d] <= now + copies * SendTime(len, speed.value)

(* The right-to-left side of `speed': reception is really suspended for    *)
(* the time each packet takes (the handler's section for RL packets).      *)
PacedRL == Paced(RL)

(* "Input is blocked for the tramission time of the packet, thus the       *)
(* sender is prevented from sending too fast" (man page, `speed'), on the  *)
(* side of vde_send.                                                       *)
PacedLR == Paced(LR)

(* What is in the queue in a direction fits the buffer set for it.         *)
BufferRespected ==
  \A d \in Direction :
    LET size == wire["CHANBUFSIZE"][d]
    IN  maxWireValue(size) > 0 => byte_size[d] <= maxWireValue(size)

(* Every packet in the queue leaves it, whatever happens to the wire.      *)
EventuallySent ==
  \A s \in 1 .. MaxSerial :
    (\E n \in queue : n.packet.serial = s) ~> (\A n \in queue : n.packet.serial # s)

(* Suspended input is resumed.                                             *)
InputResumes == ~ rl_enabled ~> rl_enabled

(* "Sender is not prevented from sending packets" (man page, `bandwidth'): *)
(* a call of vde_send that has slept returns.                              *)
SenderNotPrevented == Expired(sender) ~> sender = Off

=============================================================================
