-------------------------- MODULE WFLifecycleProofs --------------------------
(***************************************************************************)
(* The safety of open and close, for any number of programs and any        *)
(* options.                                                                *)
(***************************************************************************)
EXTENDS WFLifecycle, TLAPS

USE DEF Alive, Working

-----------------------------------------------------------------------------
(* The orders of open and close *)

(* The thread is the last step of open. *)
LEMMA ThreadLast ==
  ASSUME NEW set, set \subseteq Step, First(OpenOrder, set, "thread")
  PROVE  set = {"thread"}
<1>1. DOMAIN OpenOrder = 1 .. 17
  BY DEF OpenOrder
<1>2. \A n \in 1 .. 17 : OpenOrder[n] = "thread" => n = 17
  BY DEF OpenOrder
<1>3. \A m \in 1 .. 16 : OpenOrder[m] \notin set
  BY <1>1, <1>2 DEF First
<1>4. OpenOrder[17] = "thread"
  BY DEF OpenOrder
<1>5. QED
  BY <1>1, <1>3, <1>4 DEF First, Step

(* The parameters are read first, and the nested connection opened next.   *)
LEMMA NestedSecond ==
  ASSUME NEW set, NEW s, First(OpenOrder, set, s)
  PROVE  /\ s # "parms" => "parms" \notin set
         /\ s \notin {"parms", "nested"} => "nested" \notin set
<1>1. DOMAIN OpenOrder = 1 .. 17 /\ OpenOrder[1] = "parms" /\ OpenOrder[2] = "nested"
  BY DEF OpenOrder
<1>2. PICK n \in 1 .. 17 :
        OpenOrder[n] = s /\ \A m \in 1 .. n - 1 : OpenOrder[m] \notin set
  BY <1>1 DEF First
<1>3. s # "parms" => n > 1
  BY <1>1, <1>2
<1>4. s \notin {"parms", "nested"} => n > 2
  BY <1>1, <1>2
<1>5. QED
  BY <1>1, <1>2, <1>3, <1>4

(* The thread is cancelled before anything else is released. *)
LEMMA CancelFirst ==
  ASSUME NEW set, NEW s, s # "thread", First(CloseOrder, set, s)
  PROVE  "thread" \notin set
<1>1. DOMAIN CloseOrder = 1 .. 11 /\ CloseOrder[1] = "thread"
  BY DEF CloseOrder
<1>2. QED
  BY <1>1 DEF First

(* The steps and what is released, one by one *)
LEMMA Elements ==
  /\ Step = {"parms", "nested", "conn", "send_pipe", "receive_pipe", "queue_timer",
             "markov_timer", "speed_timer", "blink_socket", "blink_id", "mgmt_socket",
             "mgmt_file", "listen", "rc", "pidfile", "lock", "thread"}
  /\ Released = {"thread", "send_pipe", "receive_pipe", "speed_timer", "queue_timer",
                 "markov_timer", "mgmt_socket", "mgmt_file", "blink_socket", "nested", "conn"}
<1>1. DOMAIN OpenOrder = 1 .. 17 /\ DOMAIN CloseOrder = 1 .. 11
  BY DEF OpenOrder, CloseOrder
<1>2. Step = {OpenOrder[n] : n \in 1 .. 17} /\ Released = {CloseOrder[n] : n \in 1 .. 11}
  BY <1>1 DEF Step, Released
<1>3. 1 .. 11 = {1, 2, 3, 4, 5, 6, 7, 8, 9, 10, 11}
  OBVIOUS
<1>4. 1 .. 17 = {1, 2, 3, 4, 5, 6, 7, 8, 9, 10, 11, 12, 13, 14, 15, 16, 17}
  OBVIOUS
<1>5. QED
  BY <1>2, <1>3, <1>4 DEF OpenOrder, CloseOrder

(* Every open takes the nested connection and the pipe of vde_send, and    *)
(* starts the thread.                                                      *)
LEMMA Needed ==
  ASSUME NEW options PROVE {"nested", "send_pipe", "thread"} \subseteq Steps(options)
BY Elements DEF Steps, OptionalSteps

-----------------------------------------------------------------------------
(* The invariant: what open has not acquired yet is still to come, close   *)
(* releases nothing before the thread is cancelled, a file is left only by *)
(* who has made it, and a thread found at work is known as such.           *)
Acquired ==
  \A c \in Conns :
    /\ state[c] = "OPENING" => {"send_pipe", "thread"} \subseteq todo[c] \cup held[c]
    /\ state[c] = "OPENING" => "thread" \in todo[c]
    /\ state[c] = "RUNNING" => {"send_pipe", "thread"} \subseteq held[c]
    /\ state[c] = "CLOSING" /\ "thread" \in held[c] => "send_pipe" \in held[c]
    /\ state[c] = "CLOSED" => held[c] \cap Released = {}
    /\ state[c] = "OFF" => held[c] = {}

(* The nested connection is open as soon as its step is done, which is the *)
(* one behind the parameters.                                              *)
NestedOpen ==
  \A c \in Conns :
    state[c] = "OPENING" =>
      /\ "nested" \in todo[c] \/ "nested" \in held[c]
      /\ "nested" \in todo[c] => "nested" \notin held[c]
      /\ "parms" \in todo[c] => "nested" \in todo[c]

FileHeld ==
  file # NoFile =>
    \/ state[file] = "ENDED"
    \/ state[file] \notin {"OFF", "CLOSED"} /\ "mgmt_file" \in held[file]

BusyKnown ==
  \A c \in Conns :
    Working(c) /\ state[c] \in {"CLOSING", "CLOSED"} /\ "thread" \notin held[c] => busy[c]

LifecycleInv ==
  TypeOK /\ SocketStays /\ NestedClosed /\ Acquired /\ NestedOpen /\ FileHeld /\ BusyKnown

LEMMA InitInvariant == ASSUME Init PROVE LifecycleInv
BY LifecycleAssumption
   DEF Init, LifecycleInv, TypeOK, SocketStays, NestedClosed, Acquired, NestedOpen, FileHeld, BusyKnown,
       States, Threads

LEMMA OpenCallInv ==
  ASSUME LifecycleInv, NEW c \in Conns, OpenCall(c) PROVE LifecycleInv'
<1> USE LifecycleAssumption DEF LifecycleInv
<1>1. PICK options \in Choices : todo' = [todo EXCEPT ![c] = Steps(options)]
  BY DEF OpenCall
<1>2. /\ Steps(options) \subseteq Step
      /\ {"nested", "send_pipe", "thread"} \subseteq Steps(options)
  BY Needed DEF Steps
<1>3. TypeOK'
  BY <1>1, <1>2 DEF TypeOK, OpenCall, States
<1>4. SocketStays' /\ NestedClosed' /\ FileHeld' /\ BusyKnown'
  BY DEF TypeOK, OpenCall, SocketStays, NestedClosed, FileHeld, BusyKnown, Acquired
<1>5. Acquired' /\ NestedOpen'
  BY <1>1, <1>2 DEF TypeOK, OpenCall, Acquired, NestedOpen
<1>6. QED
  BY <1>3, <1>4, <1>5

LEMMA OpenStepInv ==
  ASSUME LifecycleInv, NEW c \in Conns, NEW s \in Step, OpenStep(c, s) PROVE LifecycleInv'
<1> USE LifecycleAssumption DEF LifecycleInv
<1>1. /\ state[c] = "OPENING" /\ s \in todo[c]
      /\ todo' = [todo EXCEPT ![c] = @ \ {s}]
      /\ held' = [held EXCEPT ![c] = @ \cup ({s} \cap Resource)]
      /\ busy' = busy
  BY DEF OpenStep, First
<1>2. s = "thread" <=> todo'[c] = {}
  <2>1. s = "thread" => todo[c] = {"thread"}
    BY ThreadLast DEF OpenStep, TypeOK
  <2>2. s # "thread" => "thread" \in todo'[c]
    BY <1>1 DEF Acquired, TypeOK
  <2>3. QED
    BY <1>1, <2>1, <2>2 DEF TypeOK
<1>3. /\ thread' = IF s = "thread" THEN [thread EXCEPT ![c] = "START"] ELSE thread
      /\ state' = IF s = "thread" THEN [state EXCEPT ![c] = "RUNNING"] ELSE state
  BY <1>2 DEF OpenStep
<1>4. IF s = "mgmt_file" THEN file = NoFile /\ file' = c ELSE file' = file
  BY DEF OpenStep, createManagementSocket
<1>5. {"nested", "send_pipe", "thread", "mgmt_file"} \subseteq Resource
  BY Elements DEF Resource
<1>6. TypeOK'
  BY <1>1, <1>3, <1>4 DEF TypeOK, States, Threads
<1>7. SocketStays' /\ NestedClosed' /\ BusyKnown'
  BY <1>1, <1>3, <1>4 DEF TypeOK, SocketStays, NestedClosed, BusyKnown
<1>8. FileHeld'
  BY <1>1, <1>3, <1>4, <1>5 DEF TypeOK, FileHeld
<1>9. Acquired'
  <2>1. state'[c] = "RUNNING" => {"send_pipe", "thread"} \subseteq held'[c]
    BY <1>1, <1>2, <1>3, <1>5 DEF TypeOK, Acquired
  <2>2. s # "thread" => {"send_pipe", "thread"} \subseteq todo'[c] \cup held'[c] /\ "thread" \in todo'[c]
    BY <1>1, <1>5 DEF TypeOK, Acquired
  <2>3. QED
    BY <1>1, <1>3, <2>1, <2>2 DEF TypeOK, Acquired
<1>10. NestedOpen'
  <2>1. s # "parms" => "parms" \notin todo[c]
    BY NestedSecond DEF OpenStep
  <2>2. QED
    BY <1>1, <1>3, <1>5, <2>1 DEF TypeOK, NestedOpen
<1>11. QED
  BY <1>6, <1>7, <1>8, <1>9, <1>10

LEMMA OpenFailInv ==
  ASSUME LifecycleInv, NEW c \in Conns, NEW s \in Step, OpenFail(c, s) PROVE LifecycleInv'
<1> USE LifecycleAssumption DEF LifecycleInv
<1>1. /\ state[c] = "OPENING" /\ s \in todo[c]
      /\ todo' = [todo EXCEPT ![c] = {}]
      /\ UNCHANGED <<thread, busy, file>>
  BY DEF OpenFail, First
<1>2. /\ s # "parms" => "parms" \notin todo[c]
      /\ s \notin {"parms", "nested"} => "nested" \notin todo[c]
  BY NestedSecond DEF OpenFail
<1>3. /\ held' = [held EXCEPT ![c] = @ \ {"nested"}]
      /\ state' = [state EXCEPT ![c] = "FAILED"]
  <2>1. CASE s \in {"parms", "nested"}
    <3>1. OnError[s] = "return"
      BY <2>1 DEF OnError
    <3>2. "nested" \notin held[c]
      BY <1>1, <2>1 DEF NestedOpen
    <3>3. QED
      BY <3>1, <3>2 DEF OpenFail, TypeOK
  <2>2. CASE s \notin {"parms", "nested"}
    <3>1. OnError[s] = "error"
      BY <2>2 DEF OnError
    <3>2. "nested" \in held[c]
      BY <1>1, <1>2, <2>2 DEF NestedOpen
    <3>3. QED
      BY <3>1, <3>2 DEF OpenFail
  <2>3. QED
    BY <2>1, <2>2
<1>4. TypeOK' /\ SocketStays' /\ NestedClosed'
  BY <1>1, <1>3 DEF TypeOK, SocketStays, NestedClosed, States
<1>5. Acquired' /\ NestedOpen' /\ BusyKnown'
  BY <1>1, <1>3 DEF TypeOK, Acquired, NestedOpen, BusyKnown
<1>6. FileHeld'
  BY <1>1, <1>3 DEF TypeOK, FileHeld
<1>7. QED
  BY <1>4, <1>5, <1>6

LEMMA CloseCallInv ==
  ASSUME LifecycleInv, NEW c \in Conns, CloseCall(c) PROVE LifecycleInv'
BY LifecycleAssumption
   DEF LifecycleInv, CloseCall, TypeOK, SocketStays, NestedClosed, Acquired, NestedOpen, FileHeld, BusyKnown,
       States

LEMMA CloseStepInv ==
  ASSUME LifecycleInv, NEW c \in Conns, NEW s \in Step, CloseStep(c, s) PROVE LifecycleInv'
<1> USE LifecycleAssumption DEF LifecycleInv
<1>1. /\ state[c] = "CLOSING" /\ s \in held[c]
      /\ held' = [held EXCEPT ![c] = @ \ {s}]
      /\ file' = IF s = "mgmt_file" THEN NoFile ELSE file
      /\ busy' = IF s = "thread" THEN [busy EXCEPT ![c] = Working(c)] ELSE busy
      /\ UNCHANGED <<state, todo, thread>>
  BY DEF CloseStep, closeManagement, First
<1>2. s # "thread" => "thread" \notin held[c]
  BY CancelFirst DEF CloseStep
<1>3. TypeOK'
  BY <1>1 DEF TypeOK
<1>4. SocketStays' /\ NestedClosed'
  BY <1>1 DEF TypeOK, SocketStays, NestedClosed
<1>5. FileHeld'
  BY <1>1 DEF TypeOK, FileHeld, SocketStays
<1>6. Acquired' /\ NestedOpen'
  BY <1>1, <1>2 DEF TypeOK, Acquired, NestedOpen
<1>7. BusyKnown'
  BY <1>1, <1>2 DEF TypeOK, BusyKnown
<1>8. QED
  BY <1>3, <1>4, <1>5, <1>6, <1>7

LEMMA CloseReturnInv ==
  ASSUME LifecycleInv, NEW c \in Conns, CloseReturn(c) PROVE LifecycleInv'
<1> USE LifecycleAssumption DEF LifecycleInv
<1>1. {"nested", "mgmt_file"} \subseteq Released
  BY Elements
<1>2. QED
  BY <1>1
  DEF CloseReturn, TypeOK, SocketStays, NestedClosed, Acquired, NestedOpen, FileHeld,
      BusyKnown, States

LEMMA ThreadStepInv ==
  ASSUME LifecycleInv, NEW c \in Conns, ThreadStep(c) PROVE LifecycleInv'
<1> USE LifecycleAssumption DEF LifecycleInv
<1>1. PICK to \in Threads :
        /\ thread[c] # "NONE" /\ thread' = [thread EXCEPT ![c] = to]
        /\ to = "SECTION" => ~ Cancelled(c) \/ state[c] = "RUNNING"
        /\ to # "START"
        /\ UNCHANGED <<state, todo, held, busy, file>>
  BY DEF ThreadStep, Begin, Wake, Again, Lock, Unlock, CancelInPoll, CancelInSection, Moves, Threads
<1>2. TypeOK'
  BY <1>1 DEF TypeOK
<1>3. SocketStays' /\ NestedClosed' /\ Acquired' /\ NestedOpen' /\ FileHeld'
  BY <1>1 DEF SocketStays, NestedClosed, Acquired, NestedOpen, FileHeld
<1>4. BusyKnown'
  BY <1>1 DEF TypeOK, BusyKnown, Cancelled
<1>5. QED
  BY <1>2, <1>3, <1>4

LEMMA SessionInv ==
  ASSUME LifecycleInv, NEW c \in Conns, Accept(c) \/ HungUp(c) PROVE LifecycleInv'
<1> USE LifecycleAssumption DEF LifecycleInv
<1>1. "session" \notin Released /\ "session" \in Resource /\ "mgmt_socket" \in Released
  BY Elements DEF Resource
<1>2. /\ held' \in [Conns -> SUBSET Resource]
      /\ \A d \in Conns \ {c} : held'[d] = held[d]
      /\ held'[c] \ {"session"} = held[c] \ {"session"}
      /\ UNCHANGED <<state, todo, thread, busy, file>>
      /\ thread[c] = "SECTION"
  BY <1>1 DEF Accept, HungUp, TypeOK
<1>3. TypeOK' /\ SocketStays' /\ NestedClosed' /\ BusyKnown'
  BY <1>2 DEF TypeOK, SocketStays, NestedClosed, BusyKnown
<1>4. FileHeld'
  BY <1>2 DEF TypeOK, FileHeld
<1>5. Acquired' /\ NestedOpen'
  BY <1>1, <1>2 DEF TypeOK, Acquired, NestedOpen
<1>6. QED
  BY <1>3, <1>4, <1>5

LEMMA EndInv ==
  ASSUME LifecycleInv, NEW c \in Conns, End(c) PROVE LifecycleInv'
BY LifecycleAssumption
   DEF LifecycleInv, End, TypeOK, SocketStays, NestedClosed, Acquired, NestedOpen, FileHeld, BusyKnown,
       States, Threads

LEMMA RemoveStaleInv ==
  ASSUME LifecycleInv, RemoveStale PROVE LifecycleInv'
BY LifecycleAssumption
   DEF LifecycleInv, RemoveStale, TypeOK, SocketStays, NestedClosed, Acquired, NestedOpen, FileHeld, BusyKnown

LEMMA NextInvariant == ASSUME LifecycleInv, [Next]_vars PROVE LifecycleInv'
<1>1. CASE UNCHANGED vars
  BY <1>1 DEF vars, LifecycleInv, TypeOK, SocketStays, NestedClosed, Acquired, NestedOpen, FileHeld, BusyKnown
<1>2. CASE RemoveStale
  BY <1>2, RemoveStaleInv
<1>3. ASSUME NEW c \in Conns,
             \/ OpenCall(c) \/ CloseCall(c) \/ CloseReturn(c)
             \/ ThreadStep(c) \/ Accept(c) \/ HungUp(c) \/ wfShutdown(c) \/ Killed(c)
      PROVE  LifecycleInv'
  BY <1>3, OpenCallInv, CloseCallInv, CloseReturnInv, ThreadStepInv, SessionInv, EndInv
  DEF wfShutdown, Killed
<1>4. ASSUME NEW c \in Conns, NEW s \in Step,
             OpenStep(c, s) \/ OpenFail(c, s) \/ CloseStep(c, s)
      PROVE  LifecycleInv'
  BY <1>4, OpenStepInv, OpenFailInv, CloseStepInv
<1>5. QED
  BY <1>1, <1>2, <1>3, <1>4 DEF Next

THEOREM LifecycleInvariant == Spec => []LifecycleInv
BY InitInvariant, NextInvariant, PTL DEF Spec

-----------------------------------------------------------------------------
(* The state of open and close is well-formed, and a failed open leaves no *)
(* thread behind.                                                          *)
THEOREM TypeCorrect == Spec => []TypeOK
BY LifecycleInvariant, PTL DEF LifecycleInv

(* No program loses the socket at the path to another one, however many    *)
(* are given the same path.                                                *)
THEOREM SocketStaysKept == Spec => []SocketStays
BY LifecycleInvariant, PTL DEF LifecycleInv

(* Only programs that have ended without close, and opens that have        *)
(* failed, leave a file behind.                                            *)
THEOREM FileLeftByAbortKept == Spec => []FileLeftByAbort
<1>1. LifecycleInv => FileLeftByAbort
  BY DEF LifecycleInv, FileHeld, FileLeftByAbort
<1>2. QED
  BY <1>1, LifecycleInvariant, PTL

(* Close releases everything but sessions that are open. *)
THEOREM ReleasedByCloseKept == Spec => []ReleasedByClose
<1>1. LifecycleInv => ReleasedByClose
  BY Elements DEF LifecycleInv, TypeOK, Acquired, ReleasedByClose, Resource
<1>2. QED
  BY <1>1, LifecycleInvariant, PTL

(* Whichever step of open fails, and after whichever others, the nested    *)
(* connection is closed if and only if there is one.                       *)
THEOREM NestedAlwaysClosed == Spec => []NestedClosed
BY LifecycleInvariant, PTL DEF LifecycleInv

(* A thread that was in poll() when it was cancelled never works on the    *)
(* connection again.                                                       *)
THEOREM WaitingThreadAlwaysSafe == Spec => []WaitingThreadSafe
<1>1. LifecycleInv => WaitingThreadSafe
  <2> SUFFICES ASSUME LifecycleInv, NEW c \in Conns, Working(c),
                      state[c] \in {"CLOSING", "CLOSED"}, "send_pipe" \notin held[c]
               PROVE  busy[c]
    BY DEF WaitingThreadSafe
  <2>1. "thread" \notin held[c]
    BY Elements DEF LifecycleInv, Acquired
  <2>2. QED
    BY <2>1 DEF LifecycleInv, BusyKnown
<1>2. QED
  BY <1>1, LifecycleInvariant, PTL

=============================================================================
