# vdeplug_wirefilter in TLA+

`libvdeplug_wirefilter` is a plugin of libvdeplug that puts a simulated wire
between an application and a nested VDE network: packets are lost, delayed,
duplicated, cut off by size, kept in order (or not) and held back to a bandwidth
or an interface speed.  The parameters come from the nodes of a Markov chain and
can be changed while the wire is in use.

This directory holds TLA+ models of the parts that decide *which packet leaves
when*, the TLC configurations that check them on small instances and proofs,
checked by TLAPS, of what matters most for every instance.  Line numbers below
are those of the files under `src/`.

Run from this directory:

    tlc -workers 2 -config MCHandler.cfg MCHandler.tla     # one of the runs below
    tlapm WFHandlerProofs.tla                              # one of the proof modules

## 1. The system

One process, three kinds of thread: the application's (they call the plugin's
`vde_wirefilter_send` and `vde_wirefilter_recv`), one *packet handler thread*
created by open, and clients of a management socket outside the process.
Directions are seen from the application: left to right (LR) towards the nested
network, right to left (RL) from it.

    application            packet handler thread                  nested network
      vde_send --pipe LR--> LR section --.          .--> vde_send ------>
        sleeps until                     handlePacket
        speed_next[LR]                   |  mtu, loss, dup, buffer, speed,
                                         |  bandwidth, delay
                            RL section --'    |          <--- vde_recv ---
      vde_recv <-pipe RL---- sendPacket <--- delay queue (heap, timerfd)
        read, unlock         lock, write
                            CONTROL: Markov step, management commands

| component | source | state | operations |
|---|---|---|---|
| delay queue | `includes/wf_queue.c` | heap of `(packet, forward_time, counter)`, `byte_size`, `max_forward_time`, `counter`, `fifoness` | `enqueue`, `dequeue`, `setQueueTimer`, fifo mode |
| packet handler thread | `libvdeplug_wirefilter.c:293-487` | `poll_fd` with its `events` and `revents`, `speed_timer`, queue timer, the packet in hand | one section per descriptor, `handlePacket`, `sendPacket` |
| filters | `libvdeplug_wirefilter.c:490-616` | `speed_next`, `bandwidth_next`, burst status | mtu, loss, dup, buffer, bandwidth, speed, delay, noise |
| plugin interface | `libvdeplug_wirefilter.c:194-261` | two pipes, `receive_lock` | `vde_send`, `vde_recv` |
| Markov chain | `includes/wf_markov.c` | nodes with their wire values, flat array of edge weights, current node, timer | resize, set edge/value/node/name, step |
| management sessions | `includes/wf_management.c`, `libvdeplug_wirefilter.c:386-423` | `connections`, `debug_level`, slots of `poll_fd` | accept, command, hang-up |
| timers and clock | `includes/wf_time.c` | timerfd's | arm, disarm, `now_ns` |
| lifecycle | `libvdeplug_wirefilter.c:83-191, 263-283`, `includes/wf_management.c:26-63` | descriptors, nested connection, thread, socket file | open with its error path, close, `shutdown`, crash |
| parsing, help, showinfo, rc file, blink, pid file, logging | several | none that lasts | strings and output |

What makes it hard:

* **Interleaving.**  `poll()` reports once; the sections then run one after the
  other while timers expire and the application reads and writes.  Any section
  may invalidate what was reported for a later one.
* **A lock that changes hands.**  `receive_lock` is locked by the handler
  (`:480`) and unlocked by the application's thread after its read (`:210`).
* **Blocking.**  The handler waits for that lock, the application for the pipe
  the handler empties.
* **Unsynchronised reads.**  `vde_send` reads `speed_next[LR]`, which the handler
  writes (`:229`, `:596-598`).
* **Order.**  FIFO mode must hold over different delays, over a mode switched to
  and fro, and for packets that go past the queue (`:450`).
* **Timers.**  A drain that disarms, sends and re-arms; an input that is
  suspended until a one-shot timer fires.
* **A thread that is cancelled, not joined**, while close releases what it uses; and
  an open that may fail at any of some seventeen steps, each with its own way out.
* **A file shared by programs**: the path of the management socket outlives its maker.
* **Flat arrays shifted or re-read with another stride**: the adjacency array of
  the chain, three parallel arrays of sessions.
* **Boundaries.**  The sentinel of the heap, the comparison of forward times with
  the clock, the rounding to milliseconds.

`PROJECT.json` lists every such hazard at its line with the properties that look
at it, and says why where none does.

What makes each part correct:

* delay queue: a least packet leaves; packets queued in FIFO mode keep their
  order; the bytes counted are those in the queue; every index is in the array.
* handler: nothing leaves before its time; a queue that is not empty has a timer;
  a section never reads from something that is empty (it would block); suspended
  input has a timer; the buffer limit holds; rates hold in the long run.
* plugin interface: one packet at a time in the pipe to `vde_recv`, calls return.
* chain: rows sum to 100 %, the current node exists, moves follow edges; its timer
  stands still only for a period of zero; to the handler it is nothing but a change
  of wire.
* sessions: the arrays agree, the session closed is the one that hung up.
* lifecycle: whatever was opened is closed; a thread that waits never works on what
  is released; no program takes another's socket away.

## 2. The modules

    FifoWire <-- refined by -- WFQueue ---.--- WFQueueSpec <-- refined by -- WFHeap
                                          |
                               WFWire ----+
                                          |
                                      WFHandler
                                          |
                            WFMarkov -- WFFilter (refines WFHandler)

    WFManagement        WFLifecycle        MC*.tla: instances for TLC

The proofs, each module extending the one it is about:

    WFSumLemmas (induction, sums)
      |-- WFQueueLemmas (one operation of the queue)
      |     |-- WFQueueProofs
      |     `-- WFHandlerProofs -- WFFilterProofs
      `-- WFHeapProofs (uses WFQueueProofs for the order)

    WFManagementProofs        WFLifecycleProofs

* **FifoWire** is the abstract specification: packets are accepted, lost or
  delivered, and those delivered leave in the order of acceptance.  No clock, no
  delays, no queue.
* **WFQueue** is the delay queue as a set of nodes: `enqueue` computes the key
  (forward time and counter) as `wf_queue.c:76-94` does, `dequeue` takes a least
  node (`Heads`).  Two nodes of equal key are possible in NO_FIFO mode; either may
  be taken, as the heap's shape decides.  Each packet carries two ghosts used only
  by properties: `due`, the time it was asked for, and `fifo`, whether it was queued
  in FIFO mode.  `serial` numbers the copies in the order in which `handlePacket`
  takes them up, and `last` is the number of the last FIFO packet that left.
* **WFQueueSpec** lets an arbitrary caller use it.
* **WFHeap** is the array of `wf_queue.c` with sift-up, sift-down, the sentinel and
  the growth by chunks, shown to implement WFQueueSpec with
  `queue <- ToSet(heap)`.  The loops of `enqueue` and `dequeue` are recursive functions
  of the place of the hole that moves (`SiftUp`, `SiftDown`).
* **WFWire** holds the values of a node and the filters as functions from a
  configuration to the *set* of results their random draws can give.
* **WFHandler** composes queue and filters with the handler thread, two
  application threads, the nested network and the clock.
* **WFMarkov** is the chain, with its own specification and as a part of **WFFilter**,
  which composes it with the handler: the action `Control` of WFHandler, "another wire,
  another mode", is taken apart into the step of the chain when the Markov timer
  expires and the commands of the operator.  WFFilter implements WFHandler.
* **WFManagement** is the sessions.
* **WFLifecycle** is open and close, in several programs given the same path for the
  management socket.

### How WFHandler corresponds to the code

| action | code | what it does |
|---|---|---|
| `Poll` | `:318-319` | fixes `revents`; `pc` becomes the first section with its bit set |
| `TakeLR` | `:321-329`, `:431-438` | read, mtu, loss, number of copies |
| `HoldRL` | `:332-340` | interface busy: POLLIN off, speed timer armed |
| `TakeRL`, `FailRL` | `:341-359` | `vde_recv` gives a packet, one to discard, or an error (`continue`) |
| `CopyDropped`, `Copy` | `:438-458` | one copy: buffer, speed, bandwidth, delay, then enqueue and set the timer, or send |
| `DrainBegin`, `DrainOne`, `DrainEnd` | `:363-376` | disarm; send while the head is due; re-arm |
| `RestoreRL` | `:379-383` | POLLIN on again |
| `Control` | `:386-408` | Markov step and commands: another wire, another mode; they may need any number of steps before the loop goes back to `poll()` |
| `SendRL` | `:479-487` | waits for the lock, writes; a write that fails loses the packet and leaves the lock held (`WritesFail`) |
| `SendCall`, `SendWrite` | `:224-251` | sleeps until `speed_next[LR]`, writes if the pipe has room |
| `RecvRead`, `RecvUnlock` | `:194-221` | reads, then unlocks |
| `Arrive`, `Tick` | external | packets from the network, time |

`handing` is the wait in `sendPacket` for the lock: no other handler step runs
meanwhile, all other threads do.  The step that calls `sendPacket` and `SendRL`
are separate for that reason and for no other.

### What is abstracted

* Time is in ticks, `MS` to the millisecond, and starts at 1 so that 0 (`Off`) is a
  disarmed timer.  The clock only goes forward; steps of CLOCK_REALTIME are not
  modelled.  `now_ns()` is read several times in one `Copy`; the model takes one
  instant for all of them.  Forward times in nanoseconds go through a `double`,
  which rounds them to about 256 ns; ticks do not.
* Packets in the pipes and in the nested network have no identity, so these are
  counts; a length is drawn when a packet is read.
* Loss and duplicates are sets of possible outcomes: no probability is checked.
  A Gaussian draw is cut at twice `plus`.  Of the noise, `noiseHandler` says whether
  the loop that counts the broken bits can end; which bits are flipped changes no
  other part.
* Writes to the nested network do not block, and SIGPIPE is ignored.
* `Control` goes from a configuration to those `Changes` relates to it: `Changes`
  is everything, or nothing for the runs about rates, whose promise only makes sense
  while the rate stays as it is.
* The counter of the queue wraps at `CounterMod` (2^32 in the code), and the models
  stay below it (`BoundAssumption`): a wrap needs 2^32 packets in a row none of
  which has a later forward time than all before.

### WFMarkov, WFFilter and WFManagement

`WFMarkov` keeps the flat array and its index arithmetic (`Index`, `ADJMAP`),
because reading it with another row length is what a resize has to get right.
Numbers from the operator are not checked by the code; `CarefulNodes` and
`CarefulEdges` say whether he only names nodes that exist.  An assignment past the
end of the array changes other memory, which the model leaves alone; of an edge neither
end is checked, and the loopback edge is then assigned where the row would be.
`setWireValue` sets one tag in one direction or in both (`setNodeValue`), always in both
for those that `open` sets with `WIRE_BIDIRECTIONAL` (`Bidirectional`), and nothing for a
node that does not exist.

`WFFilter` extends WFHandler and instantiates WFMarkov with `Values <- Wires`.
`MarkovCurrent` is the macro `MARKOV_CURRENT`, and is `Stray`, no configuration at
all, when the current node does not exist; `wire` follows it after each of the last
sections.  `control` holds those of them that `poll()` has reported:

| action | code | what it does |
|---|---|---|
| `FilterPoll` | `:318-319` | also reports the Markov timer and commands |
| `MarkovSection` | `:386-390`, `wf_markov.c:163-195` | sets the timer again, moves the chain |
| `CommandSection` | `:403-408`, `wf_management.c:396-467` | one command of a session or of a file it loads |
| `WireCommand`, `ChainCommand`, `markovSetTime`, `FifoCommand`, `ShowCommand` | `wf_management.c:149-343` | the commands, by what they change |
| `Packets`, `Others`, `FilterFailRL` | | the actions of WFHandler, the chain unchanged |

`WFManagement` keeps the three arrays, the loop variable and the `revents` that are
looked at while sessions are removed.  The kernel gives out the lowest free
descriptor (`Accept`), so that a descriptor just closed comes back at once; `accept()` may
fail (`AcceptFails`), and the client goes on waiting.  `Poll(elsewhere)` returns for the
management or for something else, a packet or a timer.  A client
may send before it has the prompt; what one `read()` takes is then one command, the
first (`Execute`), as the rest is taken for its argument.  `StepSection` is what a step of
the chain writes to the sessions that have a debug level (`wf_markov.c:180-192`).  `full`
says that a client has let so much lie unread that a write to it waits (`CanWrite`): the
handler thread, and with it the wire and all other sessions, waits too.

### How WFLifecycle corresponds to the code

The steps of open and close are named after the resource they acquire or release, and
listed in the order of the code (`OpenOrder`, `CloseOrder`).

| action | code | what it does |
|---|---|---|
| `OpenCall`, `OpenStep` | `:83-186` | the next step that the options ask for succeeds; `bind()` only where nothing is at the path (`createManagementSocket`) |
| `OpenFail` | `:128-190` | any step may fail, and goes where `OnError` has it: it returns, or at the label `error` closes the nested connection and leaves all else |
| `CloseCall`, `CloseStep`, `CloseReturn` | `:263-283` | cancel the thread, then release in order; `closeManagement` removes the file |
| `Begin`, `Wake`, `Again`, `Lock`, `Unlock` | `:293-319`, `:480`, `:210` | where the handler thread is: before `poll()`, in it, in a section, waiting for the lock |
| `CancelInPoll`, `CancelInSection` | external | the cancellation is acted upon |
| `Accept`, `HungUp` | `wf_management.c:66-104` | a session's descriptor |
| `wfShutdown`, `Killed` | `wf_management.c:350-353`, external | the program ends, the file stays |
| `RemoveStale` | external | the operator removes a file no program at work has made |

`OnError` is the table of what the `handle_error` of each step does.  At the label `error`
the nested connection is closed whatever it is; without one the state is `UNDEFINED`, which
`NestedClosed` excludes.

A cancellation pending in `poll()` is acted upon before `poll()` returns (the C
library does so by a signal); the wait for a mutex is no cancellation point; the calls
of a section are.  `pthread_mutex_destroy` of a lock that is held only returns an error
and is left out.  `busy` is a history variable: the thread was in the middle of its work
when it was cancelled, and may then use what is released - the model shows it and
`WaitingThreadSafe` bounds it.

## 3. The runs

| run | question | bounds | states |
|---|---|---|---|
| `heap` | Does the array implement the set, and keep FIFO order? | 6 packets, 3 times, chunk 3 | 704,892 |
| `handler_order` | All threads, clock and configuration changes: FIFO order with the invariant behind it, nothing early, timer armed | 3 packets, delays 0-2 ms, clock 4, both modes | 1,592,882 |
| `handler_steady` | Rates, buffer, exact byte counters, suspended input, one packet per read | 3 packets of 2 or 4 bytes, one duplicate, one failed receive or write, five configurations, among them copies with a speed and copies with a bandwidth and a buffer | 6.73 million |
| `handler_live` | Do packets leave, does input resume, do calls of `vde_send` return? | 3 packets, one duplicate, one failed receive, two configurations, clock 1 and beyond while a timer is set | 234,766 |
| `filter` | Handler with chain, Markov timer and commands: rows, current node, moves, and is it still the handler of WFHandler? | up to 3 nodes, weights 0/60, 3 draws, periods 0/1, one packet, one failed receive or write, clock 1 | 229,220 |
| `management` | Arrays, levels, who is closed, is each hang-up noticed, is a session forgotten? | 3 clients, room for 2, 3 descriptors, commands sent behind others, clients that do not read for a while, `accept` failing, iterations for packets and timers | 1,107,746 |
| `lifecycle` | Open, failure, close, shutdown and crash against the thread and another program: who loses what, what stays behind, does the thread end? | 2 programs, 3 choices of options, a failure at any step | 113,900 |

Six packets in the heap make every tree shape with three levels, a last parent with
one child and with two; three forward times give equal, rising and falling keys.
Three packets in the handler are one that waits, one that could overtake it and one
past the queue; the clock need only outlast the longest delay, and `Tick` goes on
beyond `MaxTime` while a timer or a sleep is pending, so no timer is cut off by the
bound.  Three clients with room for two give a refused client, a reused descriptor
and two hang-ups in one iteration.  Three nodes are the fewest for which a row has
two outgoing edges besides the loopback.  In `filter` one packet is enough to have one
queued, in hand or sent while nodes and commands change the wire, as the properties there
are about the chain and about single steps; what packets do to each other is checked in the
handler's runs and carried over by the refinement.  Two programs are one that has the path
and one that wants it; the steps of a third would be those of the second.

Five more runs end in a violation and record a disagreement of code and words
(section 6).

Deadlock is checked in `heap` and in the runs of the sessions, where the loop of the handler
never ends.  In the other runs the source of packets is bounded, and a program opens its
connection once, so the models really come to rest.

Every property has a mutant in `PROJECT.json`: a plausible mistake in one mapped
definition that TLC must find by this property.  They stand beside the definition
they change, with a comment that begins `Mutant of`.

### Properties

* `FifoOrder` is refinement of FifoWire: packets taken up in FIFO mode leave in that
  order, queued or not.
* `NoEarly`: no packet leaves the queue before the delay asked for has passed.
* `TimerArmed`, `InputRestored`: what sleeps has something that wakes it.
* `StillReady`: a report of `poll()` is still good when its section comes.
* `OneAtATime`: with pipe and lock in two threads, and a write that fails under the lock,
  reads keep packet boundaries.
* `PacedRL`: the RL interface is never booked for more than the copies of one
  packet.  `BandwidthPaced`: the bandwidth given out ahead of the clock belongs to
  bytes still in the queue, give or take the millisecond that `:575` cuts off - the
  errors do not add up.
* `BufferRespected`: the bytes in the queue are within the buffer's size.
* `EventuallySent`, `InputResumes`, `SenderNotPrevented`: liveness.
* `RowsBalanced`, `CurrentExists`, `EdgesKept`, `MovesAlongEdges`: the chain.
  `MarkovTimerArmed`: its timer is off only for a period of zero, and never set for
  later than a period from now, whatever periods came before.
* `ImplementsHandler`: with chain and commands at work the filter takes only steps of
  WFHandler.
* `ImplementsQueue`: the array does what the set does; `HeapInv`: it is a heap of different
  nodes (`HeapOrdered`, `NodesDistinct`).
* `SlotsAgree`, `NoneForgotten`, `LevelsFollow`, `OnlyHungUpClosed`, `HangUpNoticed`: the
  sessions.  `NoneForgotten` says that no descriptor is open without a session but those of
  clients that are gone (a greeting that could not be written leaks its descriptor).
  `LevelsFollow` says that a client that waits for its prompts has the debug level it
  asked for.
* `SocketStays`, `FileLeftByAbort`: the socket file among programs.  `ReleasedByClose`,
  `NestedClosed`: what open and close leave; `NestedClosed` is about each step's way out:
  the nested connection is closed when there is one, and never without one.  `WaitingThreadSafe`, `ThreadEnds`: the
  cancelled thread; `ThreadEnds` has one exception, a thread that waits for the lock of
  the receive pipe, which stays for ever.
* `OrderInv`, `HandlerInv`, `HeapInv`, `ManagementInv` are the inductive
  invariants behind the proofs: they say what must hold between the steps of a loop for
  the others to hold at all, and TLC checks them like the others.

### Fairness

`FairSpec` has weak fairness for the handler thread as a whole, for each step of the
two application threads that is not the start of a new call, and for the clock.  The
code justifies it: the threads are scheduled by the kernel, `poll()` returns when a
descriptor is ready, an application that has called `vde_send` stays in the call, and
one that uses the plugin keeps calling `vde_recv` (libvdeplug's clients wait for the
descriptor and read).  Nobody is obliged to send.  Weak fairness of the handler is
enough because its steps exclude each other.  `Control` may take any number of steps
(a command after another of the same file); that the last of them comes is fairness of
its own, `WF_vars(Control(TRUE))`: a file ends.  One assumption is about the world: a
failing `vde_recv` stops failing.  While it fails the handler goes back to
`poll()` and skips every later section of the loop (`:343`), the queue among them.  Another
is that the write to the pipe of `vde_recv` does not fail (`WritesFail` is FALSE in the runs
of liveness): after one that does the lock stays held, nobody has a packet to read, and the
handler waits for good at the next packet for the application.

In WFManagement the handler runs, woken by the management if by nothing else, and a client reads in the end what is written to it
(`Read`), or hangs up.  This is an assumption about the world that the code needs: it writes
to the sessions without a limit of time, so that one client that neither reads nor goes
stops the handler for good, and `HangUpNoticed` would fail.

In WFLifecycle the handler thread is scheduled (it comes to `poll()` from its start and from
its sections) and a cancellation reaches it there.  No program is obliged to close, to
receive or to end.

## 4. What is proved

All proofs are for every value of the constants that satisfies the named
assumptions, so for any delays, rates, configurations, changes, packet lengths and
numbers of packets, nodes, sessions and programs:

* of the queue: `LensAssumption` (there are packet lengths), `BoundAssumption`;
* of the handler also `TickAssumption`, `WiresAssumption`, `ChangesAssumption`,
  `ModesAssumption`, `HandlerBounds`;
* of WFFilter also `ChainAssumption` (weights are natural numbers, a draw is a number of
  percent in 0 .. 100) and `AnyChangeAssumption`;
* of the heap `HeapAssumption`, of the sessions `SessionAssumption`, of open and close
  `LifecycleAssumption`.

A hypothesis in a theorem's statement is named in the last column; all of them are
satisfied by runs, which check the same properties.

| theorem | module | says | under |
|---|---|---|---|
| `OrderInvariant`, `TypeCorrect`, `FifoOrderKept` | WFQueueProofs | the queue alone, any caller: inductive invariant, types, refinement of FifoWire | |
| `HeapInvariant`, `AlwaysOrdered` | WFHeapProofs | the array is a heap of different nodes | |
| `ArrayImplementsQueue`, `ArrayKeepsOrder` | WFHeapProofs | the array implements WFQueueSpec, and so FifoWire | |
| `FilterInvariant` | WFHandlerProofs | `OrderInv /\ HandlerInv` in the whole filter | |
| `TypeCorrect`, `StillReadyKept`, `OneAtATimeKept` | WFHandlerProofs | their consequences | |
| `FifoOrderKept` | WFHandlerProofs | the whole filter implements FifoWire | |
| `TimerArmedKept`, `InputRestoredKept`, `NoEarlyKept` | WFHandlerProofs | the timer properties and no early release | |
| `ByteSizeAlwaysExact` | WFHandlerProofs | the byte counters are the bytes that wait | |
| `BufferAlwaysRespected` | WFHandlerProofs | the bytes that wait fit the buffer | `BufferDraws`, `BufferNeverShrinks` |
| `ReceptionPaced` | WFHandlerProofs | the RL interface is booked for the copies of one packet at most | `SpeedDrawsNone`, `SpeedNeverRises` |
| `ChannelPaced` | WFHandlerProofs | bandwidth given out ahead is that of bytes that wait | `RateDrawsNone`, `RateNeverRises`, `SpeedsPositive` |
| `NodesAlwaysOK`, `CurrentAlwaysExists` | WFFilterProofs | every node has a configuration and the current one exists | `CarefulNodes` |
| `FilterImplementsHandler`, `FilterKeepsOrder` | WFFilterProofs | the filter with its chain implements WFHandler, hence FifoWire | `CarefulNodes` |
| `MarkovTimerKept` | WFFilterProofs | the timer of the chain | `CarefulNodes` |
| `ChainAlwaysSound`, `RowsAlwaysBalanced`, `OnlyAlongEdges`, `EdgesAlwaysKept`, `FilterTypeCorrect` | WFFilterProofs | rows sum to 100, moves follow edges, a resize keeps edges | `CarefulNodes`, `CarefulEdges` |
| `ManagementInvariant`, `TypeCorrect`, `SlotsAlwaysAgree`, `NoneEverForgotten`, `LevelsAlwaysFollow`, `OnlyHungUpAreClosed` | WFManagementProofs | the sessions' inductive invariant and its consequences | |
| `LifecycleInvariant` | WFLifecycleProofs | the inductive invariant of open and close | |
| `TypeCorrect`, `SocketStaysKept`, `FileLeftByAbortKept`, `ReleasedByCloseKept`, `NestedAlwaysClosed`, `WaitingThreadAlwaysSafe` | WFLifecycleProofs | its consequences | |

The argument for FIFO order.  "The head of the queue is the oldest FIFO packet" is
not inductive by itself: whether the next packet keeps it depends on
`max_forward_time` and `counter`, which outlive the packets they came from and are
shared by packets queued while FIFO mode is off.  `OrderInv` adds what is missing:

* `Numbered`: numbers are unique and no larger than `serial`;
* `KeysInOrder`: among FIFO packets, larger numbers have larger keys;
* `KeysBounded`: no FIFO packet's key is above (`max_forward_time`, `counter`), so
  the key of the next one is above all of them;
* `CounterBounded`: the counter is below its range, from the number of packets, so
  that it does not wrap;
* `LastLeft`: the last FIFO packet that left is older than those that wait.

`WFQueueLemmas` proves that `enqueue`, `dequeue` and going past an empty queue
preserve `OrderInv` and map to steps of FifoWire, once, for any forward time in
`Int` (a rate that is not positive takes a millisecond *off* the delay, so the time
asked for may lie before now).  Both proof modules use these lemmas; in the handler
`QueueSteps` shows that each of its steps is one of the four kinds.

The argument for the threads.  `StillReady` is not inductive: `TakeLR` needs to
know that the pipe is not empty, several steps after `Poll` saw it.  `HandlerInv`
adds `Reported`: every bit of `revents` not handled yet still holds, except for
the section whose packet is being copied; the handler is the only reader of the pipe
and of the nested network and the only one to set or clear `rl_enabled`.
`OneAtATime` is inductive: the lock is held for as long as there is something to read.  Timers then
follow step by step (`TimerStep`, `InputStep`), and `NoEarly` from an invariant,
`NotBeforeDue`: a node's forward time is never before the time asked for.

The argument for the bytes.  `byte_size` is compared with a sum over the queue, and the
provers know nothing of sums.  `WFSumLemmas` proves what is needed: `Total(w, S)` is the
sum of the weights `w` over the finite set `S`, defined by the sums over all subsets
(`Sums`); that they exist and are unique is proved by induction, and from them follow the
sum with a member more or less, the bounds, and that it is what `MapThenSumSet` computes.
The library's induction theorems take a predicate, which the provers cannot instantiate;
here the predicate is the *set* of numbers or subsets that satisfy the claim
(`NumberInduction`, `SubsetInduction`).  `BytesInv` says that the queue is finite and each
counter is the total of the lengths in its direction; `enqueue` and `dequeue` change both
sides alike.  From it `BufferRespected` follows step by step: a packet goes into the queue
after the check of what waits plus its own length.  Two things could break it and are the
hypotheses: a Gaussian draw beyond the maximum of the buffer (`BufferDraws` leaves it out;
with it the check is against the larger value, as in the code), and a change to a smaller
buffer, which throws out nothing (`BufferNeverShrinks`).

The argument for the rates.  `PacedRL` speaks of the end of a packet; while copies are made
(`BookedForCopies`) the time booked is that of the copies made so far, and the next
packet is not received before the booked time has passed (`HoldRL`).  The hypotheses leave
out what makes the promise meaningless: a rate that is random, or raised while time is
booked at the lower one.  `BandwidthPaced` needs an account of each packet: a wait is cut to
whole milliseconds, so a packet may leave up to one millisecond before its turn, and the
errors must not add up.  `Places` says that the channel is given out until less than a
millisecond after the bytes waiting behind *each* packet that waits (`Booked`), whatever
order they leave in: a packet that leaves was due, so what stays booked is that of those
numbered after it.  `SpeedsPositive` is needed as a speed drawn at or below zero takes a
millisecond off the delay.

The argument for the heap.  `SiftUp` and `SiftDown` are recursive functions of the place of
the hole; that such functions exist is shown by induction (`RisingExists` and its like for
the way down), and the array that a hole leaves is described from the one of the next hole
(`Risen`, `Sunk`): what is unchanged, which nodes are in it, that it is a heap, and that the
node in the hole's place is not before what was above it.  `Child` is the crux: the last parent may have one
child only, and the other must not be looked at.  With the nodes all different
(`NodesDistinct`, from their numbers) the array is the set that WFQueueSpec keeps, its root
is one of the `Heads`, and the order of FIFO mode follows from the proof about the queue.

The argument for the composition.  A last section is a step of `Control` if the wire it
leaves is a configuration, that is, if the current node exists and has one.  This is
`NodesOK`; it is inductive by itself, for `Placed` keeps the current node inside after a
resize, `Chosen` takes a node modulo their number, and commands name nodes that exist
(`CarefulNodes`, an assumption of these theorems: `markov-setnode` checks nothing).  All
other actions are those of WFHandler with the chain unchanged.

The argument for the chain.  A row of the flat array is the cells `Index(i, j, n)`; division
with remainder shows that the cells of different rows and columns differ and that
`copyAdjacency` reads each with the old row length and writes it with the new one
(`RowAndColumn`, `CellInside`).  `Loopback` is what the rest of the row lacks, so each
command that changes a row restores its sum (`ChainSound`).  `MovesAlongEdges` depends on
that sum: the walk of `markovStep` starts at the current node and stops where the running
sum reaches the draw; as the row sums to 100 (`WalkSum`) and a draw is not above it, the
walk stops at an edge with a weight.  `CarefulEdges` cannot be left out: `markov_edge` is the
counterexample.  The timer follows from `TypeOK` of the handler: the clock only comes
nearer to a timer that is set.

The argument for the sessions.  `ManagementInv` adds to `SlotsAgree` that connections are
open and all different (`Known`), that a hang-up reported for a slot is one of the session
that is in the slot *now* (`ReportKept`), that no open descriptor is without a session but
those of clients that are gone (`NoneForgotten`) and that a level asked for is set or on its
way (`LevelsKept`).  The only hard step is the end of a session (`CloseKeeps`): `connections`
and `debug_level` close the gap in `closeManagementConnection`, `slots` and the reports in
the loop of the handler thread, in different functions and with different indices, and all
four must have moved by the same place before the loop looks at the next one.

The argument for the lifecycle.  `SocketStays` needs that a file at the path belongs to a
program that holds it or to one that has ended (`FileHeld`); `WaitingThreadSafe` needs that
a thread is cancelled before anything else is released (`Acquired`, from the order of
close) and that what it may do afterwards was known then (`BusyKnown`); that a failed open
leaves no thread needs that the thread is the last step (`ThreadLast`).  `NestedClosed` needs
that the nested connection is held exactly once the first two steps are done (`NestedOpen`),
which are those that `OnError` lets return.

Model-checked only: the liveness properties (`EventuallySent`, `SenderNotPrevented`,
`InputResumes`, `HangUpNoticed`, `ThreadEnds`), as fairness and ENABLED are out of the
prover's reach.  The properties of the runs that end in a violation are false, and
`RoomForAll` among them is why no theorem speaks of `max_size`.  The rates and the buffer
are proved under the hypotheses above and are not claimed beyond them.

## 5. Not modelled, and why

* **What the noise changes**: the payload, which no other part reads.  For a packet of one
  byte, `(len - 2)` at `:624` is unsigned and the loop does not end (`noiseHandler` has no
  result then); the flipped byte may lie past the end.
* **Parsing, help, showinfo, blink messages, names of nodes, logging**: strings and output.
  What commands do to the state is modelled where the state is.
* **SIGPIPE**: a write to a client that has gone can end the program; it is taken as ignored.
* **A file that loads itself** (`load` in the file it names) recurses until the stack ends.
* **`markov-numnodes 0`**: the nodes are freed, `realloc` to zero gives NULL, the
  function fails half-way; everything after is undefined behaviour.
* **The wrap of the queue's counter**: see the abstractions above.
* **A `read` that fails on a pipe** that `poll()` has reported: after one of the pipe from
  `vde_send` the handler goes on with an uninitialised pointer (`:323-327`).
* **Memory**: `sendPacket` frees the packet but not its buffer (`:486`), close does not
  free the nodes of the chain, the packets that wait and the blink message; a leak changes
  no behaviour until memory runs out.  Failures of malloc outside open are left out.
* **What a thread does with memory that was freed** under it: that it may happen is in the
  model (`busy`), what follows is undefined.
* **The path given to `blink`** is removed by close (`closeBlink`) although the filter has
  not made it: its receiver has.
* **A duplication of 100 %** never ends, as the manual page says.
* Draws that are not positive for `speed` or `bandwidth` are modelled (`Dropped`: the -1
  of DROP is added to the delay) and covered by the proofs, but no run has such a wire:
  rates are whole numbers of bytes per second, and a range that reaches below zero has
  members for which a packet takes a thousand ticks.

## 6. Where code and words differ

* `speed_lr`: the manual page says `speed` blocks the input for the packet's
  transmission time (man:60).  `vde_send` sleeps for what is booked *before* its
  packet is, and the booking happens in another thread: two calls in a row do not
  sleep.  The RL side does keep the promise (`PacedRL`).
* `one_thread`: `bandwidth` does not prevent the sender from sending (man:56).  An
  application that sends and receives in one thread can stay in `vde_send` for ever,
  as the handler waits for the lock that only `vde_recv` releases.
* `heap_room`: "Queue resize" (`wf_queue.c:96`) forgets that index 0 is the sentinel:
  the node that fills a chunk is stored one past the array.
* `markov_edge`: the loopback edge is "always" what makes the row 100 % (man:116).
  `setedge i,n,w` with a node that does not exist - as in
  `examples/unstable-connection.md:39` - writes into the next row, which is not
  rebalanced, or past the array.
* `logout`: "log out from this mgmt session" (`wf_management.c:136`) does not end the
  session, as nobody looks at the value it returns.

Not findings of a run, but worth a look: `markov-setnode` stores any number
(`wf_management.c:217`) where `markovResize` takes care to place the current node "on a
valid node" (`wf_markov.c:143`), and a node that does not exist is dereferenced at the next
packet (`CurrentExists` fails at once with `CarefulNodes` FALSE); the Gilbert formula of man:46 has a minus
where the code, rightly, has a product; `max_forward_time` is one for both
directions, so in FIFO mode a delay of one direction also holds back the other; and
it stays as it is when the packet it came from has long left, whatever the comment
at `wf_queue.c:79-80` says.  The comment at `wf_markov.c:265` says that a value for one
direction is set in place of the bidirectional one; the code goes from left to right, so
in `LR50 100` the second overrides the first.  In `1+1K` the multiplier is applied to the
value and not to what is added (`wf_markov.c:252`).

## 7. Plan

Done: FIFO order from abstract wire to array (FifoWire, WFQueue, WFQueueSpec, WFHeap) and
to the handler (WFHandler), the chain, the sessions; the composition of chain and handler
(WFFilter); open and close (WFLifecycle); proofs of every safety property that a passing
run checks.

Left, the most important first:

1. Theorems that join what is proved apart: bytes, timers, pacing and one packet at a time
   for the filter with its chain, from `FilterImplementsHandler`.
2. Room in the array: that a node is stored at most one place past it, whatever the
   packets, and never with room for the sentinel counted in.
3. **Numbers of the wire** as operators checked over bounded inputs: the text of a value
   with its directions, nodes and multipliers, the Gilbert transitions, chances at 0 and
   100.
