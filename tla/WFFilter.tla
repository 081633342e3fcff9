------------------------------ MODULE WFFilter ------------------------------
(***************************************************************************)
(* The filter with its Markov chain: the handler of WFHandler, whose last  *)
(* section is taken apart into the step of the chain, when the Markov      *)
(* timer expires, and the commands of the operator, as they come in        *)
(* packetHandlerThread (libvdeplug_wirefilter.c).                          *)
(*                                                                         *)
(* `wire' is what the macro MARKOV_CURRENT gives: the configuration of the *)
(* current node.  It is Stray when that node does not exist, which is      *)
(* never to happen.                                                        *)
(***************************************************************************)
EXTENDS WFHandler

CONSTANTS
  Zero, NodeCounts, MaxNodes, Weights, Draws, CarefulNodes, CarefulEdges,
                  \* as in WFMarkov
  Periods,        \* the arguments of markov-time, in ticks
  Stray           \* what is found where no node is

ASSUME ChainAssumption ==
  /\ Zero \in Wires
  /\ MaxNodes \in Nat
  /\ NodeCounts \subseteq 1 .. MaxNodes
  /\ Weights \subseteq Nat
  /\ Draws \subseteq 0 .. 100
  /\ Periods \subseteq Nat
  /\ Stray \notin Wires

(* Nodes and edges are changed at will, so any change of wire may come.    *)
ASSUME AnyChangeAssumption == Changes = Wires \X Wires

VARIABLES
  nodes, nodes_count, adjacency, current_node,   \* as in WFMarkov
  change_frequency,   \* the period of the Markov timer
  markov_timer,       \* when it expires, or Off
  control             \* of the last sections, those that poll() has reported

chainVars  == <<nodes, nodes_count, adjacency, current_node>>
timerVars  == <<change_frequency, markov_timer>>
filterVars == <<vars, chainVars, timerVars, control>>

Chain == INSTANCE WFMarkov WITH Values <- Wires

(* MARKOV_CURRENT *)
MarkovCurrent == IF current_node \in DOMAIN nodes THEN nodes[current_node] ELSE Stray

(* setTimer(): a time of zero disarms. *)
Armed(time) == IF time = 0 THEN Off ELSE now + time

-----------------------------------------------------------------------------
(* The thread starts the Markov timer; the parameters of open and the      *)
(* commands of the rc file come as commands.                               *)
FilterInit ==
  /\ Init
  /\ Chain!Init
  /\ wire = MarkovCurrent
  /\ change_frequency \in Periods
  /\ markov_timer = Armed(change_frequency)
  /\ control = {}

(* The sections of the packets; poll() also reports the Markov timer and   *)
(* the commands that have come.                                            *)
FilterPoll ==
  /\ Poll
  /\ control' \in SUBSET {"MARKOV", "COMMANDS"}
  /\ "MARKOV" \in control' <=> Expired(markov_timer)
  /\ control' # {} <=> "CONTROL" \in revents'
  /\ UNCHANGED <<chainVars, timerVars>>

FilterFailRL == FailRL /\ control' = {} /\ UNCHANGED <<chainVars, timerVars>>

Packets ==
  /\ \/ TakeLR \/ HoldRL \/ TakeRL \/ CopyDropped \/ Copy
     \/ DrainBegin \/ DrainOne \/ DrainEnd \/ RestoreRL \/ SendRL
  /\ UNCHANGED <<chainVars, timerVars, control>>

(* What the last sections have in common: the wire is that of the current  *)
(* node, whatever has changed, and poll() comes after the last of them.    *)
LastSections ==
  /\ pc = "CONTROL" /\ ~ handing
  /\ wire' = MarkovCurrent'
  /\ IF control' = {} THEN Done("CONTROL") ELSE UNCHANGED <<pc, revents>>
  /\ UNCHANGED <<serial, last, now, job, handing, rl_enabled, queue_timer, speed_timer,
                 rateVars, sender, send_pipe, nested, recvVars, boundVars>>

(* The Markov timer has expired: it is set again and the chain moves.      *)
MarkovSection ==
  /\ "MARKOV" \in control
  /\ control' = control \ {"MARKOV"}
  /\ markov_timer' = Armed(change_frequency)
  /\ Chain!markovStep
  /\ UNCHANGED <<change_frequency, queueVars>>
  /\ LastSections

(* loss, delay and the other commands that set a value of a node *)
WireCommand == Chain!setWireValue /\ UNCHANGED <<queueVars, timerVars>>

ChainCommand ==
  /\ Chain!markovSetNodeNumber \/ Chain!markovSetCurrentNode \/ Chain!markovSetEdge
  /\ UNCHANGED <<queueVars, timerVars>>

(* Mutant of markovSetTime: the timer goes on as it was. *)
markovSetTimeLater ==
  /\ change_frequency' \in Periods
  /\ UNCHANGED <<chainVars, queueVars, markov_timer>>

markovSetTime ==
  /\ change_frequency' \in Periods
  /\ markov_timer' = Armed(change_frequency')
  /\ UNCHANGED <<chainVars, queueVars>>

FifoCommand == (\E mode \in Modes : setFIFO(mode)) /\ UNCHANGED <<chainVars, timerVars>>

(* help, showedges, markov-name and their like, and text that is no command *)
ShowCommand == UNCHANGED <<chainVars, timerVars, queueVars>>

(* One command of a session, or of a file it has loaded. *)
CommandSection ==
  /\ "COMMANDS" \in control /\ "MARKOV" \notin control
  /\ control' \in {control, {}}
  /\ WireCommand \/ ChainCommand \/ markovSetTime \/ FifoCommand \/ ShowCommand
  /\ LastSections

Others ==
  /\ SendCall \/ SendWrite \/ RecvRead \/ RecvUnlock \/ Arrive \/ Tick
  /\ UNCHANGED <<chainVars, timerVars, control>>

FilterNext ==
  \/ FilterPoll \/ FilterFailRL \/ Packets
  \/ MarkovSection \/ CommandSection
  \/ Others

FilterSpec == FilterInit /\ [][FilterNext]_filterVars

-----------------------------------------------------------------------------
FilterTypeOK ==
  /\ Chain!TypeOK
  /\ change_frequency \in Periods
  /\ markov_timer \in Nat
  /\ control \subseteq {"MARKOV", "COMMANDS"}

(* The rows of the chain stay balanced, its current node is one that       *)
(* exists, a resize keeps the edges that stay, and the chain moves only    *)
(* along edges with a weight, with the filter at work (wf_markov.c).       *)
RowsBalanced    == Chain!RowsBalanced
CurrentExists   == Chain!CurrentExists
EdgesKept       == Chain!EdgesKept
MovesAlongEdges == Chain!MovesAlongEdges

(* The handler sees nothing but changes of its wire and its mode: steps of *)
(* the chain and commands leave its queue, its timers and the packets it   *)
(* has in hand alone, and the wire is always a configuration               *)
(* (packetHandlerThread, MARKOV_CURRENT).                                  *)
ImplementsHandler == Spec

(* The chain stands still only while its period is zero: at any other time *)
(* its timer is set, for no later than a period from now, whatever periods *)
(* were set before (markovSetTime, packetHandlerThread).                   *)
MarkovTimerArmed ==
  IF change_frequency = 0 THEN markov_timer = Off
  ELSE markov_timer # Off /\ markov_timer <= now + change_frequency

(* The invariant under which the last sections are steps of the handler    *)
(* (WFFilterProofs): nodes and current node are what they should be, and   *)
(* the wire is that of the current node.                                   *)
ChainOK ==
  /\ nodes_count \in Nat \ {0}
  /\ nodes \in [Chain!Nodes -> Wires]
  /\ current_node \in Chain!Nodes

NodesOK == ChainOK /\ wire = nodes[current_node]

=============================================================================
