---------------------------- MODULE WFManagement ----------------------------
(***************************************************************************)
(* The management sessions: the last three sections of the handler's loop  *)
(* (libvdeplug_wirefilter.c) with the connections kept in                  *)
(* includes/wf_management.c.  Each session is known in three arrays: the   *)
(* file descriptor and debug level in `connections' and `debug_level', and *)
(* the descriptor again in the slots that poll() watches; all three are    *)
(* shifted when a session ends.                                            *)
(*                                                                         *)
(* A client connects, sends commands and hangs up whenever it likes.       *)
(***************************************************************************)
EXTENDS Integers, SequencesExt

CONSTANTS
  MNGM_MAX_CONN,   \* 3 in the code
  Fds,             \* the file descriptors sessions may get
  Levels,          \* the debug levels a client may ask for
  MaxClients       \* bound: clients that ever connect

ASSUME SessionAssumption ==
  /\ MNGM_MAX_CONN \in Nat \ {0}
  /\ Fds \subseteq Nat \ {0}
  /\ Levels \subseteq Nat
  /\ MaxClients \in Nat

VARIABLES
  connections,     \* management.connections, the connections_count in use
  debug_level,     \* management.debug_level, likewise
  slots,           \* the descriptors in poll_fd from POLL_MNGM + 1 on, or Free
  revents,         \* what poll() reported for each slot
  pc,              \* the section the handler is in
  i,               \* the loop variable of the section
  accepting,       \* POLLIN was reported for the listening socket
  backlog,         \* clients waiting to be accepted
  session,         \* the open descriptors and the clients at their other end
  clients          \* bound: clients so far

serverVars == <<connections, debug_level, slots>>
vars == <<serverVars, revents, pc, i, accepting, backlog, session, clients>>

Free   == -1
Slot   == 1 .. MNGM_MAX_CONN
Count  == Len(connections)
Open   == DOMAIN session

None   == [cmd |-> "none"]
Logout == [cmd |-> "logout"]
Debug  == [cmd : {"markov-debug"}, level : Levels]

Unknown == -1

(* A client: whether it has hung up, the first command that it has sent    *)
(* and that is not read yet, the debug level it asked for last, Unknown    *)
(* once it has not waited for the prompt before it sent a command, whether *)
(* it has logged out, and whether so much that it has not read is waiting  *)
(* for it that there is no room for more.                                  *)
Client == [hungup : BOOLEAN, sent : {None, Logout} \cup Debug,
           asked : Nat \cup {Unknown}, logged_out : BOOLEAN, full : BOOLEAN]
NewClient == [hungup |-> FALSE, sent |-> None, asked |-> 0, logged_out |-> FALSE,
              full |-> FALSE]

Init ==
  /\ connections = <<>> /\ debug_level = <<>>
  /\ slots = [s \in Slot |-> Free] /\ revents = [s \in Slot |-> {}]
  /\ pc = "POLL" /\ i = 1 /\ accepting = FALSE
  /\ backlog = 0 /\ session = <<>> /\ clients = 0

(* What poll() reports for a slot: a connection closed is readable too. *)
Reported(fd) ==
  {e \in {"POLLIN", "POLLHUP"} :
     /\ fd # Free
     /\ session[fd].hungup \/ (e = "POLLIN" /\ session[fd].sent # None)}

(* poll() returns for the management, or for something else: a packet or a *)
(* timer, that of the Markov chain among them.                             *)
Poll(elsewhere) ==
  /\ pc = "POLL"
  /\ revents' = [s \in Slot |-> Reported(slots[s])]
  /\ accepting' = (backlog > 0)
  /\ elsewhere \/ accepting' \/ \E s \in Slot : revents'[s] # {}
  /\ pc' \in IF elsewhere THEN {"STEP", "ACCEPT"} ELSE {"ACCEPT"}
  /\ UNCHANGED <<serverVars, i, backlog, session, clients>>

(* write(): it waits while the other end has no room, and may take the     *)
(* last of it.  To a client that has gone it fails.                        *)
CanWrite(fd) == ~ session[fd].full
Written(fd)  == IF session[fd].hungup THEN {FALSE} ELSE BOOLEAN

(* markovStep() has changed the node, and tells all sessions that have     *)
(* asked for it.                                                           *)
Told == {connections[k] : k \in {k \in 1 .. Count : debug_level[k] > 0}}

StepSection ==
  /\ pc = "STEP" /\ pc' = "ACCEPT"
  /\ \A fd \in Told : CanWrite(fd)
  /\ \E full \in [Told -> BOOLEAN] :
       /\ \A fd \in Told : full[fd] \in Written(fd)
       /\ session' = [fd \in Open |-> IF fd \in Told THEN [session[fd] EXCEPT !.full = full[fd]]
                                      ELSE session[fd]]
  /\ UNCHANGED <<serverVars, revents, i, accepting, backlog, clients>>

-----------------------------------------------------------------------------
(* Mutant of Watch: the slot is chosen with the count before the new one.  *)
WatchTooLow(fd) == slots' = [slots EXCEPT ![Count] = fd]

(* The slot of a new connection. *)
Watch(fd) == slots' = [slots EXCEPT ![Count + 1] = fd]

(* Mutant of Room: one session too many is taken. *)
RoomForOneMore == Count <= MNGM_MAX_CONN

(* Another connection can be accepted. *)
Room == Count < MNGM_MAX_CONN

(* The open descriptors with a new one. *)
WithClient(fd, client) ==
  [f \in Open \cup {fd} |-> IF f = fd THEN client ELSE session[f]]

(* acceptManagementConnection() takes a client with the lowest descriptor  *)
(* there is: it becomes a session, or, having hung up already so that the  *)
(* greeting cannot be written, stays open and unknown, or, one too many,   *)
(* is closed.                                                              *)
Accept ==
  /\ pc = "ACCEPT" /\ accepting
  /\ \E fd \in Fds \ Open :
       /\ \A f \in Fds \ Open : fd <= f
       /\ \/ /\ Room
             /\ connections' = Append(connections, fd)
             /\ debug_level' = Append(debug_level, 0)
             /\ Watch(fd)
             /\ session' = WithClient(fd, NewClient)
          \/ /\ Room
             /\ session' = WithClient(fd, [NewClient EXCEPT !.hungup = TRUE])
             /\ UNCHANGED serverVars
          \/ /\ ~ Room
             /\ UNCHANGED <<serverVars, session>>
  /\ backlog' = backlog - 1
  /\ pc' = "COMMANDS" /\ i' = 1
  /\ UNCHANGED <<revents, accepting, clients>>

(* accept() fails, for want of a descriptor if for nothing else: the       *)
(* client goes on waiting.                                                 *)
AcceptFails ==
  /\ pc = "ACCEPT" /\ accepting
  /\ pc' = "COMMANDS" /\ i' = 1
  /\ UNCHANGED <<serverVars, revents, accepting, backlog, session, clients>>

AcceptNobody ==
  /\ pc = "ACCEPT" /\ ~ accepting
  /\ pc' = "COMMANDS" /\ i' = 1
  /\ UNCHANGED <<serverVars, revents, accepting, backlog, session, clients>>

(* Mutant of LoopOver: the last session is left out. *)
LoopOverEarly == i >= Count

(* The loop over the sessions has come to its end. *)
LoopOver == i > Count

(* Where a descriptor is among the connections.                            *)
Index(fd) == SelectInSeq(connections, LAMBDA f : f = fd)

(* handleManagementCommand(): all that has been sent is read, and taken    *)
(* for one command: what is behind the first line is lost in its argument. *)
(* The function of logout does nothing but return -1, so that no prompt    *)
(* follows; the caller does not look at it.  Nothing is answered when      *)
(* nothing was sent.                                                       *)
Execute(fd, c) ==
  /\ c # None => CanWrite(fd)
  /\ \E full \in IF c = None THEN {session[fd].full} ELSE Written(fd) :
       session' = [session EXCEPT ![fd].sent = None, ![fd].full = full,
                                  ![fd].logged_out = @ \/ c = Logout]
  /\ debug_level' = IF c \in Debug
                    THEN [debug_level EXCEPT ![Index(fd)] = c.level] ELSE debug_level

CommandSection ==
  /\ pc = "COMMANDS"
  /\ \/ LoopOver /\ pc' = "HANGUP" /\ i' = 1 /\ UNCHANGED <<session, debug_level>>
     \/ /\ ~ LoopOver /\ i' = i + 1 /\ UNCHANGED pc
        /\ IF "POLLIN" \in revents[i]
           THEN Execute(slots[i], session[slots[i]].sent)
           ELSE UNCHANGED <<session, debug_level>>
  /\ UNCHANGED <<connections, slots, revents, accepting, backlog, clients>>

-----------------------------------------------------------------------------
(* Mutants of closeManagementConnection: the last entry is dropped for the *)
(* one that is closed; the debug levels are not shifted.                   *)
closeDropsLast(fd) ==
  /\ connections' = SubSeq(connections, 1, Count - 1)
  /\ debug_level' = SubSeq(debug_level, 1, Count - 1)
  /\ session' = [f \in Open \ {fd} |-> session[f]]

closeLevelsStay(fd) ==
  /\ connections' = RemoveAt(connections, Index(fd))
  /\ debug_level' = SubSeq(debug_level, 1, Count - 1)
  /\ session' = [f \in Open \ {fd} |-> session[f]]

(* closeManagementConnection() *)
closeManagementConnection(fd) ==
  /\ connections' = RemoveAt(connections, Index(fd))
  /\ debug_level' = RemoveAt(debug_level, Index(fd))
  /\ session' = [f \in Open \ {fd} |-> session[f]]

(* Mutant of ShiftSlots: what was reported is not shifted with the slots.  *)
ShiftDescriptors(k) ==
  /\ slots' = [s \in Slot |-> IF s < k THEN slots[s]
                              ELSE IF s < Count THEN slots[s + 1] ELSE Free]
  /\ UNCHANGED revents

(* The slots after the one closed move down, with what was reported.       *)
ShiftSlots(k) ==
  /\ slots' = [s \in Slot |-> IF s < k THEN slots[s]
                              ELSE IF s < Count THEN slots[s + 1] ELSE Free]
  /\ revents' = [s \in Slot |-> IF s < k \/ s >= Count THEN revents[s] ELSE revents[s + 1]]

HangUpSection ==
  /\ pc = "HANGUP"
  /\ \/ LoopOver /\ pc' = "POLL" /\ i' = 1
        /\ UNCHANGED <<serverVars, revents, session>>
     \/ ~ LoopOver /\ "POLLHUP" \notin revents[i]
        /\ i' = i + 1 /\ UNCHANGED <<serverVars, revents, pc, session>>
     \/ ~ LoopOver /\ "POLLHUP" \in revents[i]
        /\ closeManagementConnection(slots[i])
        /\ ShiftSlots(i)
        /\ UNCHANGED <<pc, i>>
  /\ UNCHANGED <<accepting, backlog, clients>>

Sections ==
  \/ StepSection \/ Accept \/ AcceptFails \/ AcceptNobody
  \/ CommandSection \/ HangUpSection

Handler == Sections \/ \E elsewhere \in BOOLEAN : Poll(elsewhere)

-----------------------------------------------------------------------------
Connect ==
  /\ clients < MaxClients /\ clients' = clients + 1
  /\ backlog' = backlog + 1
  /\ UNCHANGED <<serverVars, revents, pc, i, accepting, session>>

(* A command is sent, with the prompt on the screen or without waiting for *)
(* it, right behind a command not read yet.                                *)
Send ==
  /\ \E fd \in Open, c \in {Logout} \cup Debug :
       /\ ~ session[fd].hungup /\ ~ session[fd].logged_out
       /\ session' = [session EXCEPT
                        ![fd].sent  = IF @ = None THEN c ELSE @,
                        ![fd].asked = IF session[fd].sent # None \/ @ = Unknown THEN Unknown
                                      ELSE IF c \in Debug THEN c.level ELSE @]
  /\ UNCHANGED <<serverVars, revents, pc, i, accepting, backlog, clients>>

HangUp ==
  /\ \E fd \in Open : /\ ~ session[fd].hungup
                      /\ session' = [session EXCEPT ![fd].hungup = TRUE, ![fd].full = FALSE]
  /\ UNCHANGED <<serverVars, revents, pc, i, accepting, backlog, clients>>

(* A client reads what has been written to it. *)
Read(fd) ==
  /\ fd \in Open /\ session[fd].full
  /\ session' = [session EXCEPT ![fd].full = FALSE]
  /\ UNCHANGED <<serverVars, revents, pc, i, accepting, backlog, clients>>

Next == Handler \/ Connect \/ Send \/ HangUp \/ \E fd \in Fds : Read(fd)

(* The handler runs, woken by the management if by nothing else; clients   *)
(* do what they like, but read in the end.                                 *)
Fairness ==
  WF_vars(Poll(FALSE) \/ Sections) /\ \A fd \in Fds : WF_vars(Read(fd))

Spec == Init /\ [][Next]_vars /\ Fairness

-----------------------------------------------------------------------------
TypeOK ==
  /\ connections \in Seq(Fds) /\ debug_level \in Seq(Nat)
  /\ Count <= MNGM_MAX_CONN /\ Len(debug_level) = Count
  /\ slots \in [Slot -> Fds \cup {Free}]
  /\ revents \in [Slot -> SUBSET {"POLLIN", "POLLHUP"}]
  /\ pc \in {"POLL", "STEP", "ACCEPT", "COMMANDS", "HANGUP"}
  /\ i \in 1 .. MNGM_MAX_CONN + 1
  /\ accepting \in BOOLEAN /\ backlog \in Nat /\ clients \in 0 .. MaxClients
  /\ Open \subseteq Fds /\ \A fd \in Open : session[fd] \in Client

(* The slots that poll() watches are the connections, in the same order,   *)
(* after any arrivals and departures.                                      *)
SlotsAgree ==
  \A s \in Slot : slots[s] = IF s <= Count THEN connections[s] ELSE Free

(* A session whose client waits for the prompt before it sends the next    *)
(* command has the debug level that the client asked for, once nothing is  *)
(* on its way, whatever other sessions begin and end meanwhile             *)
(* (markovSetDebugLevel, closeManagementConnection).                       *)
LevelsFollow ==
  \A k \in 1 .. Count :
    LET client == session[connections[k]]
    IN  client.asked # Unknown /\ client.sent = None => debug_level[k] = client.asked

(* Each connection is a descriptor of its own, with a client that has not  *)
(* been closed.                                                            *)
Known ==
  /\ \A k \in 1 .. Count : connections[k] \in Open
  /\ \A j, k \in 1 .. Count : connections[j] = connections[k] => j = k

(* A hang-up that poll() has reported is one, although slots move and      *)
(* sessions are added before the section that looks at it; and nothing is  *)
(* reported for the slot that the next session will get.                   *)
ReportKept ==
  /\ pc # "POLL" =>
       \A s \in 1 .. Count : "POLLHUP" \in revents[s] => session[connections[s]].hungup
  /\ pc \in {"STEP", "ACCEPT"} =>
       /\ \A s \in Slot : s > Count => revents[s] = {}
       /\ accepting => backlog > 0

(* The debug level that a client asked for last is that of its session or  *)
(* on its way there.                                                       *)
OnItsWay(client, level) ==
  client.asked # Unknown =>
    client.asked = IF client.sent \in Debug THEN client.sent.level ELSE level

LevelsKept ==
  \A k \in 1 .. Count : OnItsWay(session[connections[k]], debug_level[k])

(* A descriptor that is open belongs to a session, which will be told of   *)
(* the hang-up and closed, whatever others are closed meanwhile; the only  *)
(* ones forgotten are those of clients gone before their greeting          *)
(* (acceptManagementConnection, closeManagementConnection).                *)
NoneForgotten ==
  \A fd \in Open : (\E k \in 1 .. Count : connections[k] = fd) \/ session[fd].hungup

(* The inductive invariant of the sessions, TypeOK and SlotsAgree with it: *)
(* the arrays stay in step (closeManagementConnection and the shifting in  *)
(* packetHandlerThread) and what was reported or asked for stays with its  *)
(* session.                                                                *)
ManagementInv ==
  TypeOK /\ SlotsAgree /\ Known /\ NoneForgotten /\ ReportKept /\ LevelsKept

(* Only a session whose client has hung up is closed, even when several    *)
(* hang up at once and the slots move under the loop.                      *)
OnlyHungUpClosed ==
  [][\A fd \in Open : fd \notin Open' => session[fd].hungup]_vars

(* A session ends once its client has hung up.                             *)
HangUpNoticed ==
  \A fd \in Fds :
    (fd \in Open /\ fd \in ToSet(connections) /\ session[fd].hungup) ~> fd \notin Open

(* "logout       log out from this mgmt session" (the help command,        *)
(* wf_management.c:136): after it the session ends.                        *)
LogoutEnds ==
  \A fd \in Fds : (fd \in Open /\ session[fd].logged_out) ~> fd \notin Open

=============================================================================
