----------------------------- MODULE WFLifecycle -----------------------------
(***************************************************************************)
(* Open and close of the filter: vde_wirefilter_open, whose error path     *)
(* closes only the nested connection, and vde_wirefilter_close, which      *)
(* cancels the detached handler thread and does not wait for it            *)
(* (libvdeplug_wirefilter.c), with the socket file of the management       *)
(* (includes/wf_management.c).                                             *)
(*                                                                         *)
(* Several programs, each with one connection, are given the same path for *)
(* the management socket.  Each opens its connection once.                 *)
(***************************************************************************)
EXTENDS Naturals, Sequences

CONSTANTS
  Conns,      \* the connections
  Choices,    \* the sets of options that a connection may be opened with
  NoFile      \* there is nothing at the path of the management socket

ASSUME LifecycleAssumption ==
  /\ NoFile \notin Conns
  /\ Choices \subseteq SUBSET {"blink", "mgmt", "rc", "pidfile"}

VARIABLES
  state,      \* where each connection is
  todo,       \* the steps of open that are still to come
  held,       \* what has been acquired and is not released
  thread,     \* where the handler thread is
  busy,       \* history: the thread was at work when it was cancelled
  file        \* whose socket is at the path, or NoFile

vars == <<state, todo, held, thread, busy, file>>

(* Mutant of OpenOrder: the thread is started before the files are read. *)
OpenOrderThreadFirst ==
  <<"parms", "nested", "conn", "send_pipe", "receive_pipe", "queue_timer",
    "markov_timer", "speed_timer", "blink_socket", "blink_id", "mgmt_socket",
    "mgmt_file", "listen", "lock", "thread", "rc", "pidfile">>

(* The steps of open, in their order. *)
OpenOrder ==
  <<"parms", "nested", "conn", "send_pipe", "receive_pipe", "queue_timer",
    "markov_timer", "speed_timer", "blink_socket", "blink_id", "mgmt_socket",
    "mgmt_file", "listen", "rc", "pidfile", "lock", "thread">>

(* Mutants of CloseOrder: the thread is cancelled last; the timer of the   *)
(* queue is forgotten; the file of the socket is; the thread is.           *)
CloseOrderCancelLast ==
  <<"send_pipe", "receive_pipe", "speed_timer", "queue_timer", "markov_timer",
    "mgmt_socket", "mgmt_file", "blink_socket", "nested", "conn", "thread">>
CloseOrderNoTimer ==
  <<"thread", "send_pipe", "receive_pipe", "speed_timer", "markov_timer",
    "mgmt_socket", "mgmt_file", "blink_socket", "nested", "conn">>
CloseOrderNoFile ==
  <<"thread", "send_pipe", "receive_pipe", "speed_timer", "queue_timer", "markov_timer",
    "mgmt_socket", "blink_socket", "nested", "conn">>
CloseOrderNoCancel ==
  <<"send_pipe", "receive_pipe", "speed_timer", "queue_timer", "markov_timer",
    "mgmt_socket", "mgmt_file", "blink_socket", "nested", "conn">>

(* What close releases, in its order; the thread is released by its        *)
(* cancellation, the file by remove().                                     *)
CloseOrder ==
  <<"thread", "send_pipe", "receive_pipe", "speed_timer", "queue_timer", "markov_timer",
    "mgmt_socket", "mgmt_file", "blink_socket", "nested", "conn">>

Step     == {OpenOrder[n] : n \in DOMAIN OpenOrder}
Released == {CloseOrder[n] : n \in DOMAIN CloseOrder}
Resource == (Step \ {"parms", "blink_id", "listen", "rc", "pidfile", "lock"}) \cup {"session"}

(* Mutant of OnError: the step behind vde_open returns directly as well. *)
OnErrorReturns ==
  [s \in Step |-> IF s \in {"parms", "nested", "conn"} THEN "return" ELSE "error"]

(* Where each step of open goes when it fails: the two that come before    *)
(* there is a nested connection return, the others go to the label error.  *)
OnError ==
  [s \in Step |-> IF s \in {"parms", "nested"} THEN "return" ELSE "error"]

(* The steps that only an option asks for *)
OptionalSteps ==
  [blink |-> {"blink_socket", "blink_id"}, mgmt |-> {"mgmt_socket", "mgmt_file", "listen"},
   rc |-> {"rc"}, pidfile |-> {"pidfile"}]

Steps(options) ==
  Step \ UNION {OptionalSteps[o] : o \in DOMAIN OptionalSteps \ options}

(* s is the first element of the order that is in the set. *)
First(order, set, s) ==
  \E n \in DOMAIN order :
    /\ order[n] = s /\ s \in set
    /\ \A m \in 1 .. n - 1 : order[m] \notin set

States  == {"OFF", "OPENING", "RUNNING", "CLOSING", "CLOSED", "FAILED", "UNDEFINED", "ENDED"}
Threads == {"NONE", "START", "POLL", "SECTION", "LOCK", "GONE"}

(* The thread reads and writes the connection. *)
Working(c) == thread[c] \in {"START", "SECTION"}

(* The program is at work on the connection. *)
Alive(c) == state[c] \in {"OPENING", "RUNNING", "CLOSING"}

Init ==
  /\ state = [c \in Conns |-> "OFF"]
  /\ todo = [c \in Conns |-> {}]
  /\ held = [c \in Conns |-> {}]
  /\ thread = [c \in Conns |-> "NONE"]
  /\ busy = [c \in Conns |-> FALSE]
  /\ file = NoFile

-----------------------------------------------------------------------------
OpenCall(c) ==
  /\ state[c] = "OFF"
  /\ state' = [state EXCEPT ![c] = "OPENING"]
  /\ \E options \in Choices : todo' = [todo EXCEPT ![c] = Steps(options)]
  /\ UNCHANGED <<held, thread, busy, file>>

(* createManagementSocket(): bind() succeeds only where nothing is at the  *)
(* path.                                                                   *)
createManagementSocket(c, s) ==
  IF s = "mgmt_file" THEN file = NoFile /\ file' = c ELSE UNCHANGED file

(* The next step of open succeeds. *)
OpenStep(c, s) ==
  /\ state[c] = "OPENING" /\ First(OpenOrder, todo[c], s)
  /\ todo' = [todo EXCEPT ![c] = @ \ {s}]
  /\ held' = [held EXCEPT ![c] = @ \cup ({s} \cap Resource)]
  /\ createManagementSocket(c, s)
  /\ thread' = IF s = "thread" THEN [thread EXCEPT ![c] = "START"] ELSE thread
  /\ state' = IF todo'[c] = {} THEN [state EXCEPT ![c] = "RUNNING"] ELSE state
  /\ UNCHANGED busy

(* Mutant of OpenFail: the error path also closes the management. *)
OpenFailRemoves(c, s) ==
  /\ state[c] = "OPENING" /\ First(OpenOrder, todo[c], s)
  /\ state' = [state EXCEPT ![c] = "FAILED"]
  /\ todo' = [todo EXCEPT ![c] = {}]
  /\ held' = [held EXCEPT ![c] = @ \ {"nested", "mgmt_socket", "mgmt_file"}]
  /\ file' = IF "mgmt_socket" \in held[c] THEN NoFile ELSE file
  /\ UNCHANGED <<thread, busy>>

(* It fails.  At the label error the nested connection is closed, which is *)
(* undefined if there is none, and all the rest stays as it is.            *)
OpenFail(c, s) ==
  /\ state[c] = "OPENING" /\ First(OpenOrder, todo[c], s)
  /\ todo' = [todo EXCEPT ![c] = {}]
  /\ IF OnError[s] = "error"
     THEN /\ held' = [held EXCEPT ![c] = @ \ {"nested"}]
          /\ state' = [state EXCEPT ![c] = IF "nested" \in held[c] THEN "FAILED"
                                           ELSE "UNDEFINED"]
     ELSE state' = [state EXCEPT ![c] = "FAILED"] /\ UNCHANGED held
  /\ UNCHANGED <<thread, busy, file>>

CloseCall(c) ==
  /\ state[c] = "RUNNING"
  /\ state' = [state EXCEPT ![c] = "CLOSING"]
  /\ UNCHANGED <<todo, held, thread, busy, file>>

(* closeManagement(): remove() takes what is at the path, whoever made it. *)
closeManagement(s) == file' = IF s = "mgmt_file" THEN NoFile ELSE file

CloseStep(c, s) ==
  /\ state[c] = "CLOSING" /\ First(CloseOrder, held[c], s)
  /\ held' = [held EXCEPT ![c] = @ \ {s}]
  /\ closeManagement(s)
  /\ busy' = IF s = "thread" THEN [busy EXCEPT ![c] = Working(c)] ELSE busy
  /\ UNCHANGED <<state, todo, thread>>

CloseReturn(c) ==
  /\ state[c] = "CLOSING" /\ held[c] \cap Released = {}
  /\ state' = [state EXCEPT ![c] = "CLOSED"]
  /\ UNCHANGED <<todo, held, thread, busy, file>>

-----------------------------------------------------------------------------
Cancelled(c) == "thread" \notin held[c]

Moves(c, from, to) ==
  /\ thread[c] = from /\ thread' = [thread EXCEPT ![c] = to]
  /\ UNCHANGED <<state, todo, held, busy, file>>

(* The thread reads the connection before it comes to poll(), its first    *)
(* cancellation point.                                                     *)
Begin(c) == Moves(c, "START", "POLL")

(* A cancellation is acted upon before poll() returns. *)
Wake(c)  == ~ Cancelled(c) /\ Moves(c, "POLL", "SECTION")

Again(c) == Moves(c, "SECTION", "POLL")

(* A packet for vde_recv: the handler waits for the application to receive *)
(* the one before.  The wait for a mutex is no cancellation point.         *)
Lock(c)   == Moves(c, "SECTION", "LOCK")
Unlock(c) == state[c] = "RUNNING" /\ Moves(c, "LOCK", "SECTION")

(* Cancelled: in poll(), or in a read, write or other call of a section. *)
CancelInPoll(c)    == Cancelled(c) /\ Moves(c, "POLL", "GONE")
CancelInSection(c) == Cancelled(c) /\ Moves(c, "SECTION", "GONE")

ThreadStep(c) ==
  \/ Begin(c) \/ Wake(c) \/ Again(c) \/ Lock(c) \/ Unlock(c)
  \/ CancelInPoll(c) \/ CancelInSection(c)

Accept(c) ==
  /\ thread[c] = "SECTION" /\ "mgmt_socket" \in held[c]
  /\ held' = [held EXCEPT ![c] = @ \cup {"session"}]
  /\ UNCHANGED <<state, todo, thread, busy, file>>

HungUp(c) ==
  /\ thread[c] = "SECTION" /\ "session" \in held[c] /\ "conn" \in held[c]
  /\ held' = [held EXCEPT ![c] = @ \ {"session"}]
  /\ UNCHANGED <<state, todo, thread, busy, file>>

(* The program ends: its descriptors and memory go, the file stays. *)
End(c) ==
  /\ state' = [state EXCEPT ![c] = "ENDED"]
  /\ todo' = [todo EXCEPT ![c] = {}]
  /\ held' = [held EXCEPT ![c] = {}]
  /\ thread' = [thread EXCEPT ![c] = "NONE"]
  /\ UNCHANGED <<busy, file>>

(* The command shutdown, from a session or from the rc file *)
wfShutdown(c) ==
  /\ \/ thread[c] = "SECTION" /\ "session" \in held[c]
     \/ state[c] = "OPENING" /\ First(OpenOrder, todo[c], "rc")
  /\ End(c)

(* The program crashes or is killed. *)
Killed(c) == Alive(c) /\ End(c)

(* The operator removes a file that no program at work has made. *)
RemoveStale ==
  /\ file # NoFile /\ ~ Alive(file)
  /\ file' = NoFile
  /\ UNCHANGED <<state, todo, held, thread, busy>>

Next ==
  \/ \E c \in Conns :
       \/ OpenCall(c) \/ CloseCall(c) \/ CloseReturn(c)
       \/ \E s \in Step : OpenStep(c, s) \/ OpenFail(c, s) \/ CloseStep(c, s)
       \/ ThreadStep(c) \/ Accept(c) \/ HungUp(c)
       \/ wfShutdown(c) \/ Killed(c)
  \/ RemoveStale

(* The thread runs when it can: it comes to poll() from its start and from *)
(* its sections, and a cancellation reaches it there.  The application     *)
(* need not close, nor receive.                                            *)
Fairness ==
  \A c \in Conns : WF_vars(Begin(c) \/ Again(c)) /\ WF_vars(CancelInPoll(c))

Spec == Init /\ [][Next]_vars /\ Fairness

-----------------------------------------------------------------------------
(* Types; and a thread is there only for an open that has come to its end: *)
(* a failed one leaves none behind that would use what it has closed.      *)
TypeOK ==
  /\ state \in [Conns -> States]
  /\ todo \in [Conns -> SUBSET Step]
  /\ held \in [Conns -> SUBSET Resource]
  /\ thread \in [Conns -> Threads]
  /\ busy \in [Conns -> BOOLEAN]
  /\ file \in Conns \cup {NoFile}
  /\ \A c \in Conns :
       state[c] \in {"OFF", "OPENING", "FAILED", "ENDED"} => thread[c] = "NONE"

(* While a program has a management socket at the path, no other takes     *)
(* the path away: neither by its own attempt to open, nor by closing       *)
(* (createManagementSocket, closeManagement, the error path of open).      *)
SocketStays ==
  \A c \in Conns : Alive(c) /\ "mgmt_file" \in held[c] => file = c

(* A file that stays behind, and for which the next open fails, comes from *)
(* a program that has ended without close or from an open that failed: a   *)
(* close leaves the path free (closeManagement).                           *)
FileLeftByAbort ==
  file # NoFile => state[file] \notin {"OFF", "CLOSED"}

(* What close has returned from holds nothing more but sessions that       *)
(* clients had open (vde_wirefilter_close).                                *)
ReleasedByClose ==
  \A c \in Conns : state[c] = "CLOSED" => held[c] \subseteq {"session"}

(* Whichever step of open fails, the nested connection has been closed     *)
(* when open returns, and vde_close is never called without one: each      *)
(* error exit suits its place in the order (vde_wirefilter_open).          *)
NestedClosed ==
  \A c \in Conns :
    state[c] # "UNDEFINED" /\ (state[c] = "FAILED" => "nested" \notin held[c])

(* Only a thread that was in the middle of its work when close cancelled   *)
(* it can find the connection released: one in poll() never works on it    *)
(* again, although close does not wait for it (vde_wirefilter_close).      *)
WaitingThreadSafe ==
  \A c \in Conns :
    Working(c) /\ state[c] \in {"CLOSING", "CLOSED"} /\ "send_pipe" \notin held[c] => busy[c]

(* After close the thread ends, but for one that waits for the lock of the *)
(* receive pipe, which nobody will give it any more (sendPacket,           *)
(* vde_wirefilter_close).                                                  *)
ThreadEnds ==
  \A c \in Conns : state[c] = "CLOSED" ~> thread[c] \in {"NONE", "GONE", "LOCK"}

=============================================================================
