------------------------- MODULE WFManagementProofs -------------------------
(***************************************************************************)
(* The safety of the management sessions, for any number of sessions,      *)
(* descriptors, levels and clients: the inductive invariant ManagementInv  *)
(* and what follows from it.  The heart of it is CloseKeeps: when a        *)
(* session ends, the arrays of connections, of debug levels, of slots and  *)
(* of reports close the gap in the same way.                               *)
(***************************************************************************)
EXTENDS WFManagement, TLAPS

-----------------------------------------------------------------------------
(* Sequences, and the place of a connection *)

(* A connection is found where it is. *)
LEMMA IndexFound ==
  ASSUME NEW k \in 1 .. Count, Known
  PROVE  Index(connections[k]) = k
<1> DEFINE e == connections[k]
<1> DEFINE I == {j \in 1 .. Len(connections) : connections[j] = e}
<1>1. I = {k}
  BY DEF Known, Count
<1>2. Index(e) = SelectInSeq(connections, LAMBDA f : f = e)
  BY Zenon DEF Index
<1>3. SelectInSeq(connections, LAMBDA f : f = e) = IF I # {} THEN Min(I) ELSE 0
  BY Zenon DEF SelectInSeq
<1>4. Min(I) = CHOOSE x \in I : \A y \in I : x <= y
  BY Zenon DEF Min
<1> HIDE DEF I
<1>5. \A y \in I : k <= y
  BY <1>1
<1>6. QED
  BY <1>1, <1>2, <1>3, <1>4, <1>5

(* Two sequences, one after the other *)
LEMMA Joined ==
  ASSUME NEW S, NEW s \in Seq(S), NEW t \in Seq(S)
  PROVE  /\ s \o t \in Seq(S) /\ Len(s \o t) = Len(s) + Len(t)
         /\ \A j \in 1 .. Len(s) + Len(t) :
              (s \o t)[j] = IF j <= Len(s) THEN s[j] ELSE t[j - Len(s)]
OBVIOUS

(* A sequence without one of its elements *)
LEMMA Removed ==
  ASSUME NEW S, NEW s \in Seq(S), NEW k \in 1 .. Len(s)
  PROVE  /\ RemoveAt(s, k) \in Seq(S)
         /\ Len(RemoveAt(s, k)) = Len(s) - 1
         /\ \A j \in 1 .. Len(s) - 1 :
              RemoveAt(s, k)[j] = IF j < k THEN s[j] ELSE s[j + 1]
<1> DEFINE a == SubSeq(s, 1, k - 1)
           b == SubSeq(s, k + 1, Len(s))
<1>1. a \in Seq(S) /\ Len(a) = k - 1 /\ \A j \in 1 .. k - 1 : a[j] = s[j]
  OBVIOUS
<1>2. b \in Seq(S) /\ Len(b) = Len(s) - k /\ \A j \in 1 .. Len(s) - k : b[j] = s[k + j]
  OBVIOUS
<1>3. RemoveAt(s, k) = a \o b
  BY DEF RemoveAt
<1> HIDE DEF a, b
<1>4. QED
  BY <1>1, <1>2, <1>3, Joined

-----------------------------------------------------------------------------
(* The clients *)

(* The number of connections *)
LEMMA CountInNat ==
  ASSUME TypeOK PROVE Count \in Nat /\ Len(connections) = Count /\ MNGM_MAX_CONN \in Nat \ {0}
BY SessionAssumption DEF TypeOK, Count

(* What only the clients at the other end change *)
LEMMA ClientsMove ==
  ASSUME ManagementInv,
         UNCHANGED <<serverVars, revents, i, accepting, backlog, clients>>,
         pc' = pc \/ (pc = "STEP" /\ pc' = "ACCEPT"),
         Open' = Open,
         \A fd \in Open :
           /\ session'[fd] \in Client
           /\ session[fd].hungup => session'[fd].hungup
           /\ \A level \in Nat : OnItsWay(session[fd], level) => OnItsWay(session'[fd], level)
  PROVE  ManagementInv'
<1> USE DEF ManagementInv
<1>1. TypeOK' /\ Count' = Count
  BY DEF TypeOK, serverVars, Count, Slot
<1>2. SlotsAgree'
  BY <1>1 DEF SlotsAgree, serverVars
<1>3. Known' /\ NoneForgotten'
  BY <1>1 DEF Known, NoneForgotten, serverVars
<1>4. ReportKept'
  BY <1>1 DEF ReportKept, Known, serverVars
<1>5. LevelsKept'
  <2> SUFFICES ASSUME NEW k \in 1 .. Count
               PROVE  OnItsWay(session[connections[k]], debug_level[k])'
    BY <1>1 DEF LevelsKept
  <2>1. OnItsWay(session[connections[k]], debug_level[k]) /\ connections[k] \in Open
    BY DEF LevelsKept, Known
  <2>2. debug_level[k] \in Nat
    BY CountInNat DEF TypeOK
  <2>3. OnItsWay(session'[connections[k]], debug_level[k])
    BY <2>1, <2>2
  <2>4. connections' = connections /\ debug_level' = debug_level
    BY DEF serverVars
  <2>5. QED
    BY <2>3, <2>4 DEF OnItsWay
<1>6. QED
  BY <1>1, <1>2, <1>3, <1>4, <1>5

(* Reading, hanging up, the step of the chain and sending a command keep   *)
(* what a client asked for in step with what is on its way.                *)
LEMMA ReadKeeps ==
  ASSUME ManagementInv, NEW fd \in Fds, Read(fd)
  PROVE  ManagementInv'
<1>1. /\ Open' = Open
      /\ \A f \in Open : /\ session'[f] \in Client
                         /\ session[f].hungup => session'[f].hungup
                         /\ session'[f].asked = session[f].asked
                         /\ session'[f].sent = session[f].sent
  BY DEF Read, Open, ManagementInv, TypeOK, Client
<1>2. QED
  BY <1>1, ClientsMove DEF Read, OnItsWay, serverVars

(* A hang-up stays one. *)
LEMMA HangUpKeeps ==
  ASSUME ManagementInv, HangUp
  PROVE  ManagementInv'
<1>1. PICK fd \in Open : session' = [session EXCEPT ![fd].hungup = TRUE, ![fd].full = FALSE]
  BY DEF HangUp
<1>2. /\ Open' = Open
      /\ \A f \in Open : /\ session'[f] \in Client
                         /\ session[f].hungup => session'[f].hungup
                         /\ session'[f].asked = session[f].asked
                         /\ session'[f].sent = session[f].sent
  BY <1>1 DEF Open, ManagementInv, TypeOK, Client
<1>3. QED
  BY <1>2, ClientsMove DEF HangUp, OnItsWay, serverVars

(* The step of the chain only writes to the clients. *)
LEMMA StepKeeps ==
  ASSUME ManagementInv, StepSection
  PROVE  ManagementInv'
<1>1. PICK full \in [Told -> BOOLEAN] :
        session' = [fd \in Open |-> IF fd \in Told THEN [session[fd] EXCEPT !.full = full[fd]]
                                    ELSE session[fd]]
  BY DEF StepSection
<1>2. /\ Open' = Open
      /\ \A f \in Open : /\ session'[f] \in Client
                         /\ session[f].hungup => session'[f].hungup
                         /\ session'[f].asked = session[f].asked
                         /\ session'[f].sent = session[f].sent
  BY <1>1 DEF Open, ManagementInv, TypeOK, Client
<1>3. QED
  BY <1>2, ClientsMove DEF StepSection, OnItsWay, serverVars

(* A command is on its way. *)
LEMMA SendKeeps ==
  ASSUME ManagementInv, Send
  PROVE  ManagementInv'
<1>1. PICK fd \in Open, c \in {Logout} \cup Debug :
        session' = [session EXCEPT
                      ![fd].sent  = IF @ = None THEN c ELSE @,
                      ![fd].asked = IF session[fd].sent # None \/ @ = Unknown THEN Unknown
                                    ELSE IF c \in Debug THEN c.level ELSE @]
  BY DEF Send
<1>2. session[fd] \in Client /\ (c \in Debug => c.level \in Nat)
  BY SessionAssumption DEF ManagementInv, TypeOK, Debug
<1>3. /\ Open' = Open
      /\ \A f \in Open \ {fd} : session'[f] = session[f]
      /\ session'[fd] \in Client
      /\ session'[fd].hungup = session[fd].hungup
      /\ session'[fd].sent = IF session[fd].sent = None THEN c ELSE session[fd].sent
      /\ session'[fd].asked = IF session[fd].sent # None \/ session[fd].asked = Unknown
                              THEN Unknown
                              ELSE IF c \in Debug THEN c.level ELSE session[fd].asked
  BY <1>1, <1>2 DEF Open, Client
<1>4. None \notin Debug
  BY DEF None, Debug
<1>5. \A level \in Nat : OnItsWay(session[fd], level) => OnItsWay(session'[fd], level)
  BY <1>3, <1>4 DEF OnItsWay
<1>6. \A f \in Open : /\ session'[f] \in Client
                      /\ session[f].hungup => session'[f].hungup
                      /\ \A level \in Nat :
                           OnItsWay(session[f], level) => OnItsWay(session'[f], level)
  BY <1>3, <1>5 DEF ManagementInv, TypeOK
<1>7. QED
  BY <1>3, <1>6, ClientsMove DEF Send, serverVars

-----------------------------------------------------------------------------
(* Connecting, poll() and the new session *)

(* A client waits to be accepted. *)
LEMMA ConnectKeeps ==
  ASSUME ManagementInv, Connect
  PROVE  ManagementInv'
<1> USE DEF ManagementInv, Connect, serverVars
<1>1. TypeOK'
  BY SessionAssumption DEF TypeOK, Count, Slot, Open
<1>2. SlotsAgree' /\ Known' /\ NoneForgotten' /\ LevelsKept'
  BY DEF SlotsAgree, Known, NoneForgotten, LevelsKept, Count, Slot, Open, OnItsWay
<1>3. ReportKept'
  BY DEF ReportKept, Count, Slot, TypeOK
<1>4. QED
  BY <1>1, <1>2, <1>3

(* What poll() reports for the slots, session by session *)
LEMMA PollReports ==
  ASSUME ManagementInv, NEW s \in Slot
  PROVE  /\ Reported(slots[s]) \subseteq {"POLLIN", "POLLHUP"}
         /\ s <= Count /\ "POLLHUP" \in Reported(slots[s]) => session[connections[s]].hungup
         /\ s > Count => Reported(slots[s]) = {}
<1>1. Reported(slots[s]) \subseteq {"POLLIN", "POLLHUP"}
  BY DEF Reported
<1>2. ASSUME s <= Count, "POLLHUP" \in Reported(slots[s])
      PROVE  session[connections[s]].hungup
  <2>1. slots[s] = connections[s]
    BY <1>2 DEF ManagementInv, SlotsAgree
  <2>2. QED
    BY <1>2, <2>1 DEF Reported
<1>3. ASSUME s > Count PROVE Reported(slots[s]) = {}
  <2>1. slots[s] = Free
    BY <1>3, CountInNat DEF ManagementInv, SlotsAgree, Slot
  <2>2. QED
    BY <2>1 DEF Reported
<1>4. QED
  BY <1>1, <1>2, <1>3

(* What poll() reports is what it sees. *)
LEMMA PollKeeps ==
  ASSUME ManagementInv, NEW elsewhere \in BOOLEAN, Poll(elsewhere)
  PROVE  ManagementInv'
<1> USE DEF ManagementInv
<1>0. /\ revents' = [s \in Slot |-> Reported(slots[s])]
      /\ accepting' = (backlog > 0) /\ pc' \in {"STEP", "ACCEPT"}
      /\ UNCHANGED <<connections, debug_level, slots, i, backlog, session, clients>>
  BY DEF Poll, serverVars
<1>1. TypeOK' /\ Count' = Count
  BY <1>0, PollReports DEF TypeOK, Count, Open
<1>2. SlotsAgree' /\ Known' /\ NoneForgotten' /\ LevelsKept'
  BY <1>0 DEF SlotsAgree, Known, NoneForgotten, LevelsKept, Count, Open, OnItsWay
<1>3. ReportKept'
  <2>1. \A s \in 1 .. Count : s \in Slot /\ s <= Count
    BY CountInNat DEF TypeOK, Slot
  <2>2. \A s \in 1 .. Count : "POLLHUP" \in revents'[s] => session'[connections'[s]].hungup
    BY <1>0, <2>1, PollReports
  <2>3. \A s \in Slot : s > Count => revents'[s] = {}
    BY <1>0, PollReports
  <2>4. QED
    BY <1>0, <1>1, <2>2, <2>3 DEF ReportKept
<1>4. QED
  BY <1>1, <1>2, <1>3

(* Nobody waits, or accept() fails. *)
LEMMA AcceptNobodyKeeps ==
  ASSUME ManagementInv, AcceptNobody \/ AcceptFails
  PROVE  ManagementInv'
<1> USE DEF ManagementInv, AcceptNobody, AcceptFails, serverVars
<1>1. TypeOK'
  BY CountInNat DEF TypeOK, Count, Slot, Open
<1>2. SlotsAgree' /\ Known' /\ NoneForgotten' /\ LevelsKept'
  BY DEF SlotsAgree, Known, NoneForgotten, LevelsKept, Count, Slot, Open, OnItsWay
<1>3. ReportKept'
  BY DEF ReportKept, Count, Slot
<1>4. QED
  BY <1>1, <1>2, <1>3

(* A new client *)
LEMMA NewClientOK ==
  /\ NewClient \in Client /\ NewClient.asked = 0 /\ NewClient.sent \notin Debug
  /\ [NewClient EXCEPT !.hungup = TRUE] \in Client
<1>1. None \notin Debug
  BY DEF None, Debug
<1>2. QED
  BY <1>1 DEF NewClient, Client

(* The new session takes the first place that is free, in every array. *)
LEMMA AcceptKeeps ==
  ASSUME ManagementInv, Accept
  PROVE  ManagementInv'
<1> USE DEF ManagementInv
<1>0. /\ pc = "ACCEPT" /\ backlog' = backlog - 1 /\ pc' = "COMMANDS" /\ i' = 1
      /\ UNCHANGED <<revents, accepting, clients>>
      /\ backlog' \in Nat
  BY DEF Accept, ReportKept, TypeOK
<1>1. PICK fd \in Fds \ Open :
        \/ /\ Room
           /\ connections' = Append(connections, fd)
           /\ debug_level' = Append(debug_level, 0)
           /\ Watch(fd)
           /\ session' = WithClient(fd, NewClient)
        \/ /\ Room
           /\ session' = WithClient(fd, [NewClient EXCEPT !.hungup = TRUE])
           /\ UNCHANGED serverVars
        \/ /\ ~ Room
           /\ UNCHANGED <<serverVars, session>>
  BY DEF Accept
<1>2. CASE UNCHANGED <<serverVars, session>>
  <2>1. TypeOK'
    BY <1>0, <1>2, CountInNat DEF TypeOK, Count, Slot, Open, serverVars
  <2>2. SlotsAgree' /\ Known' /\ NoneForgotten' /\ LevelsKept'
    BY <1>2
    DEF SlotsAgree, Known, NoneForgotten, LevelsKept, Count, Slot, Open, OnItsWay, serverVars
  <2>3. ReportKept'
    BY <1>0, <1>2 DEF ReportKept, Count, Slot, serverVars
  <2>4. QED
    BY <2>1, <2>2, <2>3
<1>3. ASSUME NEW client \in Client, session' = WithClient(fd, client)
      PROVE  /\ Open' = Open \cup {fd} /\ Open' \subseteq Fds
             /\ session'[fd] = client
             /\ \A f \in Open : session'[f] = session[f]
             /\ \A f \in Open' : session'[f] \in Client
  BY <1>3 DEF WithClient, Open, TypeOK
<1>4. CASE /\ session' = WithClient(fd, [NewClient EXCEPT !.hungup = TRUE])
           /\ UNCHANGED serverVars
  <2>a. /\ Open' = Open \cup {fd} /\ Open' \subseteq Fds
        /\ \A f \in Open : session'[f] = session[f]
        /\ \A f \in Open' : session'[f] \in Client
    BY <1>3, <1>4, NewClientOK
  <2>0. /\ connections' = connections /\ debug_level' = debug_level /\ slots' = slots
        /\ Count' = Count
    BY <1>4 DEF serverVars, Count
  <2>1. TypeOK'
    BY <1>0, <2>0, <2>a, CountInNat DEF TypeOK
  <2>2. SlotsAgree'
    BY <2>0 DEF SlotsAgree, Slot
  <2>b. session'[fd].hungup
    BY <1>3, <1>4, NewClientOK DEF NewClient
  <2>3. Known' /\ NoneForgotten'
    BY <2>0, <2>a, <2>b DEF Known, NoneForgotten
  <2>4. \A k \in 1 .. Count : session'[connections'[k]] = session[connections[k]]
    BY <2>0, <2>a DEF Known
  <2>5. LevelsKept'
    BY <2>0, <2>4 DEF LevelsKept, OnItsWay
  <2>6. ReportKept'
    BY <1>0, <2>0, <2>4 DEF ReportKept
  <2>7. QED
    BY <2>1, <2>2, <2>3, <2>5, <2>6
<1>5. CASE /\ Room
           /\ connections' = Append(connections, fd)
           /\ debug_level' = Append(debug_level, 0)
           /\ Watch(fd)
           /\ session' = WithClient(fd, NewClient)
  <2>a. /\ Open' = Open \cup {fd} /\ Open' \subseteq Fds
        /\ session'[fd] = NewClient
        /\ \A f \in Open : session'[f] = session[f]
        /\ \A f \in Open' : session'[f] \in Client
    BY <1>3, <1>5, NewClientOK
  <2>1. /\ Count' = Count + 1 /\ Count + 1 \in Slot
        /\ connections' \in Seq(Fds) /\ debug_level' \in Seq(Nat) /\ Len(debug_level') = Count'
        /\ connections'[Count + 1] = fd /\ debug_level'[Count + 1] = 0
        /\ \A k \in 1 .. Count : /\ connections'[k] = connections[k]
                                 /\ debug_level'[k] = debug_level[k]
    BY <1>5, CountInNat DEF TypeOK, Count, Slot, Room
  <2>2. slots' = [slots EXCEPT ![Count + 1] = fd]
    BY <1>5 DEF Watch
  <2>3. 1 .. Count' = 1 .. Count \cup {Count + 1}
    BY <2>1, CountInNat
  <2>4. \A k \in 1 .. Count : session'[connections'[k]] = session[connections[k]]
    BY <2>1, <2>a DEF Known
  <2>5. session'[connections'[Count + 1]] = NewClient
    BY <2>1, <2>a
  <2>6. TypeOK'
    <3>1. slots' \in [Slot -> Fds \cup {Free}]
      BY <2>1, <2>2 DEF TypeOK
    <3>2. Count' <= MNGM_MAX_CONN
      BY <1>5, <2>1, CountInNat DEF Room
    <3>3. QED
      BY <1>0, <2>1, <2>a, <3>1, <3>2, CountInNat DEF TypeOK
  <2>7. SlotsAgree'
    <3> SUFFICES ASSUME NEW s \in Slot
                 PROVE  slots'[s] = IF s <= Count' THEN connections'[s] ELSE Free
      BY DEF SlotsAgree, Slot
    <3>1. s \in Nat \ {0} /\ Count \in Nat
      BY CountInNat DEF Slot
    <3>2. CASE s = Count + 1
      BY <2>1, <2>2, <3>1, <3>2 DEF TypeOK
    <3>3. CASE s # Count + 1
      <4>1. slots'[s] = slots[s]
        BY <2>2, <3>3 DEF TypeOK
      <4>2. slots[s] = IF s <= Count THEN connections[s] ELSE Free
        BY DEF SlotsAgree
      <4>3. s <= Count <=> s <= Count'
        BY <2>1, <3>1, <3>3
      <4>4. s <= Count => connections'[s] = connections[s]
        BY <2>1, <3>1
      <4>5. QED
        BY <4>1, <4>2, <4>3, <4>4
    <3>4. QED
      BY <3>2, <3>3
  <2>8. Known'
    <3>1. \A k \in 1 .. Count' : connections'[k] \in Open'
      BY <2>1, <2>3, <2>a DEF Known
    <3>2. \A k \in 1 .. Count : connections'[k] # fd
      BY <2>1 DEF Known
    <3>3. \A j, k \in 1 .. Count' : connections'[j] = connections'[k] => j = k
      BY <2>1, <2>3, <3>2 DEF Known
    <3>4. QED
      BY <3>1, <3>3 DEF Known
  <2>8a. NoneForgotten'
    <3> SUFFICES ASSUME NEW f \in Open', ~ session'[f].hungup
                 PROVE  \E k \in 1 .. Count' : connections'[k] = f
      BY DEF NoneForgotten
    <3>1. CASE f = fd
      BY <2>1, <2>3, <3>1
    <3>2. CASE f # fd
      <4>1. PICK k \in 1 .. Count : connections[k] = f
        BY <2>a, <3>2 DEF NoneForgotten
      <4>2. QED
        BY <2>1, <2>3, <4>1
    <3>3. QED
      BY <3>1, <3>2
  <2>9. LevelsKept'
    BY <2>1, <2>3, <2>4, <2>5, NewClientOK DEF LevelsKept, OnItsWay
  <2>10. ReportKept'
    <3>1. revents[Count + 1] = {}
      BY <1>0, <2>1, CountInNat DEF ReportKept
    <3>2. \A s \in 1 .. Count' :
            "POLLHUP" \in revents'[s] => session'[connections'[s]].hungup
      BY <1>0, <2>3, <2>4, <3>1 DEF ReportKept
    <3>3. QED
      BY <1>0, <3>2 DEF ReportKept
  <2>11. QED
    BY <2>6, <2>7, <2>8, <2>8a, <2>9, <2>10
<1>6. QED
  BY <1>1, <1>2, <1>4, <1>5

-----------------------------------------------------------------------------
(* Commands and the end of a session *)

(* The command of one session is executed: only that client and that debug *)
(* level change. *)
LEMMA ExecuteKeeps ==
  ASSUME ManagementInv, NEW k \in 1 .. Count, pc = "COMMANDS", i' \in 1 .. MNGM_MAX_CONN + 1,
         Execute(connections[k], session[connections[k]].sent),
         UNCHANGED <<connections, slots, revents, pc, accepting, backlog, clients>>
  PROVE  ManagementInv'
<1> USE DEF ManagementInv
<1> DEFINE fd == connections[k]
           c  == session[fd].sent
<1>1. /\ fd \in Open /\ session[fd] \in Client /\ Index(fd) = k
      /\ c \in {None, Logout} \cup Debug
      /\ session[fd].full \in BOOLEAN
  BY IndexFound DEF Known, TypeOK, Client
<1>2. PICK full \in BOOLEAN :
        session' = [session EXCEPT ![fd].sent = None, ![fd].full = full,
                                   ![fd].logged_out = @ \/ c = Logout]
  <2>1. PICK full \in (IF c = None THEN {session[fd].full} ELSE Written(fd)) :
          session' = [session EXCEPT ![fd].sent = None, ![fd].full = full,
                                     ![fd].logged_out = @ \/ c = Logout]
    BY DEF Execute
  <2>2. full \in BOOLEAN
    BY <1>1, <2>1 DEF Written
  <2>3. QED
    BY <2>1, <2>2
<1>3. debug_level' = IF c \in Debug THEN [debug_level EXCEPT ![k] = c.level] ELSE debug_level
  BY <1>1 DEF Execute
<1>4. /\ Open' = Open /\ Count' = Count
      /\ \A f \in Open \ {fd} : session'[f] = session[f]
      /\ session'[fd] \in Client
      /\ session'[fd].hungup = session[fd].hungup
      /\ session'[fd].sent = None
      /\ session'[fd].asked = session[fd].asked
  BY <1>1, <1>2 DEF Open, Client, Count
<1>5. None \notin Debug /\ (c \in Debug => c.level \in Nat)
  BY SessionAssumption DEF None, Debug
<1>6. /\ debug_level' \in Seq(Nat) /\ Len(debug_level') = Count
      /\ \A j \in 1 .. Count : j # k => debug_level'[j] = debug_level[j]
      /\ debug_level'[k] = IF c \in Debug THEN c.level ELSE debug_level[k]
  BY <1>3, <1>5, CountInNat DEF TypeOK
<1> HIDE DEF fd, c
<1>7. TypeOK'
  <2>1. \A f \in Open : session'[f] \in Client
    BY <1>4 DEF TypeOK
  <2>2. QED
    BY <1>4, <1>6, <2>1, CountInNat DEF TypeOK
<1>8. SlotsAgree'
  BY <1>4 DEF SlotsAgree, Slot
<1>9. Known' /\ NoneForgotten'
  BY <1>4 DEF Known, NoneForgotten
<1>10. ReportKept'
  BY <1>4 DEF ReportKept, Known
<1>11. LevelsKept'
  <2> SUFFICES ASSUME NEW j \in 1 .. Count
               PROVE  OnItsWay(session'[connections[j]], debug_level'[j])
    BY <1>4 DEF LevelsKept, OnItsWay
  <2>1. OnItsWay(session[connections[j]], debug_level[j])
    BY DEF LevelsKept
  <2>2. CASE j = k
    BY <1>4, <1>5, <1>6, <2>1, <2>2 DEF OnItsWay, fd, c
  <2>3. CASE j # k
    <3>1. connections[j] # fd /\ connections[j] \in Open
      BY <2>3 DEF Known, fd
    <3>2. QED
      BY <1>4, <1>6, <2>1, <2>3, <3>1
  <2>4. QED
    BY <2>2, <2>3
<1>12. QED
  BY <1>7, <1>8, <1>9, <1>10, <1>11

(* The section of the commands *)
LEMMA CommandKeeps ==
  ASSUME ManagementInv, CommandSection
  PROVE  ManagementInv'
<1>0. /\ pc = "COMMANDS"
      /\ UNCHANGED <<connections, slots, revents, accepting, backlog, clients>>
      /\ i \in 1 .. MNGM_MAX_CONN + 1
  BY DEF CommandSection, ManagementInv, TypeOK
<1>1. CASE LoopOver /\ pc' = "HANGUP" /\ i' = 1 /\ UNCHANGED <<session, debug_level>>
  <2>1. TypeOK' /\ Count' = Count
    BY <1>0, <1>1, CountInNat DEF ManagementInv, TypeOK, Count, Slot, Open
  <2>2. SlotsAgree' /\ Known' /\ NoneForgotten' /\ LevelsKept'
    BY <1>0, <1>1, <2>1
    DEF ManagementInv, SlotsAgree, Known, NoneForgotten, LevelsKept, Slot, Open, OnItsWay
  <2>3. ReportKept'
    BY <1>0, <1>1, <2>1 DEF ManagementInv, ReportKept
  <2>4. QED
    BY <2>1, <2>2, <2>3 DEF ManagementInv
<1>2. CASE /\ ~ LoopOver /\ i' = i + 1 /\ UNCHANGED pc
           /\ IF "POLLIN" \in revents[i]
              THEN Execute(slots[i], session[slots[i]].sent)
              ELSE UNCHANGED <<session, debug_level>>
  <2>1. i \in 1 .. Count /\ i \in Slot /\ i' \in 1 .. MNGM_MAX_CONN + 1
    BY <1>0, <1>2, CountInNat DEF ManagementInv, TypeOK, LoopOver, Slot
  <2>2. slots[i] = connections[i]
    BY <2>1 DEF ManagementInv, SlotsAgree
  <2>3. CASE "POLLIN" \in revents[i]
    BY <1>0, <1>2, <2>1, <2>2, <2>3, ExecuteKeeps
  <2>4. CASE UNCHANGED <<session, debug_level>>
    <3>1. TypeOK' /\ Count' = Count
      BY <1>0, <1>2, <2>1, <2>4 DEF ManagementInv, TypeOK, Count, Slot, Open
    <3>2. SlotsAgree' /\ Known' /\ NoneForgotten' /\ LevelsKept'
      BY <1>0, <2>4, <3>1
      DEF ManagementInv, SlotsAgree, Known, NoneForgotten, LevelsKept, Slot, Open, OnItsWay
    <3>3. ReportKept'
      BY <1>0, <1>2, <2>4, <3>1 DEF ManagementInv, ReportKept
    <3>4. QED
      BY <3>1, <3>2, <3>3 DEF ManagementInv
  <2>5. QED
    BY <1>2, <2>3, <2>4
<1>3. QED
  BY <1>1, <1>2 DEF CommandSection

(* A session ends: the arrays close the gap, all in the same way. *)
LEMMA CloseKeeps ==
  ASSUME ManagementInv, NEW k \in 1 .. Count, pc = "HANGUP",
         closeManagementConnection(connections[k]), ShiftSlots(k),
         UNCHANGED <<pc, i, accepting, backlog, clients>>
  PROVE  ManagementInv'
<1> USE DEF ManagementInv
<1> DEFINE fd == connections[k]
<1>0. Count \in Nat /\ Count' = Len(connections') /\ k \in Slot
  BY CountInNat DEF Count, TypeOK, Slot
<1>1. fd \in Open /\ Index(fd) = k
  BY IndexFound DEF Known
<1>2. /\ connections' = RemoveAt(connections, k)
      /\ debug_level' = RemoveAt(debug_level, k)
      /\ session' = [f \in Open \ {fd} |-> session[f]]
  BY <1>1 DEF closeManagementConnection
<1>3. /\ connections' \in Seq(Fds) /\ Count' = Count - 1
      /\ \A j \in 1 .. Count - 1 :
           connections'[j] = IF j < k THEN connections[j] ELSE connections[j + 1]
  <2>1. connections \in Seq(Fds) /\ k \in 1 .. Len(connections) /\ Len(connections) = Count
    BY CountInNat DEF TypeOK
  <2>2. /\ RemoveAt(connections, k) \in Seq(Fds) /\ Len(RemoveAt(connections, k)) = Count - 1
        /\ \A j \in 1 .. Count - 1 : RemoveAt(connections, k)[j] =
                                     IF j < k THEN connections[j] ELSE connections[j + 1]
    BY <2>1, Removed
  <2>3. QED
    BY <1>0, <1>2, <2>2
<1>4. /\ debug_level' \in Seq(Nat) /\ Len(debug_level') = Count - 1
      /\ \A j \in 1 .. Count - 1 :
           debug_level'[j] = IF j < k THEN debug_level[j] ELSE debug_level[j + 1]
  BY <1>0, <1>2, Removed, CountInNat DEF TypeOK
<1>5. Open' = Open \ {fd} /\ \A f \in Open' : session'[f] = session[f]
  BY <1>2 DEF Open
<1>6. /\ slots' = [s \in Slot |-> IF s < k THEN slots[s]
                                  ELSE IF s < Count THEN slots[s + 1] ELSE Free]
      /\ revents' = [s \in Slot |-> IF s < k \/ s >= Count THEN revents[s] ELSE revents[s + 1]]
  BY DEF ShiftSlots
<1> DEFINE old(j) == IF j < k THEN j ELSE j + 1
<1>7. /\ \A j \in 1 .. Count - 1 : old(j) \in 1 .. Count /\ old(j) # k
      /\ \A j, l \in 1 .. Count - 1 : old(j) = old(l) => j = l
  BY <1>0
<1>8. \A j \in 1 .. Count - 1 : /\ connections'[j] = connections[old(j)]
                                /\ debug_level'[j] = debug_level[old(j)]
                                /\ revents'[j] = revents[old(j)]
  <2> SUFFICES ASSUME NEW j \in 1 .. Count - 1
               PROVE  /\ connections'[j] = connections[old(j)]
                      /\ debug_level'[j] = debug_level[old(j)]
                      /\ revents'[j] = revents[old(j)]
    OBVIOUS
  <2>1. j \in Slot /\ j < Count
    BY <1>0, CountInNat DEF TypeOK, Slot
  <2>2. QED
    BY <1>0, <1>3, <1>4, <1>6, <2>1
<1> HIDE DEF old
<1>9. \A j \in 1 .. Count - 1 : connections'[j] # fd /\ connections[old(j)] \in Open
  BY <1>0, <1>7, <1>8 DEF Known
<1>10. \A j \in 1 .. Count - 1 :
         connections'[j] \in Open' /\ session'[connections'[j]] = session[connections[old(j)]]
  BY <1>5, <1>8, <1>9
<1>11. TypeOK'
  <2>1. slots' \in [Slot -> Fds \cup {Free}]
    <3>1. \A s \in Slot : s < Count => s + 1 \in Slot
      BY <1>0, CountInNat DEF TypeOK, Slot
    <3>2. QED
      BY <1>6, <3>1 DEF TypeOK
  <2>2. revents' \in [Slot -> SUBSET {"POLLIN", "POLLHUP"}]
    <3>1. \A s \in Slot : ~ (s < k \/ s >= Count) => s + 1 \in Slot
      BY <1>0, CountInNat DEF TypeOK, Slot
    <3>2. QED
      BY <1>6, <3>1 DEF TypeOK
  <2>3. Open' \subseteq Fds /\ \A f \in Open' : session'[f] \in Client
    BY <1>5 DEF TypeOK
  <2>4. Count' <= MNGM_MAX_CONN
    BY <1>0, <1>3, CountInNat DEF TypeOK
  <2>5. QED
    BY <1>3, <1>4, <2>1, <2>2, <2>3, <2>4 DEF TypeOK
<1>12. SlotsAgree'
  <2> SUFFICES ASSUME NEW s \in Slot
               PROVE  slots'[s] = IF s <= Count - 1 THEN connections'[s] ELSE Free
    BY <1>3 DEF SlotsAgree, Slot
  <2>1. s \in Nat \ {0} /\ (s < Count => s + 1 \in Slot)
    BY <1>0, CountInNat DEF TypeOK, Slot
  <2>2. slots'[s] = IF s < k THEN slots[s] ELSE IF s < Count THEN slots[s + 1] ELSE Free
    BY <1>6
  <2>3. CASE s < k
    <3>1. slots[s] = connections[s] /\ s \in 1 .. Count - 1
      BY <1>0, <2>1, <2>3 DEF SlotsAgree
    <3>2. QED
      BY <1>3, <2>1, <2>2, <2>3, <3>1
  <2>4. CASE s >= k /\ s < Count
    <3>1. slots[s + 1] = connections[s + 1] /\ s \in 1 .. Count - 1
      BY <1>0, <2>1, <2>4 DEF SlotsAgree
    <3>2. QED
      BY <1>0, <1>3, <2>1, <2>2, <2>4, <3>1
  <2>5. CASE s >= Count
    BY <1>0, <2>1, <2>2, <2>5
  <2>6. QED
    BY <1>0, <2>1, <2>3, <2>4, <2>5
<1>13. Known'
  <2>1. \A j, l \in 1 .. Count - 1 : connections'[j] = connections'[l] => j = l
    BY <1>7, <1>8 DEF Known
  <2>2. QED
    BY <1>3, <1>10, <2>1 DEF Known
<1>13a. NoneForgotten'
  <2> SUFFICES ASSUME NEW f \in Open', ~ session'[f].hungup
               PROVE  \E j \in 1 .. Count - 1 : connections'[j] = f
    BY <1>3 DEF NoneForgotten
  <2>1. PICK j \in 1 .. Count : connections[j] = f
    BY <1>5 DEF NoneForgotten
  <2>2. j # k
    BY <1>5, <2>1
  <2>3. CASE j < k
    BY <1>0, <1>3, <2>1, <2>3
  <2>4. CASE j > k
    <3>1. j - 1 \in 1 .. Count - 1 /\ ~ (j - 1 < k)
      BY <1>0, <2>4
    <3>2. connections'[j - 1] = connections[j]
      BY <1>0, <1>3, <3>1
    <3>3. QED
      BY <2>1, <3>1, <3>2
  <2>5. QED
    BY <1>0, <2>2, <2>3, <2>4
<1>14. ReportKept'
  BY <1>3, <1>7, <1>8, <1>10 DEF ReportKept
<1>15. LevelsKept'
  <2> SUFFICES ASSUME NEW j \in 1 .. Count - 1
               PROVE  OnItsWay(session'[connections'[j]], debug_level'[j])
    BY <1>3 DEF LevelsKept, OnItsWay
  <2>1. OnItsWay(session[connections[old(j)]], debug_level[old(j)])
    BY <1>7 DEF LevelsKept
  <2>2. QED
    BY <1>8, <1>10, <2>1
<1>16. QED
  BY <1>11, <1>12, <1>13, <1>13a, <1>14, <1>15

(* The section of the hang-ups *)
LEMMA HangUpSectionKeeps ==
  ASSUME ManagementInv, HangUpSection
  PROVE  ManagementInv'
<1>0. /\ pc = "HANGUP" /\ UNCHANGED <<accepting, backlog, clients>>
      /\ i \in 1 .. MNGM_MAX_CONN + 1
      /\ ~ LoopOver => i \in 1 .. Count
  BY CountInNat DEF HangUpSection, ManagementInv, TypeOK, LoopOver
<1>1. CASE ~ LoopOver /\ "POLLHUP" \in revents[i]
  <2>1. /\ closeManagementConnection(slots[i]) /\ ShiftSlots(i) /\ UNCHANGED <<pc, i>>
    BY <1>0, <1>1 DEF HangUpSection
  <2>2. slots[i] = connections[i]
    BY <1>0, <1>1, CountInNat DEF ManagementInv, SlotsAgree, TypeOK, Slot
  <2>3. QED
    BY <1>0, <1>1, <2>1, <2>2, CloseKeeps
<1>2. CASE /\ UNCHANGED <<serverVars, revents, session>>
           /\ \/ pc' = "POLL" /\ i' = 1
              \/ ~ LoopOver /\ i' = i + 1 /\ pc' = pc
  <2>1. TypeOK' /\ Count' = Count
    BY <1>0, <1>2, CountInNat DEF ManagementInv, TypeOK, Count, Slot, Open, serverVars
  <2>2. SlotsAgree' /\ Known' /\ NoneForgotten' /\ LevelsKept'
    BY <1>2, <2>1
    DEF ManagementInv, SlotsAgree, Known, NoneForgotten, LevelsKept, Slot, Open, OnItsWay,
        serverVars
  <2>3. ReportKept'
    BY <1>0, <1>2, <2>1 DEF ManagementInv, ReportKept, serverVars
  <2>4. QED
    BY <2>1, <2>2, <2>3 DEF ManagementInv
<1>3. QED
  BY <1>0, <1>1, <1>2 DEF HangUpSection

-----------------------------------------------------------------------------
(* The invariant and the theorems *)

(* No session at first *)
LEMMA InitOK == Init => ManagementInv
<1> SUFFICES ASSUME Init PROVE ManagementInv
  OBVIOUS
<1>1. Count = 0 /\ Open = {}
  BY DEF Init, Count, Open
<1>2. TypeOK
  <2>1. connections \in Seq(Fds) /\ debug_level \in Seq(Nat) /\ Len(debug_level) = 0
    BY DEF Init
  <2>2. slots \in [Slot -> Fds \cup {Free}]
    BY DEF Init
  <2>3. revents \in [Slot -> SUBSET {"POLLIN", "POLLHUP"}]
    BY DEF Init
  <2>4. i \in 1 .. MNGM_MAX_CONN + 1 /\ Count <= MNGM_MAX_CONN /\ clients \in 0 .. MaxClients
    BY <1>1, SessionAssumption DEF Init
  <2>5. QED
    BY <1>1, <2>1, <2>2, <2>3, <2>4 DEF Init, TypeOK
<1>3. SlotsAgree /\ Known /\ ReportKept /\ LevelsKept
  BY <1>1 DEF Init, SlotsAgree, Known, ReportKept, LevelsKept, Slot
<1>4. NoneForgotten
  BY <1>1 DEF NoneForgotten
<1>5. QED
  BY <1>2, <1>3, <1>4 DEF ManagementInv

(* Every step keeps the invariant. *)
LEMMA NextKeeps == ManagementInv /\ [Next]_vars => ManagementInv'
<1> SUFFICES ASSUME ManagementInv, [Next]_vars PROVE ManagementInv'
  OBVIOUS
<1>1. CASE UNCHANGED vars
  <2>1. TypeOK' /\ Count' = Count
    BY <1>1 DEF ManagementInv, TypeOK, vars, serverVars, Count, Slot, Open
  <2>2. SlotsAgree' /\ Known' /\ NoneForgotten' /\ LevelsKept' /\ ReportKept'
    BY <1>1, <2>1
    DEF ManagementInv, SlotsAgree, Known, NoneForgotten, LevelsKept, ReportKept, vars,
        serverVars, Slot, Open, OnItsWay
  <2>3. QED
    BY <2>1, <2>2 DEF ManagementInv
<1>2. CASE \E elsewhere \in BOOLEAN : Poll(elsewhere)
  BY <1>2, PollKeeps
<1>3. CASE StepSection
  BY <1>3, StepKeeps
<1>4. CASE Accept
  BY <1>4, AcceptKeeps
<1>5. CASE AcceptNobody \/ AcceptFails
  BY <1>5, AcceptNobodyKeeps
<1>6. CASE CommandSection
  BY <1>6, CommandKeeps
<1>7. CASE HangUpSection
  BY <1>7, HangUpSectionKeeps
<1>8. CASE Connect
  BY <1>8, ConnectKeeps
<1>9. CASE Send
  BY <1>9, SendKeeps
<1>10. CASE HangUp
  BY <1>10, HangUpKeeps
<1>11. CASE \E fd \in Fds : Read(fd)
  BY <1>11, ReadKeeps
<1>12. QED
  BY <1>1, <1>2, <1>3, <1>4, <1>5, <1>6, <1>7, <1>8, <1>9, <1>10, <1>11
  DEF Next, Handler, Sections

(* The arrays of the sessions, what poll() reported and what the clients   *)
(* asked for stay in step, for any number of sessions and descriptors.     *)
THEOREM ManagementInvariant == Spec => []ManagementInv
BY InitOK, NextKeeps, PTL DEF Spec

(* Type correctness of the management sessions. *)
THEOREM TypeCorrect == Spec => []TypeOK
<1>1. ManagementInv => TypeOK
  BY DEF ManagementInv
<1>2. QED
  BY <1>1, ManagementInvariant, PTL

(* What poll() watches are the connections, in the same order (the shifts  *)
(* in packetHandlerThread and in closeManagementConnection).               *)
THEOREM SlotsAlwaysAgree == Spec => []SlotsAgree
<1>1. ManagementInv => SlotsAgree
  BY DEF ManagementInv
<1>2. QED
  BY <1>1, ManagementInvariant, PTL

(* A session keeps the debug level its client asked for, whatever other    *)
(* sessions begin and end (markovSetDebugLevel).                           *)
THEOREM LevelsAlwaysFollow == Spec => []LevelsFollow
<1>1. ManagementInv => LevelsFollow
  <2>1. None \notin Debug
    BY DEF None, Debug
  <2>2. QED
    BY <2>1 DEF ManagementInv, LevelsKept, OnItsWay, LevelsFollow
<1>2. QED
  BY <1>1, ManagementInvariant, PTL

(* No descriptor of a session is forgotten: each one is known until it is  *)
(* closed, but for those of clients that were never greeted.               *)
THEOREM NoneEverForgotten == Spec => []NoneForgotten
<1>1. ManagementInv => NoneForgotten
  BY DEF ManagementInv
<1>2. QED
  BY <1>1, ManagementInvariant, PTL

(* Only the section of the hang-ups closes a descriptor. *)
LEMMA ClosedBySection ==
  ASSUME ManagementInv, Next, NEW fd \in Open, fd \notin Open'
  PROVE  session[fd].hungup
<1>1. CASE (\E elsewhere \in BOOLEAN : Poll(elsewhere)) \/ AcceptNobody \/ AcceptFails \/ Connect
  BY <1>1 DEF Poll, AcceptNobody, AcceptFails, Connect, Open
<1>2. CASE StepSection
  BY <1>2 DEF StepSection, Open
<1>3. CASE Send \/ HangUp \/ \E f \in Fds : Read(f)
  BY <1>3 DEF Send, HangUp, Read, Open
<1>4. CASE Accept
  BY <1>4 DEF Accept, WithClient, Open
<1>5. CASE CommandSection
  BY <1>5 DEF CommandSection, Execute, Open
<1>6. CASE HangUpSection
  <2>1. CASE UNCHANGED session
    BY <2>1 DEF Open
  <2>2. CASE /\ pc = "HANGUP" /\ ~ LoopOver /\ "POLLHUP" \in revents[i]
             /\ closeManagementConnection(slots[i])
    <3>1. i \in 1 .. Count /\ i \in Slot
      BY <2>2, CountInNat DEF ManagementInv, TypeOK, LoopOver, Slot
    <3>2. slots[i] = connections[i]
      BY <3>1 DEF ManagementInv, SlotsAgree
    <3>3. session[connections[i]].hungup
      BY <2>2, <3>1 DEF ManagementInv, ReportKept
    <3>4. Open' = Open \ {slots[i]}
      BY <2>2 DEF closeManagementConnection, Open
    <3>5. QED
      BY <3>2, <3>3, <3>4
  <2>3. QED
    BY <1>6, <2>1, <2>2 DEF HangUpSection
<1>7. QED
  BY <1>1, <1>2, <1>3, <1>4, <1>5, <1>6 DEF Next, Handler, Sections

(* Only a session whose client has hung up is closed, although the slots   *)
(* move under the loop that closes them.                                   *)
THEOREM OnlyHungUpAreClosed == Spec => OnlyHungUpClosed
<1>1. ManagementInv /\ [Next]_vars =>
        [\A fd \in Open : fd \notin Open' => session[fd].hungup]_vars
  BY ClosedBySection
<1>2. QED
  BY <1>1, ManagementInvariant, PTL DEF Spec, OnlyHungUpClosed

=============================================================================
