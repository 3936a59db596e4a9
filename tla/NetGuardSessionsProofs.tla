----------------------- MODULE NetGuardSessionsProofs -----------------------
(***************************************************************************)
(* The invariants of the session table, and that each of its entries       *)
(* follows SessionLife, for every number of sessions, flows and packets.   *)
(*                                                                         *)
(* Most steps change entries without adding one: such a change is an       *)
(* Evolves, a relation of an entry before and after.  The lemmas of the    *)
(* first part show what the handlers make of one entry; those of the       *)
(* second part lift that to the table, whatever the number of entries that *)
(* change at once.  A session is added by Opens alone.  The last part is   *)
(* about the timeouts, which depend on the number of sessions.             *)
(***************************************************************************)
EXTENDS NetGuardSessions, FiniteSetTheorems, TLAPS

\* An entry is free, or has a flow; its socket is as its state says.
EntryOK(s) ==
    /\ s.st = "none" => s = Free
    /\ s.st # "none" => s.flow \in Flows
    /\ s.st \in {"active", "closing"} /\ s.flow \notin Tcp => s.socket
    /\ s.st \in {"none", "closed", "blocked"} => ~s.socket
    /\ s.reg => s.socket

EntryInv == \A p \in Ptr : EntryOK(ses[p])

\* There are events and packets only within a batch.
LoopInv == loop.pc # "batch" => loop.evs = {} /\ loop.tun = 0

\* The active sessions that are limited.
Limit(t) == {p \in Ptr : t[p].st = "active" /\ (Fwd53 \/ t[p].flow \notin Dns)}

\* The packets of a batch that may have been handled.
Handled == IF loop.pc = "wait" THEN 0 ELSE TunYield - loop.tun

\* Sessions are added only while the count of the loop is below the limit, and then
\* one by a packet.
LimitInv ==
    /\ Cardinality(Limit(ses)) <= MaxSessions - 1 + TunYield
    /\ loop.pc \in {"wait", "batch"} /\ loop.sessions < MaxSessions =>
         Cardinality(Limit(ses)) <= loop.sessions + Handled

IInv ==
    /\ TypeOK /\ EntryInv /\ LoopInv /\ NoDescriptorLeak /\ EventsHaveSession
    /\ OneSessionPerFlow /\ LimitInv

-----------------------------------------------------------------------------
(* One entry *)

\* A step of SessionLife, or none, of an entry s that becomes t.
LifeStep(s, t) ==
    \/ t.st = s.st /\ t.socket = s.socket
    \/ s.st = "none" /\ t.st \in {"active", "closing"} /\ t.socket
    \/ s.st = "none" /\ t.st = "blocked" /\ t.socket = s.socket
    \/ s.st = "active" /\ s.socket /\ t.st \in {"active", "closing"} /\ ~t.socket
    \/ s.st = "active" /\ t.st = "closing" /\ t.socket = s.socket
    \/ s.st = "active" /\ ~s.socket /\ t.st = "closed" /\ t.socket = s.socket
    \/ s.st \in {"active", "closing"} /\ t.st = "closed" /\ ~t.socket
    \/ s.st \in {"closed", "blocked"} /\ ~s.socket /\ t.st = "none" /\ t.socket = s.socket
    \/ s.st # "none" /\ t.st = "none" /\ ~t.socket

\* A change of an entry that adds no session: it keeps its flow or is freed, and
\* does not become active.
Evolves(s, t) ==
    /\ t \in Entry /\ EntryOK(t) /\ LifeStep(s, t)
    /\ t.flow = s.flow \/ t.flow = NoFlow
    /\ t.st = "active" => s.st = "active" /\ t.flow = s.flow

\* The clock of an entry starts at zero.
LEMMA ZeroAge == 0 \in 0..AgeBound
  BY SessionsAssumption

\* What keeps flow, state and socket of an entry.
LEMMA Same ==
  ASSUME NEW s \in Entry, EntryOK(s), NEW t \in Entry, s.st # "none",
         t.flow = s.flow, t.st = s.st, t.socket = s.socket, t.reg => s.reg
  PROVE  Evolves(s, t)
  BY DEF Evolves, EntryOK, LifeStep

\* What closes an entry and leaves its socket to the session check.
LEMMA Ending ==
  ASSUME NEW s \in Entry, EntryOK(s), NEW t \in Entry, s.st \in {"active", "closing"},
         t.flow = s.flow, t.st = "closing", t.socket = s.socket, t.reg => s.reg
  PROVE  Evolves(s, t)
  BY DEF Evolves, EntryOK, LifeStep

\* An entry that is left alone.
LEMMA Unchanged ==
  ASSUME NEW s \in Entry, EntryOK(s)
  PROVE  Evolves(s, s)
  BY DEF Evolves, LifeStep

\* An entry that is freed.
LEMMA FreeFacts ==
  /\ Free \in Entry /\ EntryOK(Free) /\ ~Free.socket /\ Free.st = "none"
  /\ Free.flow = NoFlow /\ Free.reg = FALSE
  <1>1. 0 \in 0..AgeBound BY ZeroAge
  <1> QED BY <1>1 DEF Free, Entry, EntryOK, NoFlow

LEMMA Freeing ==
  ASSUME NEW s \in Entry, s.st # "none"
  PROVE  Evolves(s, Free)
  BY FreeFacts DEF Evolves, LifeStep

\* sendto: the session is used, or closed when sendto fails.
LEMMA SentFacts ==
  ASSUME NEW s \in Entry, NEW ok \in BOOLEAN
  PROVE  /\ Sent(s, ok) \in Entry /\ Sent(s, ok).flow = s.flow
         /\ Sent(s, ok).socket = s.socket /\ Sent(s, ok).reg = s.reg
         /\ Sent(s, ok).st = IF ok THEN s.st ELSE "closing"
         /\ Sent(s, ok).asked = s.asked
  <1>1. 0 \in 0..AgeBound BY ZeroAge
  <1> DEFINE st == IF ok THEN s.st ELSE "closing"
  <1>2. Sent(s, ok) = [s EXCEPT !.age = 0, !.st = st]
    BY DEF Sent
  <1>3. st \in {"none", "active", "closing", "closed", "blocked"}
    BY DEF Entry
  <1> HIDE DEF st
  <1>4. /\ Sent(s, ok) \in Entry /\ Sent(s, ok).flow = s.flow
        /\ Sent(s, ok).socket = s.socket /\ Sent(s, ok).reg = s.reg
        /\ Sent(s, ok).st = st /\ Sent(s, ok).asked = s.asked
    BY <1>1, <1>2, <1>3 DEF Entry
  <1> QED BY <1>4 DEF st

\* The set of unanswered requests may change on the way.
LEMMA AskedFacts ==
  ASSUME NEW s \in Entry, NEW A \in SUBSET Ids
  PROVE  /\ [s EXCEPT !.asked = A] \in Entry /\ [s EXCEPT !.asked = A].flow = s.flow
         /\ [s EXCEPT !.asked = A].socket = s.socket /\ [s EXCEPT !.asked = A].reg = s.reg
         /\ [s EXCEPT !.asked = A].st = s.st
  BY DEF Entry

\* A new session.
LEMMA NewActive ==
  ASSUME NEW f \in Flows, NEW id, id = 0 \/ id \in Ids
  PROVE  /\ New(f, "active", id) \in Entry /\ New(f, "active", id).flow = f
         /\ New(f, "active", id).st = "active" /\ New(f, "active", id).socket = TRUE
  <1>1. 0 \in 0..AgeBound BY ZeroAge
  <1> QED BY <1>1 DEF New, Entry

LEMMA NewBlocked ==
  ASSUME NEW f \in Flows
  PROVE  /\ New(f, "blocked", 0) \in Entry /\ New(f, "blocked", 0).flow = f
         /\ New(f, "blocked", 0).st = "blocked"
         /\ New(f, "blocked", 0).socket = FALSE /\ New(f, "blocked", 0).reg = FALSE
  <1>1. 0 \in 0..AgeBound BY ZeroAge
  <1> QED BY <1>1 DEF New, Entry

\* A packet of the app to a TCP session.
LEMMA AfterPacketFacts ==
  ASSUME NEW s \in Entry, EntryOK(s), s.st # "none", s.flow \in Tcp, NEW t \in AfterPacket(s)
  PROVE  Evolves(s, t) /\ t.socket = s.socket /\ t.st # "none"
  <1>1. 0 \in 0..AgeBound BY ZeroAge
  <1>2. CASE s.st # "active"
    <2>1. t = s BY <1>2 DEF AfterPacket
    <2> QED BY <2>1, Unchanged
  <1>3. CASE s.st = "active"
    <2>1. PICK st \in {"active", "closing"} \union (IF s.socket THEN {} ELSE {"closed"}) :
             t = [s EXCEPT !.age = 0, !.st = st]
      BY <1>3 DEF AfterPacket
    <2>2. st \in {"active", "closing", "closed"} /\ (st = "closed" => ~s.socket)
      BY <2>1
    <2>3. /\ t \in Entry /\ t.flow = s.flow /\ t.socket = s.socket /\ t.reg = s.reg
          /\ t.st = st
      BY <1>1, <2>1, <2>2 DEF Entry
    <2> QED BY <1>3, <2>2, <2>3 DEF Evolves, EntryOK, LifeStep
  <1> QED BY <1>2, <1>3

\* An event of a UDP socket.
LEMMA UdpSocketFacts ==
  ASSUME NEW s \in Entry, EntryOK(s), s.st # "none", s.socket, NEW ev, NEW ok \in BOOLEAN
  PROVE  /\ Evolves(s, check_udp_socket(s, ev, ok))
         /\ check_udp_socket(s, ev, ok).socket = s.socket
  <1>1. 0 \in 0..AgeBound BY ZeroAge
  <1>2. s.st \in {"active", "closing"} BY DEF EntryOK, Entry
  <1>3. CASE ev = "ERR"
    BY <1>3, Unchanged DEF check_udp_socket
  <1>4. CASE ev # "ERR"
    <2> DEFINE st == IF ev = "AGAIN" \/ (ok /\ s.flow \notin Dns) THEN s.st ELSE "closing"
               t == [s EXCEPT !.age = 0, !.st = st]
    <2>1. st \in {s.st, "closing"} /\ check_udp_socket(s, ev, ok) = t
      BY <1>4 DEF check_udp_socket, Entry
    <2> HIDE DEF st
    <2>2. t \in Entry /\ t.flow = s.flow /\ t.socket = s.socket /\ t.reg = s.reg /\ t.st = st
      BY <1>1, <1>2, <2>1 DEF Entry
    <2>3. Evolves(s, t) BY <1>2, <2>1, <2>2, Same, Ending
    <2> QED BY <2>1, <2>2, <2>3
  <1> QED BY <1>3, <1>4

\* An event of an ICMP socket, whatever becomes of the requests.
LEMMA IcmpSocketFacts ==
  ASSUME NEW s \in Entry, EntryOK(s), s.st # "none", s.socket, NEW ev, NEW ok \in BOOLEAN
  PROVE  /\ Evolves(s, check_icmp_socket(s, ev, ok))
         /\ check_icmp_socket(s, ev, ok).socket = s.socket
         /\ check_icmp_socket(s, ev, ok).st # "none"
         /\ check_icmp_socket(s, ev, ok).asked = s.asked
  <1>1. 0 \in 0..AgeBound BY ZeroAge
  <1>2. s.st \in {"active", "closing"} BY DEF EntryOK, Entry
  <1> DEFINE st == IF ok /\ ev = "IN" THEN s.st ELSE "closing"
             t == [s EXCEPT !.age = 0, !.st = st]
  <1>3. st \in {s.st, "closing"} /\ check_icmp_socket(s, ev, ok) = t
    BY DEF check_icmp_socket
  <1> HIDE DEF st
  <1>4. /\ t \in Entry /\ t.flow = s.flow /\ t.socket = s.socket /\ t.reg = s.reg /\ t.st = st
        /\ t.asked = s.asked
    BY <1>1, <1>2, <1>3 DEF Entry
  <1>5. Evolves(s, t) BY <1>2, <1>3, <1>4, Same, Ending
  <1> QED BY <1>2, <1>3, <1>4, <1>5

\* A change of the requests does not matter to the life of an entry.
LEMMA AskedEvolves ==
  ASSUME NEW s \in Entry, NEW t, Evolves(s, t), t.st # "none", NEW A \in SUBSET Ids
  PROVE  Evolves(s, [t EXCEPT !.asked = A])
  <1> DEFINE u == [t EXCEPT !.asked = A]
  <1>1. /\ u \in Entry /\ u.flow = t.flow /\ u.socket = t.socket /\ u.reg = t.reg
        /\ u.st = t.st
    BY AskedFacts DEF Evolves
  <1> HIDE DEF u
  <1>2. Evolves(s, u) BY <1>1 DEF Evolves, EntryOK, LifeStep
  <1> QED BY <1>2 DEF u

\* An event of a TCP socket; the end of the server's stream closes the socket.
LEMMA TcpSocketFacts ==
  ASSUME NEW s \in Entry, EntryOK(s), s.socket, s.flow \in Tcp, NEW t \in check_tcp_socket(s)
  PROVE  Evolves(s, t)
  <1>1. 0 \in 0..AgeBound BY ZeroAge
  <1>2. s.st \in {"active", "closing"} BY DEF EntryOK, Entry
  <1>3. ASSUME NEW st \in {s.st, "closing"}, NEW a \in {0, s.age}, t = [s EXCEPT !.st = st, !.age = a]
        PROVE  Evolves(s, t)
    <2>1. t \in Entry /\ t.flow = s.flow /\ t.socket = s.socket /\ t.reg = s.reg /\ t.st = st
      BY <1>1, <1>2, <1>3 DEF Entry
    <2> QED BY <1>2, <2>1, Same, Ending
  <1>4. ASSUME s.st = "active", NEW st \in {"active", "closing"},
               t = [s EXCEPT !.st = st, !.socket = FALSE, !.reg = FALSE, !.age = 0]
        PROVE  Evolves(s, t)
    <2>1. t \in Entry /\ t.flow = s.flow /\ ~t.socket /\ ~t.reg /\ t.st = st
      BY <1>1, <1>4 DEF Entry
    <2> QED BY <1>4, <2>1 DEF Evolves, EntryOK, LifeStep
  <1> QED BY <1>3, <1>4 DEF check_tcp_socket

\* The check closed an entry: what is left of it and of its socket.
Closes(s, c) == Evolves(s, c.s) /\ (c.s.socket <=> s.socket /\ ~c.closes)

\* The check closes the socket of an entry that was closing or idle.
LEMMA FinishedFacts ==
  ASSUME NEW s \in Entry, EntryOK(s), s.st \in {"active", "closing"},
         NEW closes \in BOOLEAN, s.socket => closes
  PROVE  Closes(s, Finished(s, closes))
  <1> DEFINE t == [s EXCEPT !.st = "closed", !.socket = FALSE, !.reg = FALSE,
                            !.age = 0, !.asked = {}]
  <1>1. Finished(s, closes).s = t /\ Finished(s, closes).closes = closes
    BY DEF Finished
  <1>2. 0 \in 0..AgeBound BY ZeroAge
  <1>3. t \in Entry /\ t.flow = s.flow /\ ~t.socket /\ ~t.reg /\ t.st = "closed"
    BY <1>2 DEF Entry
  <1> HIDE DEF t
  <1>4. Evolves(s, t) BY <1>3 DEF Evolves, EntryOK, LifeStep
  <1> QED BY <1>1, <1>3, <1>4 DEF Closes

LEMMA KeepFacts ==
  ASSUME NEW s \in Entry, EntryOK(s)
  PROVE  Closes(s, Keep(s))
  <1>1. Keep(s).s = s /\ Keep(s).closes = FALSE BY DEF Keep
  <1> QED BY <1>1, Unchanged DEF Closes

LEMMA FreedFacts ==
  ASSUME NEW s \in Entry, s.st # "none", NEW closes \in BOOLEAN, s.socket => closes
  PROVE  Closes(s, Freed(s, closes))
  <1>1. Freed(s, closes).s = Free /\ Freed(s, closes).closes = closes BY DEF Freed
  <1>2. Evolves(s, Free) /\ ~Free.socket BY Freeing, FreeFacts
  <1> QED BY <1>1, <1>2 DEF Closes

\* The session checks of the three protocols.
LEMMA CheckFacts ==
  ASSUME NEW s \in Entry, EntryOK(s), NEW n, NEW timeout
  PROVE  Closes(s, check(s, n, timeout))
  <1>1. CASE s.st = "none"
    <2>0. s.flow \notin Icmp /\ s.flow \notin Udp /\ s.flow \notin Tcp
      BY <1>1, FreeFacts, SessionsAssumption DEF EntryOK, Flows, NoFlow
    <2>1. check(s, n, timeout) = Keep(s) BY <1>1, <2>0, Zenon DEF check
    <2> QED BY <2>1, KeepFacts
  <1>2. CASE s.st # "none"
    <2>0. s.flow \in Flows BY <1>2 DEF EntryOK
    <2>1. CASE s.flow \in Icmp
      <3>1. check(s, n, timeout) = check_icmp_session(s, n)
        BY <1>2, <2>1, SessionsAssumption, Zenon DEF check
      <3>2. check_icmp_session(s, n) \in {Freed(s, TRUE), Keep(s)}
        BY DEF check_icmp_session
      <3> QED BY <1>2, <3>1, <3>2, KeepFacts, FreedFacts
    <2>2. CASE s.flow \in Udp
      <3>1. check(s, n, timeout) = check_udp_session(s, n)
        BY <1>2, <2>2, SessionsAssumption, Zenon DEF check
      <3>2. \/ check_udp_session(s, n) = Keep(s)
            \/ check_udp_session(s, n) = Finished(s, TRUE) /\ s.st \in {"active", "closing"}
            \/ check_udp_session(s, n) = Freed(s, FALSE) /\ s.st \in {"closed", "blocked"}
        BY DEF check_udp_session
      <3>3. s.st \in {"closed", "blocked"} => ~s.socket BY DEF EntryOK
      <3> QED BY <1>2, <3>1, <3>2, <3>3, KeepFacts, FreedFacts, FinishedFacts
    <2>3. CASE s.flow \in Tcp
      <3>1. check(s, n, timeout) = check_tcp_session(s, n, timeout)
        BY <1>2, <2>3, SessionsAssumption, Zenon DEF check
      <3>2. \/ check_tcp_session(s, n, timeout) = Keep(s)
            \/ /\ check_tcp_session(s, n, timeout) = Finished(s, s.socket)
               /\ s.st \in {"active", "closing"}
            \/ check_tcp_session(s, n, timeout) = Freed(s, FALSE) /\ s.st = "closed"
        BY DEF check_tcp_session
      <3>3. (s.st = "closed" => ~s.socket) /\ s.socket \in BOOLEAN BY DEF EntryOK, Entry
      <3> QED BY <1>2, <3>1, <3>2, <3>3, KeepFacts, FreedFacts, FinishedFacts
    <2> QED BY <2>0, <2>1, <2>2, <2>3 DEF Flows
  <1> QED BY <1>1, <1>2

\* monitor_tcp_session may close an entry before the check looks at it.
LEMMA MonitoredFacts ==
  ASSUME NEW s \in Entry, EntryOK(s), NEW fails \in BOOLEAN
  PROVE  /\ Monitored(s, fails) \in Entry /\ EntryOK(Monitored(s, fails))
         /\ \A c : Closes(Monitored(s, fails), c) => Closes(s, c)
  <1>1. CASE fails /\ s.flow \in Tcp /\ s.socket /\ ~s.reg
    <2> DEFINE m == [s EXCEPT !.st = "closing"]
    <2>1. m \in Entry /\ m.flow = s.flow /\ m.socket = s.socket /\ m.reg = s.reg /\ m.st = "closing"
      BY DEF Entry
    <2>2. Monitored(s, fails) = m BY <1>1 DEF Monitored
    <2> HIDE DEF m
    <2>3. s.st \in {"active", "closing"} BY <1>1 DEF EntryOK, Entry
    <2>4. EntryOK(m) BY <1>1, <2>1 DEF EntryOK
    <2>5. \A t : Evolves(m, t) => Evolves(s, t)
      BY <2>1, <2>3 DEF Evolves, LifeStep
    <2> QED BY <2>1, <2>2, <2>4, <2>5 DEF Closes
  <1>2. CASE ~(fails /\ s.flow \in Tcp /\ s.socket /\ ~s.reg)
    BY <1>2 DEF Monitored
  <1> QED BY <1>1, <1>2

\* A second passes.
LEMMA OlderFacts ==
  ASSUME NEW s \in Entry, EntryOK(s)
  PROVE  Evolves(s, Older(s)) /\ Older(s).socket = s.socket
  <1> DEFINE a == IF s.st = "none" \/ s.age = AgeBound THEN s.age ELSE s.age + 1
  <1>1. Older(s) = [s EXCEPT !.age = a] BY DEF Older
  <1>2. a \in 0..AgeBound
    <2>1. s.age \in 0..AgeBound /\ AgeBound \in Nat BY SessionsAssumption DEF Entry
    <2> QED BY <2>1
  <1>3. s.st = "none" => a = s.age OBVIOUS
  <1> HIDE DEF a
  <1>4. /\ Older(s) \in Entry /\ Older(s).flow = s.flow /\ Older(s).socket = s.socket
        /\ Older(s).reg = s.reg /\ Older(s).st = s.st
    BY <1>1, <1>2 DEF Entry
  <1>5. CASE s.st = "none"
    <2>1. s = Free /\ Free.age = 0 BY <1>5 DEF EntryOK, Free
    <2>2. Older(s) = Free BY <1>1, <1>3, <1>5, <2>1 DEF Free
    <2> QED BY <2>1, <2>2, Unchanged
  <1>6. CASE s.st # "none"
    BY <1>4, <1>6, Same
  <1> QED BY <1>5, <1>6

\* A restart frees what was blocked, closes what is not allowed any more, and knows
\* none of the sockets.
LEMMA AllowedFacts ==
  ASSUME NEW s \in Entry, EntryOK(s), NEW allowed
  PROVE  Evolves(s, check_allowed(s, allowed)) /\ check_allowed(s, allowed).socket = s.socket
  <1>1. CASE s.st = "blocked"
    <2>1. check_allowed(s, allowed) = Free BY <1>1 DEF check_allowed
    <2>2. s.socket = FALSE /\ Free.socket = FALSE BY <1>1 DEF EntryOK, Entry, Free
    <2> QED BY <1>1, <2>1, <2>2, Freeing
  <1>2. CASE s.st = "active" /\ ~allowed
    <2> DEFINE t == [s EXCEPT !.st = "closing", !.reg = FALSE]
    <2>1. check_allowed(s, allowed) = t BY <1>2 DEF check_allowed
    <2>2. t \in Entry /\ t.flow = s.flow /\ t.socket = s.socket /\ ~t.reg /\ t.st = "closing"
      BY DEF Entry
    <2> HIDE DEF t
    <2> QED BY <1>2, <2>1, <2>2, Ending
  <1>3. CASE s.st # "blocked" /\ ~(s.st = "active" /\ ~allowed)
    <2> DEFINE t == [s EXCEPT !.reg = FALSE]
    <2>1. check_allowed(s, allowed) = t BY <1>3 DEF check_allowed
    <2>2. t \in Entry /\ t.flow = s.flow /\ t.socket = s.socket /\ ~t.reg /\ t.st = s.st
      BY DEF Entry
    <2>3. CASE s.st = "none"
      <3>1. s = Free /\ s.reg = FALSE BY <2>3, FreeFacts DEF EntryOK
      <3>2. t = s BY <3>1 DEF Entry
      <3> QED BY <2>1, <3>1, <3>2, Unchanged
    <2> HIDE DEF t
    <2>4. CASE s.st # "none"
      BY <2>1, <2>2, <2>4, Same
    <2> QED BY <2>3, <2>4
  <1> QED BY <1>1, <1>2, <1>3

-----------------------------------------------------------------------------
(* The table *)

\* The limited sessions are finitely many, and fewer entries are fewer sessions.
LEMMA LimitFacts ==
  ASSUME NEW t
  PROVE  /\ IsFiniteSet(Limit(t)) /\ Cardinality(Limit(t)) \in Nat
         /\ \A u : Limit(u) \subseteq Limit(t) => Cardinality(Limit(u)) <= Cardinality(Limit(t))
         /\ \A u, p : Limit(u) \subseteq Limit(t) \union {p} =>
                         Cardinality(Limit(u)) <= Cardinality(Limit(t)) + 1
  <1>1. IsFiniteSet(Limit(t)) /\ Cardinality(Limit(t)) \in Nat
    <2>1. Limit(t) \in SUBSET Ptr BY DEF Limit
    <2>2. IsFiniteSet(Limit(t)) BY <2>1, SessionsAssumption, FS_Subset
    <2> QED BY <2>2, FS_CardinalityType
  <1>2. ASSUME NEW u, Limit(u) \subseteq Limit(t)
        PROVE  Cardinality(Limit(u)) <= Cardinality(Limit(t))
    BY <1>1, <1>2, FS_Subset
  <1>3. ASSUME NEW u, NEW p, Limit(u) \subseteq Limit(t) \union {p}
        PROVE  Cardinality(Limit(u)) <= Cardinality(Limit(t)) + 1
    <2> DEFINE T == Limit(t)
               S == T \union {p}
    <2>1. IsFiniteSet(T) /\ Cardinality(T) \in Nat BY <1>1
    <2>2. Limit(u) \in SUBSET S BY <1>3
    <2> HIDE DEF T
    <2>3. /\ IsFiniteSet(S)
          /\ Cardinality(S) = IF p \in T THEN Cardinality(T) ELSE Cardinality(T) + 1
      BY <2>1, FS_AddElement
    <2>4. Cardinality(S) \in Nat /\ Cardinality(S) <= Cardinality(T) + 1
      BY <2>1, <2>3
    <2> HIDE DEF S
    <2>5. IsFiniteSet(Limit(u)) /\ Cardinality(Limit(u)) <= Cardinality(S)
      BY <2>2, <2>3, FS_Subset
    <2>6. Cardinality(Limit(u)) \in Nat BY <2>5, FS_CardinalityType
    <2>7. Cardinality(Limit(u)) <= Cardinality(T) + 1
      BY <2>1, <2>4, <2>5, <2>6
    <2> QED BY <2>7 DEF T
  <1> QED BY <1>1, <1>2, <1>3

\* Entries that evolve stay unambiguous and do not add to the limited sessions.
LEMMA TableEvolves ==
  ASSUME OneSessionPerFlow, ses \in [Ptr -> Entry], ses' \in [Ptr -> Entry],
         \A p \in Ptr : Evolves(ses[p], ses'[p])
  PROVE  /\ EntryInv' /\ OneSessionPerFlow'
         /\ Limit(ses') \subseteq Limit(ses)
         /\ \A p \in Ptr : LifeStep(ses[p], ses'[p])
  <1>1. EntryInv' BY DEF EntryInv, Evolves
  <1>2. OneSessionPerFlow'
    <2> SUFFICES ASSUME NEW p \in Ptr, NEW q \in Ptr, p # q, ses'[p].flow = ses'[q].flow,
                        ses'[p].flow # NoFlow
                 PROVE  /\ ses'[p].flow \in Icmp
                        /\ ~(ses'[p].st = "active" /\ ses'[q].st = "active")
      BY DEF OneSessionPerFlow
    <2>1. ses'[p].flow = ses[p].flow /\ ses'[q].flow = ses[q].flow
      BY DEF Evolves
    <2>2. ses[p].flow \in Icmp /\ ~(ses[p].st = "active" /\ ses[q].st = "active")
      BY <2>1 DEF OneSessionPerFlow
    <2> QED BY <2>1, <2>2 DEF Evolves
  <1>3. Limit(ses') \subseteq Limit(ses)
    BY DEF Limit, Evolves
  <1>4. \A p \in Ptr : LifeStep(ses[p], ses'[p])
    BY DEF Evolves
  <1> QED BY <1>1, <1>2, <1>3, <1>4

\* One entry evolves.
LEMMA OneEvolves ==
  ASSUME ses \in [Ptr -> Entry], EntryInv, NEW p \in Ptr, NEW t, Evolves(ses[p], t),
         ses' = [ses EXCEPT ![p] = t]
  PROVE  /\ ses' \in [Ptr -> Entry] /\ ses'[p] = t
         /\ \A q \in Ptr : q # p => ses'[q] = ses[q]
         /\ \A q \in Ptr : Evolves(ses[q], ses'[q])
  <1>1. /\ ses' \in [Ptr -> Entry] /\ ses'[p] = t
        /\ \A q \in Ptr : q # p => ses'[q] = ses[q]
    BY DEF Evolves
  <1>2. \A q \in Ptr : q # p => Evolves(ses[q], ses'[q])
    BY <1>1, Unchanged DEF EntryInv
  <1> QED BY <1>1, <1>2

\* There is no session for the flow, and it may have one.
Fresh(f) == \A q \in Ptr : ses[q].flow = f => f \in Icmp /\ ses[q].st # "active"
Permitted(f) == (Fwd53 \/ f \notin Dns) => loop.sessions < MaxSessions

\* What a packet does to the table: nothing, or it uses a session, or it adds one.
Untouched == ses' = ses /\ fds'.open = fds.open

Touches(p, t) ==
    /\ ses' = [ses EXCEPT ![p] = t] /\ fds' = fds
    /\ ses[p].st # "none" /\ t.st # "none"
    /\ Evolves(ses[p], t) /\ t.socket = ses[p].socket

Opens(p, t) ==
    /\ ses' = [ses EXCEPT ![p] = t]
    /\ fds'.open = IF t.socket THEN fds.open \union {p} ELSE fds.open
    /\ ses[p].st = "none" /\ t.st # "none"
    /\ t \in Entry /\ EntryOK(t) /\ LifeStep(ses[p], t)
    /\ Fresh(t.flow) /\ (t.st = "active" => Permitted(t.flow))

PacketStep ==
    /\ fds' \in Descriptors
    /\ Untouched \/ \E p \in Ptr : \E t \in Entry : Touches(p, t) \/ Opens(p, t)

\* The search found nothing.
LEMMA NotFound ==
  ASSUME NEW f, Found(f) = {}
  PROVE  Fresh(f)
  BY DEF Found, Fresh

\* A session that was found is in the table.
LEMMA FoundFacts ==
  ASSUME ses \in [Ptr -> Entry], EntryInv, NEW f \in Flows, NEW p \in Found(f)
  PROVE  /\ p \in Ptr /\ ses[p] \in Entry /\ EntryOK(ses[p]) /\ ses[p].flow = f
         /\ ses[p].st # "none" /\ (f \in Icmp => ses[p].st = "active")
  <1>1. /\ p \in Ptr /\ ses[p] \in Entry /\ EntryOK(ses[p]) /\ ses[p].flow = f
        /\ (f \in Icmp => ses[p].st = "active")
    BY DEF Found, EntryInv
  <1>2. ses[p].st # "none"
    BY <1>1, FreeFacts, SessionsAssumption DEF EntryOK, NoFlow
  <1> QED BY <1>1, <1>2

\* Opening a socket succeeds, or fails and may lose a descriptor.
LEMMA OpenFacts ==
  ASSUME fds \in Descriptors, NEW p \in Ptr, ses[p].st = "none", NEW s \in Entry,
         s.st \in {"active", "closing"}, s.socket, s.flow \in Flows,
         Fresh(s.flow), Permitted(s.flow), Open(p, s)
  PROVE  PacketStep
  <1>1. ASSUME NEW unheard \in BOOLEAN, Becomes(p, [s EXCEPT !.reg = ~unheard]),
               fds' = [fds EXCEPT !.open = @ \union {p}]
        PROVE  PacketStep
    <2> DEFINE t == [s EXCEPT !.reg = ~unheard]
    <2>0. /\ t \in Entry /\ t.st \in {"active", "closing"} /\ t.socket /\ t.flow \in Flows
          /\ Fresh(t.flow) /\ Permitted(t.flow) /\ Becomes(p, t)
      <3>1. t \in Entry /\ t.st = s.st /\ t.socket = s.socket /\ t.flow = s.flow BY DEF Entry
      <3> QED BY <1>1, <3>1
    <2> HIDE DEF t
    <2>1. fds' \in Descriptors /\ fds'.open = fds.open \union {p}
      BY <1>1 DEF Descriptors
    <2>2. EntryOK(t) BY <2>0 DEF EntryOK
    <2>3. LifeStep(ses[p], t) BY <2>0 DEF LifeStep
    <2>4. Opens(p, t) BY <2>0, <2>1, <2>2, <2>3 DEF Opens, Becomes
    <2> QED BY <2>0, <2>1, <2>4 DEF PacketStep
  <1>2. CASE UNCHANGED <<ses, fds>>
    BY <1>2 DEF PacketStep, Untouched
  <1>3. CASE fds.lost < LeakBound /\ fds' = [fds EXCEPT !.lost = @ + 1] /\ UNCHANGED ses
    <2>1. fds.lost \in 0..LeakBound /\ LeakBound \in Nat
      BY SessionsAssumption DEF Descriptors
    <2>2. fds.lost + 1 \in 0..LeakBound BY <1>3, <2>1
    <2> DEFINE k == fds.lost + 1
    <2> HIDE DEF k
    <2>3. fds' = [fds EXCEPT !.lost = k] BY <1>3 DEF k
    <2>4. fds' \in Descriptors /\ fds'.open = fds.open
      BY <2>2, <2>3 DEF Descriptors, k
    <2> QED BY <1>3, <2>4 DEF PacketStep, Untouched
  <1> QED BY <1>1, <1>2, <1>3 DEF Open, May

\* A UDP packet.
LEMMA HandleUdpFacts ==
  ASSUME TypeOK, EntryInv, NEW f \in Udp, NEW ok \in BOOLEAN,
         Found(f) = {} => Permitted(f), handle_udp(f, ok)
  PROVE  PacketStep
  <1>1. /\ ses \in [Ptr -> Entry] /\ fds \in Descriptors /\ f \in Flows
    BY DEF TypeOK, Flows
  <1>2. ASSUME NEW p \in Found(f), ses[p].st = "active", Becomes(p, Sent(ses[p], ok)), fds' = fds
        PROVE  PacketStep
    <2> DEFINE t == Sent(ses[p], ok)
    <2>1. p \in Ptr /\ ses[p] \in Entry /\ EntryOK(ses[p])
      BY <1>1, FoundFacts
    <2>2. /\ t \in Entry /\ t.flow = ses[p].flow /\ t.socket = ses[p].socket
          /\ t.reg = ses[p].reg /\ t.st \in {"active", "closing"}
      BY <1>2, <2>1, SentFacts
    <2>3. ses' = [ses EXCEPT ![p] = t] BY <1>2 DEF Becomes
    <2> HIDE DEF t
    <2>4. Evolves(ses[p], t) BY <1>2, <2>1, <2>2, Same, Ending
    <2>5. Touches(p, t) BY <1>2, <2>2, <2>3, <2>4 DEF Touches
    <2> QED BY <1>1, <1>2, <2>1, <2>2, <2>5 DEF PacketStep
  <1>3. ASSUME Found(f) = {}, NEW p \in Ptr, NewPtr(p), Open(p, Sent(New(f, "active", 0), ok))
        PROVE  PacketStep
    <2> DEFINE t == Sent(New(f, "active", 0), ok)
    <2>1. /\ t \in Entry /\ t.flow = f /\ t.socket /\ t.st \in {"active", "closing"}
      <3>1. /\ New(f, "active", 0) \in Entry /\ New(f, "active", 0).flow = f
            /\ New(f, "active", 0).st = "active" /\ New(f, "active", 0).socket = TRUE
        BY <1>1, NewActive
      <3> QED BY <3>1, SentFacts
    <2>2. Open(p, t) BY <1>3
    <2> HIDE DEF t
    <2>3. Fresh(t.flow) /\ Permitted(t.flow) BY <1>3, <2>1, NotFound
    <2> QED BY <1>1, <1>3, <2>1, <2>2, <2>3, OpenFacts DEF NewPtr
  <1>4. CASE UNCHANGED <<ses, fds>>
    BY <1>1, <1>4 DEF PacketStep, Untouched
  <1> QED BY <1>2, <1>3, <1>4 DEF handle_udp

\* An ICMP packet.
LEMMA HandleIcmpFacts ==
  ASSUME TypeOK, EntryInv, NEW f \in Icmp, NEW id \in Ids, NEW ok \in BOOLEAN,
         Permitted(f), handle_icmp(f, id, ok)
  PROVE  PacketStep
  <1>1. /\ ses \in [Ptr -> Entry] /\ fds \in Descriptors /\ f \in Flows
    BY DEF TypeOK, Flows
  <1> DEFINE Asks(s) == [Sent(s, ok) EXCEPT !.asked = IF ok THEN @ \union {id} ELSE @]
  <1>2. \/ \E p \in Found(f) : Becomes(p, Asks(ses[p])) /\ fds' = fds
        \/ Found(f) = {} /\ \E p \in Ptr : NewPtr(p) /\ Open(p, Asks(New(f, "active", id)))
    BY DEF handle_icmp
  <1>3. ASSUME NEW s \in Entry
        PROVE  /\ Asks(s) \in Entry /\ Asks(s).flow = s.flow /\ Asks(s).socket = s.socket
               /\ Asks(s).reg = s.reg /\ Asks(s).st = IF ok THEN s.st ELSE "closing"
    <2> DEFINE u == Sent(s, ok)
               A == IF ok THEN u.asked \union {id} ELSE u.asked
    <2>1. /\ u \in Entry /\ u.flow = s.flow /\ u.socket = s.socket /\ u.reg = s.reg
          /\ u.st = IF ok THEN s.st ELSE "closing"
      BY SentFacts
    <2>2. A \in SUBSET Ids BY <2>1 DEF Entry
    <2>3. Asks(s) = [u EXCEPT !.asked = A] OBVIOUS
    <2> HIDE DEF u, A, Asks
    <2> QED BY <2>1, <2>2, <2>3, AskedFacts
  <1> HIDE DEF Asks
  <1>4. ASSUME NEW p \in Found(f), Becomes(p, Asks(ses[p])), fds' = fds
        PROVE  PacketStep
    <2> DEFINE t == Asks(ses[p])
    <2>1. p \in Ptr /\ ses[p] \in Entry /\ EntryOK(ses[p]) /\ ses[p].st = "active"
      BY <1>1, FoundFacts
    <2>2. /\ t \in Entry /\ t.flow = ses[p].flow /\ t.socket = ses[p].socket
          /\ t.reg = ses[p].reg /\ t.st \in {"active", "closing"}
      BY <1>3, <2>1
    <2>3. ses' = [ses EXCEPT ![p] = t] BY <1>4 DEF Becomes
    <2> HIDE DEF t
    <2>4. Evolves(ses[p], t) BY <2>1, <2>2, Same, Ending
    <2>5. Touches(p, t) BY <1>4, <2>1, <2>2, <2>3, <2>4 DEF Touches
    <2> QED BY <1>1, <1>4, <2>1, <2>2, <2>5 DEF PacketStep
  <1>5. ASSUME Found(f) = {}, NEW p \in Ptr, NewPtr(p), Open(p, Asks(New(f, "active", id)))
        PROVE  PacketStep
    <2> DEFINE t == Asks(New(f, "active", id))
    <2>0. /\ New(f, "active", id) \in Entry /\ New(f, "active", id).flow = f
          /\ New(f, "active", id).socket = TRUE /\ New(f, "active", id).st = "active"
      BY <1>1, NewActive
    <2>1. /\ t \in Entry /\ t.flow = f /\ t.socket /\ t.st \in {"active", "closing"}
      BY <1>3, <2>0
    <2>2. Open(p, t) BY <1>5
    <2> HIDE DEF t
    <2>3. Fresh(t.flow) /\ Permitted(t.flow) BY <1>5, <2>1, NotFound
    <2> QED BY <1>1, <1>5, <2>1, <2>2, <2>3, OpenFacts DEF NewPtr
  <1> QED BY <1>2, <1>4, <1>5

\* A TCP packet.
LEMMA HandleTcpFacts ==
  ASSUME TypeOK, EntryInv, NEW f \in Tcp, NEW syn \in BOOLEAN,
         syn => Permitted(f), handle_tcp(f, syn)
  PROVE  PacketStep
  <1>1. /\ ses \in [Ptr -> Entry] /\ fds \in Descriptors /\ f \in Flows
    BY DEF TypeOK, Flows
  <1>2. ASSUME NEW p \in Found(f), NEW t \in AfterPacket(ses[p]), Becomes(p, t), fds' = fds
        PROVE  PacketStep
    <2>1. /\ p \in Ptr /\ ses[p] \in Entry /\ EntryOK(ses[p]) /\ ses[p].st # "none"
          /\ ses[p].flow = f
      BY <1>1, FoundFacts
    <2>2. Evolves(ses[p], t) /\ t.socket = ses[p].socket /\ t.st # "none"
      BY <2>1, AfterPacketFacts
    <2>3. Touches(p, t) /\ t \in Entry BY <1>2, <2>1, <2>2 DEF Touches, Becomes, Evolves
    <2> QED BY <1>1, <1>2, <2>1, <2>3 DEF PacketStep
  <1>3. ASSUME syn, Found(f) = {}, NEW p \in Ptr, NewPtr(p), Open(p, New(f, "active", 0))
        PROVE  PacketStep
    <2> DEFINE t == New(f, "active", 0)
    <2>1. t \in Entry /\ t.flow = f /\ t.socket = TRUE /\ t.st = "active"
      BY <1>1, NewActive
    <2>2. Open(p, t) BY <1>3
    <2> HIDE DEF t
    <2>3. Fresh(t.flow) /\ Permitted(t.flow) BY <1>3, <2>1, NotFound
    <2> QED BY <1>1, <1>3, <2>1, <2>2, <2>3, OpenFacts DEF NewPtr
  <1>4. CASE UNCHANGED <<ses, fds>>
    BY <1>1, <1>4 DEF PacketStep, Untouched
  <1> QED BY <1>2, <1>3, <1>4 DEF handle_tcp

\* A UDP flow that is not allowed.
LEMMA BlockFacts ==
  ASSUME TypeOK, NEW f \in Udp, Found(f) = {}, NEW p \in Ptr, NewPtr(p), EntryInv, block_udp(p, f)
  PROVE  PacketStep
  <1> DEFINE t == New(f, "blocked", 0)
  <1>1. /\ t \in Entry /\ t.flow = f /\ t.st = "blocked" /\ t.socket = FALSE /\ t.reg = FALSE
    BY NewBlocked DEF Flows
  <1>2. ses' = [ses EXCEPT ![p] = t] /\ fds' = fds /\ fds \in Descriptors
    BY DEF block_udp, Becomes, TypeOK
  <1> HIDE DEF t
  <1>3. EntryOK(t) BY <1>1 DEF EntryOK, Flows
  <1>4. ses[p].socket = FALSE /\ ses[p].st = "none"
    BY FreeFacts DEF NewPtr, EntryInv, EntryOK, Free
  <1>5. LifeStep(ses[p], t) BY <1>1, <1>4 DEF LifeStep
  <1>6. Fresh(t.flow) BY <1>1, NotFound
  <1>7. Opens(p, t) BY <1>1, <1>2, <1>3, <1>4, <1>5, <1>6 DEF Opens
  <1> QED BY <1>1, <1>2, <1>7 DEF PacketStep

\* handle_ip: the limit and the answer of is_address_allowed decide.
LEMMA HandleIpFacts ==
  ASSUME TypeOK, EntryInv, NEW f \in Flows, NEW syn \in BOOLEAN, NEW id \in Ids,
         NEW allowed \in BOOLEAN, NEW ok \in BOOLEAN, f \notin Tcp => syn,
         handle_ip(f, syn, id, allowed, ok)
  PROVE  PacketStep
  <1>1. CASE UNCHANGED <<ses, fds>>
    BY <1>1 DEF PacketStep, Untouched, TypeOK
  <1>2. /\ Udp \intersect Icmp = {} /\ Udp \intersect Tcp = {} /\ Icmp \intersect Tcp = {}
        /\ Dns \subseteq Udp /\ MaxSessions \in Nat /\ loop.sessions \in Nat
    BY SessionsAssumption DEF TypeOK, LoopState
  <1>3. ASSUME ~Limited(f, syn), f \in Udp PROVE PacketStep
    <2>1. Found(f) = {} => (has_udp_session(f) => Permitted(f)) /\ (~has_udp_session(f) => Permitted(f))
      BY <1>2, <1>3 DEF Limited, Permitted, has_udp_session
    <2>2. CASE handle_udp(f, ok)
      BY <1>3, <2>1, <2>2, HandleUdpFacts
    <2>3. ASSUME ~has_udp_session(f), NEW p \in Ptr, NewPtr(p), block_udp(p, f) PROVE PacketStep
      <3>1. Found(f) = {} BY <2>3 DEF has_udp_session
      <3> QED BY <1>3, <2>3, <3>1, BlockFacts
    <2> QED BY <1>1, <1>3, <2>2, <2>3 DEF handle_ip
  <1>4. ASSUME ~Limited(f, syn), f \in Icmp PROVE PacketStep
    <2>1. Permitted(f) /\ f \notin Udp
      BY <1>2, <1>4 DEF Limited, Permitted
    <2>2. CASE handle_icmp(f, id, ok)
      BY <1>4, <2>1, <2>2, HandleIcmpFacts
    <2> QED BY <1>1, <1>4, <2>1, <2>2 DEF handle_ip
  <1>5. ASSUME ~Limited(f, syn), f \in Tcp PROVE PacketStep
    <2>1. (syn => Permitted(f)) /\ f \notin Udp /\ f \notin Icmp
      BY <1>2, <1>5 DEF Limited, Permitted
    <2>2. CASE handle_tcp(f, syn)
      BY <1>5, <2>1, <2>2, HandleTcpFacts
    <2> QED BY <1>1, <1>5, <2>1, <2>2 DEF handle_ip
  <1>6. CASE Limited(f, syn)
    BY <1>1, <1>6 DEF handle_ip
  <1> QED BY <1>3, <1>4, <1>5, <1>6 DEF Flows

-----------------------------------------------------------------------------
(* The steps of the loop *)

\* The end of a batch is the top of the loop.
LEMMA AfterBatchFacts ==
  ASSUME NEW l \in LoopState
  PROVE  /\ AfterBatch(l) \in LoopState /\ AfterBatch(l).evs = l.evs
         /\ AfterBatch(l).tun = l.tun /\ AfterBatch(l).sessions = l.sessions
         /\ AfterBatch(l).pc = IF l.tun = 0 /\ l.evs = {} THEN "top" ELSE l.pc
  <1>1. CASE l.tun = 0 /\ l.evs = {}
    <2>1. AfterBatch(l) = [l EXCEPT !.pc = "top"] BY <1>1 DEF AfterBatch
    <2> QED BY <1>1, <2>1 DEF LoopState
  <1>2. CASE ~(l.tun = 0 /\ l.evs = {})
    BY <1>2 DEF AfterBatch
  <1> QED BY <1>1, <1>2

\* What a packet leaves of the table, whichever of the three it did.
LEMMA PacketFacts ==
  ASSUME TypeOK, EntryInv, NoDescriptorLeak, EventsHaveSession, OneSessionPerFlow, PacketStep
  PROVE  /\ ses' \in [Ptr -> Entry] /\ EntryInv' /\ OneSessionPerFlow' /\ NoDescriptorLeak'
         /\ \A p \in loop.evs : ses'[p].st # "none" /\ ses'[p].socket
         /\ \A p \in Ptr : LifeStep(ses[p], ses'[p])
         /\ \/ Cardinality(Limit(ses')) <= Cardinality(Limit(ses))
            \/ /\ Cardinality(Limit(ses')) <= Cardinality(Limit(ses)) + 1
               /\ loop.sessions < MaxSessions
  <1>0. ses \in [Ptr -> Entry] /\ loop.evs \subseteq Ptr BY DEF TypeOK, LoopState
  <1>1. CASE Untouched
    <2>1. \A p \in Ptr : Evolves(ses[p], ses'[p])
      BY <1>0, <1>1, Unchanged DEF Untouched, EntryInv
    <2>2. /\ EntryInv' /\ OneSessionPerFlow' /\ Limit(ses') \subseteq Limit(ses)
          /\ \A p \in Ptr : LifeStep(ses[p], ses'[p])
      BY <1>0, <1>1, <2>1, TableEvolves DEF Untouched
    <2>3. NoDescriptorLeak'
      BY <1>1 DEF Untouched, NoDescriptorLeak, Sockets
    <2>4. Cardinality(Limit(ses')) <= Cardinality(Limit(ses))
      BY <2>2, LimitFacts
    <2> QED BY <1>0, <1>1, <2>2, <2>3, <2>4 DEF Untouched, EventsHaveSession
  <1>2. ASSUME NEW p \in Ptr, NEW t \in Entry, Touches(p, t)
        PROVE  /\ ses' \in [Ptr -> Entry] /\ EntryInv' /\ OneSessionPerFlow' /\ NoDescriptorLeak'
               /\ \A q \in loop.evs : ses'[q].st # "none" /\ ses'[q].socket
               /\ \A q \in Ptr : LifeStep(ses[q], ses'[q])
               /\ Cardinality(Limit(ses')) <= Cardinality(Limit(ses))
    <2>1. /\ ses' \in [Ptr -> Entry] /\ ses'[p] = t
          /\ \A q \in Ptr : q # p => ses'[q] = ses[q]
          /\ \A q \in Ptr : Evolves(ses[q], ses'[q])
      BY <1>0, <1>2, OneEvolves DEF Touches
    <2>2. /\ EntryInv' /\ OneSessionPerFlow' /\ Limit(ses') \subseteq Limit(ses)
          /\ \A q \in Ptr : LifeStep(ses[q], ses'[q])
      BY <1>0, <2>1, TableEvolves
    <2>3. t.st # "none" /\ t.socket = ses[p].socket /\ fds' = fds
      BY <1>2 DEF Touches
    <2>4. \A q \in Ptr : ses'[q].socket = ses[q].socket
      BY <2>1, <2>3
    <2>5. Sockets(ses') = Sockets(ses) BY <2>4 DEF Sockets
    <2>6. NoDescriptorLeak' BY <2>3, <2>5 DEF NoDescriptorLeak
    <2>7. \A q \in loop.evs : ses'[q].st # "none" /\ ses'[q].socket
      BY <1>0, <2>1, <2>3, <2>4 DEF EventsHaveSession
    <2>8. Cardinality(Limit(ses')) <= Cardinality(Limit(ses))
      BY <2>2, LimitFacts
    <2> QED BY <2>1, <2>2, <2>6, <2>7, <2>8
  <1>3. ASSUME NEW p \in Ptr, NEW t \in Entry, Opens(p, t)
        PROVE  /\ ses' \in [Ptr -> Entry] /\ EntryInv' /\ OneSessionPerFlow' /\ NoDescriptorLeak'
               /\ \A q \in loop.evs : ses'[q].st # "none" /\ ses'[q].socket
               /\ \A q \in Ptr : LifeStep(ses[q], ses'[q])
               /\ \/ Cardinality(Limit(ses')) <= Cardinality(Limit(ses))
                  \/ /\ Cardinality(Limit(ses')) <= Cardinality(Limit(ses)) + 1
                     /\ loop.sessions < MaxSessions
    <2>1. /\ ses' \in [Ptr -> Entry] /\ ses'[p] = t
          /\ \A q \in Ptr : q # p => ses'[q] = ses[q]
      BY <1>0, <1>3 DEF Opens
    <2>2. /\ ses[p].st = "none" /\ t.st # "none" /\ EntryOK(t) /\ LifeStep(ses[p], t)
          /\ Fresh(t.flow) /\ (t.st = "active" => Permitted(t.flow))
          /\ fds'.open = IF t.socket THEN fds.open \union {p} ELSE fds.open
      BY <1>3 DEF Opens
    <2>3. EntryInv' BY <2>1, <2>2 DEF EntryInv
    <2>4. \A q \in Ptr : LifeStep(ses[q], ses'[q])
      BY <2>1, <2>2 DEF LifeStep
    <2>5. p \notin loop.evs /\ ~ses[p].socket
      BY <2>2 DEF EventsHaveSession, EntryInv, EntryOK
    <2>6. \A q \in loop.evs : ses'[q].st # "none" /\ ses'[q].socket
      BY <1>0, <2>1, <2>5 DEF EventsHaveSession
    <2>7. Sockets(ses') = IF t.socket THEN Sockets(ses) \union {p} ELSE Sockets(ses)
      BY <2>1, <2>5 DEF Sockets
    <2>8. NoDescriptorLeak' BY <2>2, <2>7 DEF NoDescriptorLeak
    <2>9. OneSessionPerFlow'
      <3> SUFFICES ASSUME NEW q \in Ptr, NEW r \in Ptr, q # r, ses'[q].flow = ses'[r].flow,
                          ses'[q].flow # NoFlow
                   PROVE  /\ ses'[q].flow \in Icmp
                          /\ ~(ses'[q].st = "active" /\ ses'[r].st = "active")
        BY DEF OneSessionPerFlow
      <3>1. CASE q # p /\ r # p
        BY <2>1, <3>1 DEF OneSessionPerFlow
      <3>2. CASE q = p
        BY <2>1, <2>2, <3>2 DEF Fresh
      <3>3. CASE r = p
        BY <2>1, <2>2, <3>3 DEF Fresh
      <3> QED BY <3>1, <3>2, <3>3
    <2>10. CASE t.st = "active" /\ (Fwd53 \/ t.flow \notin Dns)
      <3>1. Limit(ses') \subseteq Limit(ses) \union {p} BY <2>1 DEF Limit
      <3>2. Cardinality(Limit(ses')) <= Cardinality(Limit(ses)) + 1 BY <3>1, LimitFacts
      <3>3. loop.sessions < MaxSessions BY <2>2, <2>10 DEF Permitted
      <3> QED BY <2>1, <2>3, <2>4, <2>6, <2>8, <2>9, <3>2, <3>3
    <2>11. CASE ~(t.st = "active" /\ (Fwd53 \/ t.flow \notin Dns))
      <3>1. Limit(ses') \subseteq Limit(ses) BY <2>1, <2>11 DEF Limit
      <3>2. Cardinality(Limit(ses')) <= Cardinality(Limit(ses)) BY <3>1, LimitFacts
      <3> QED BY <2>1, <2>3, <2>4, <2>6, <2>8, <2>9, <3>2
    <2> QED BY <2>10, <2>11
  <1> QED BY <1>1, <1>2, <1>3 DEF PacketStep

\* A batch of TunYield packets adds at most one session by packet.
LEMMA Counting ==
  ASSUME NEW c \in Nat, NEW d \in Nat, NEW n \in Nat, NEW m \in Nat, NEW y \in Nat,
         NEW k \in 0..y, NEW j \in 0..y, m > 0,
         c <= m - 1 + y, n < m => c <= n + (y - k), k > 0, j <= k - 1,
         d <= c \/ (d <= c + 1 /\ n < m)
  PROVE  d <= m - 1 + y /\ (n < m => d <= n + (y - j))
  OBVIOUS

Lives == \A p \in Ptr : LifeStep(ses[p], ses'[p])

\* check_tun handles one packet.
LEMMA HandleTunInv ==
  ASSUME IInv, NEW drained \in BOOLEAN, HandleTun(drained)
  PROVE  IInv' /\ Lives
  <1>0. /\ TypeOK /\ EntryInv /\ NoDescriptorLeak /\ EventsHaveSession /\ OneSessionPerFlow
        /\ LimitInv /\ loop \in LoopState /\ loop.pc = "batch" /\ loop.tun > 0
        /\ loop.tun \in 0..TunYield /\ TunYield \in Nat /\ MaxSessions \in Nat /\ MaxSessions > 0
        /\ reply' = reply
    BY SessionsAssumption DEF IInv, TypeOK, LoopState, HandleTun
  <1>1. PacketStep
    <2>1. PICK f \in Flows, syn \in BOOLEAN, id \in Ids,
             forbidden \in May("forbid"), fails \in May("network") :
               (f \notin Tcp => syn) /\ handle_ip(f, syn, id, ~forbidden, ~fails)
      BY DEF HandleTun
    <2>2. (~forbidden) \in BOOLEAN /\ (~fails) \in BOOLEAN OBVIOUS
    <2> QED BY <1>0, <2>1, <2>2, HandleIpFacts
  <1> DEFINE k == IF drained THEN 0 ELSE loop.tun - 1
             l == [loop EXCEPT !.tun = k]
  <1>2. loop' = AfterBatch(l) BY DEF HandleTun
  <1>3. k \in 0..TunYield /\ k <= loop.tun - 1 BY <1>0
  <1> HIDE DEF k
  <1>4. l \in LoopState /\ l.tun = k /\ l.evs = loop.evs /\ l.sessions = loop.sessions
        /\ l.pc = "batch"
    BY <1>0, <1>3 DEF LoopState
  <1> HIDE DEF l
  <1>5. /\ loop' \in LoopState /\ loop'.evs = loop.evs /\ loop'.tun = k
        /\ loop'.sessions = loop.sessions
        /\ loop'.pc = IF k = 0 /\ loop.evs = {} THEN "top" ELSE "batch"
    BY <1>2, <1>4, AfterBatchFacts
  <1>6. /\ ses' \in [Ptr -> Entry] /\ EntryInv' /\ OneSessionPerFlow' /\ NoDescriptorLeak'
        /\ \A p \in loop.evs : ses'[p].st # "none" /\ ses'[p].socket
        /\ Lives
        /\ \/ Cardinality(Limit(ses')) <= Cardinality(Limit(ses))
           \/ /\ Cardinality(Limit(ses')) <= Cardinality(Limit(ses)) + 1
              /\ loop.sessions < MaxSessions
    BY <1>0, <1>1, PacketFacts DEF Lives
  <1>7. TypeOK' BY <1>0, <1>1, <1>5, <1>6 DEF TypeOK, PacketStep
  <1>8. LoopInv' BY <1>5 DEF LoopInv
  <1>9. EventsHaveSession' BY <1>5, <1>6 DEF EventsHaveSession
  <1>10. LimitInv'
    <2> DEFINE c == Cardinality(Limit(ses))
               d == Cardinality(Limit(ses'))
    <2>1. c \in Nat /\ d \in Nat BY LimitFacts
    <2>2. loop.sessions \in Nat BY <1>0 DEF LoopState
    <2>3. /\ c <= MaxSessions - 1 + TunYield
          /\ loop.sessions < MaxSessions => c <= loop.sessions + (TunYield - loop.tun)
      BY <1>0 DEF LimitInv, Handled
    <2>4. d <= c \/ (d <= c + 1 /\ loop.sessions < MaxSessions) BY <1>6
    <2> HIDE DEF c, d
    <2>5. /\ d <= MaxSessions - 1 + TunYield
          /\ loop.sessions < MaxSessions => d <= loop.sessions + (TunYield - k)
      BY <1>0, <1>3, <2>1, <2>2, <2>3, <2>4, Counting
    <2>6. Handled' = TunYield - k BY <1>5 DEF Handled
    <2> QED BY <1>5, <2>5, <2>6 DEF LimitInv, d
  <1> QED BY <1>6, <1>7, <1>8, <1>9, <1>10 DEF IInv

\* A step in which the entries evolve keeps the bound on the sessions as long as
\* the loop counts no fewer packets as handled.
LEMMA LimitKept ==
  ASSUME LimitInv, Limit(ses') \subseteq Limit(ses), loop' \in LoopState,
         \/ loop'.pc \notin {"wait", "batch"}
         \/ /\ loop.pc \in {"wait", "batch"} /\ loop'.sessions = loop.sessions
            /\ Handled' = Handled \/ (Handled = 0 /\ Handled' \in Nat)
  PROVE  LimitInv'
  <1> DEFINE c == Cardinality(Limit(ses))
             d == Cardinality(Limit(ses'))
  <1>1. c \in Nat /\ d \in Nat /\ d <= c BY LimitFacts
  <1>2. MaxSessions \in Nat /\ TunYield \in Nat BY SessionsAssumption
  <1>3. loop'.sessions \in Nat BY DEF LoopState
  <1>4. c <= MaxSessions - 1 + TunYield BY DEF LimitInv
  <1>5. d <= MaxSessions - 1 + TunYield
    <2> HIDE DEF c, d
    <2> QED BY <1>1, <1>2, <1>4
  <1>6. CASE loop'.pc \notin {"wait", "batch"}
    BY <1>5, <1>6 DEF LimitInv
  <1>7. CASE /\ loop.pc \in {"wait", "batch"} /\ loop'.sessions = loop.sessions
             /\ Handled' = Handled
    <2>1. loop.sessions < MaxSessions => c <= loop.sessions + Handled BY <1>7 DEF LimitInv
    <2> DEFINE b == loop.sessions + Handled
    <2>2. b = loop'.sessions + Handled' BY <1>7
    <2>3. d <= c BY <1>1
    <2>4. loop'.sessions < MaxSessions => d <= loop'.sessions + Handled'
      <3> SUFFICES ASSUME loop'.sessions < MaxSessions PROVE d <= loop'.sessions + Handled'
        OBVIOUS
      <3>1. c <= b BY <1>7, <2>1
      <3>2. b \in Int
        BY <1>2, <1>3, <1>7 DEF Handled, LoopState
      <3> HIDE DEF b, c, d
      <3> QED BY <1>1, <2>2, <3>1, <3>2
    <2> QED BY <1>5, <2>4 DEF LimitInv
  <1>8. CASE /\ loop.pc \in {"wait", "batch"} /\ loop'.sessions = loop.sessions
             /\ Handled = 0 /\ Handled' \in Nat
    <2>1. loop.sessions < MaxSessions => c <= loop.sessions + 0 BY <1>8 DEF LimitInv
    <2>2. loop'.sessions < MaxSessions => d <= loop'.sessions + Handled'
      <3> HIDE DEF c, d
      <3> QED BY <1>1, <1>3, <1>8, <2>1
    <2> QED BY <1>5, <2>2 DEF LimitInv
  <1> QED BY <1>6, <1>7, <1>8

\* The event of one socket.
LEMMA HandleSocketInv ==
  ASSUME IInv, NEW p \in Ptr, HandleSocket(p)
  PROVE  IInv' /\ Lives
  <1>0. /\ TypeOK /\ EntryInv /\ NoDescriptorLeak /\ EventsHaveSession /\ OneSessionPerFlow
        /\ LimitInv /\ loop \in LoopState /\ loop.pc = "batch" /\ p \in loop.evs
        /\ ses \in [Ptr -> Entry] /\ ses[p] \in Entry /\ fds \in Descriptors
        /\ EntryOK(ses[p]) /\ ses[p].st # "none" /\ ses[p].socket
    BY DEF IInv, TypeOK, EntryInv, EventsHaveSession, HandleSocket
  <1>1. PICK t \in Entry :
          /\ ses' = [ses EXCEPT ![p] = t] /\ Evolves(ses[p], t)
          /\ fds' \in Descriptors
          /\ fds'.open = IF t.socket THEN fds.open ELSE fds.open \ {p}
          /\ reply' \in [asked : Ids \union {0}, id : Ids \union {0}]
    <2>0. reply \in [asked : Ids \union {0}, id : Ids \union {0}] BY <1>0 DEF TypeOK
    <2>1. CASE HandleUdp(p)
      <3>1. PICK ev \in {"IN", "AGAIN", "ERR"}, fails \in BOOLEAN :
              Becomes(p, check_udp_socket(ses[p], ev, ~fails))
        BY <2>1 DEF HandleUdp, May
      <3>2. /\ Evolves(ses[p], check_udp_socket(ses[p], ev, ~fails))
            /\ check_udp_socket(ses[p], ev, ~fails).socket
        BY <1>0, UdpSocketFacts
      <3> QED BY <1>0, <2>0, <2>1, <3>1, <3>2 DEF HandleUdp, Becomes, Evolves
    <2>2. CASE HandleIcmp(p)
      <3>1. CASE \E i \in ses[p].asked :
                   /\ Becomes(p, [check_icmp_socket(ses[p], "IN", TRUE) EXCEPT !.asked = @ \ {i}])
                   /\ reply' = [asked |-> i, id |-> ses[p].id]
        <4>1. PICK i \in ses[p].asked :
                /\ Becomes(p, [check_icmp_socket(ses[p], "IN", TRUE) EXCEPT !.asked = @ \ {i}])
                /\ reply' = [asked |-> i, id |-> ses[p].id]
          BY <3>1
        <4> DEFINE u == check_icmp_socket(ses[p], "IN", TRUE)
                   A == u.asked \ {i}
                   t == [u EXCEPT !.asked = A]
        <4>2. Evolves(ses[p], u) /\ u.socket /\ u.st # "none" /\ u.asked = ses[p].asked
          BY <1>0, IcmpSocketFacts
        <4>3. A \in SUBSET Ids /\ i \in Ids /\ ses[p].id \in Ids \union {0}
          BY <1>0, <4>2 DEF Entry
        <4>4. Becomes(p, t) BY <4>1
        <4> HIDE DEF u, A
        <4>5. Evolves(ses[p], t) BY <1>0, <4>2, <4>3, AskedEvolves
        <4>6. t.socket BY <4>2, <4>3, AskedFacts DEF Evolves
        <4> HIDE DEF t
        <4>7. reply' \in [asked : Ids \union {0}, id : Ids \union {0}] BY <4>1, <4>3
        <4> QED BY <1>0, <2>2, <4>4, <4>5, <4>6, <4>7 DEF HandleIcmp, Becomes, Evolves
      <3>2. CASE /\ \E ev \in {"IN", "ERR"} : Becomes(p, check_icmp_socket(ses[p], ev, FALSE))
                 /\ UNCHANGED reply
        <4>1. PICK ev \in {"IN", "ERR"} : Becomes(p, check_icmp_socket(ses[p], ev, FALSE))
          BY <3>2
        <4>2. /\ Evolves(ses[p], check_icmp_socket(ses[p], ev, FALSE))
              /\ check_icmp_socket(ses[p], ev, FALSE).socket
          BY <1>0, IcmpSocketFacts
        <4> QED BY <1>0, <2>0, <2>2, <3>2, <4>1, <4>2 DEF HandleIcmp, Becomes, Evolves
      <3> QED BY <2>2, <3>1, <3>2 DEF HandleIcmp
    <2>3. CASE HandleTcp(p)
      <3>1. PICK t \in check_tcp_socket(ses[p]) :
              /\ Becomes(p, t)
              /\ fds' = IF t.socket THEN fds ELSE [fds EXCEPT !.open = @ \ {p}]
        BY <2>3 DEF HandleTcp
      <3>2. Evolves(ses[p], t) BY <1>0, <2>3, TcpSocketFacts DEF HandleTcp
      <3>3. CASE t.socket
        BY <1>0, <2>0, <2>3, <3>1, <3>2, <3>3 DEF HandleTcp, Becomes, Evolves
      <3>4. CASE ~t.socket
        <4>1. fds' \in Descriptors /\ fds'.open = fds.open \ {p}
          BY <1>0, <3>1, <3>4 DEF Descriptors
        <4> QED BY <2>0, <2>3, <3>1, <3>2, <3>4, <4>1 DEF HandleTcp, Becomes, Evolves
      <3> QED BY <3>3, <3>4
    <2> QED BY <2>1, <2>2, <2>3 DEF HandleSocket
  <1>2. /\ ses' \in [Ptr -> Entry] /\ ses'[p] = t
        /\ \A q \in Ptr : q # p => ses'[q] = ses[q]
        /\ \A q \in Ptr : Evolves(ses[q], ses'[q])
    BY <1>0, <1>1, OneEvolves
  <1>3. /\ EntryInv' /\ OneSessionPerFlow' /\ Limit(ses') \subseteq Limit(ses) /\ Lives
    BY <1>0, <1>2, TableEvolves DEF Lives
  <1>4. NoDescriptorLeak'
    <2>1. Sockets(ses') = IF t.socket THEN Sockets(ses) ELSE Sockets(ses) \ {p}
      BY <1>0, <1>2 DEF Sockets
    <2> QED BY <1>0, <1>1, <2>1 DEF NoDescriptorLeak
  <1> DEFINE l == [loop EXCEPT !.evs = @ \ {p}]
  <1>5. loop' = AfterBatch(l) BY DEF HandleSocket
  <1>6. /\ l \in LoopState /\ l.tun = loop.tun /\ l.evs = loop.evs \ {p}
        /\ l.sessions = loop.sessions /\ l.pc = "batch"
    BY <1>0 DEF LoopState
  <1> HIDE DEF l
  <1>7. /\ loop' \in LoopState /\ loop'.evs = loop.evs \ {p} /\ loop'.tun = loop.tun
        /\ loop'.sessions = loop.sessions
        /\ loop'.pc = IF loop.tun = 0 /\ loop.evs \ {p} = {} THEN "top" ELSE "batch"
    BY <1>5, <1>6, AfterBatchFacts
  <1>8. TypeOK' BY <1>1, <1>2, <1>7 DEF TypeOK
  <1>9. LoopInv' BY <1>7 DEF LoopInv
  <1>10. EventsHaveSession'
    <2>1. loop.evs \subseteq Ptr BY <1>0 DEF LoopState
    <2> QED BY <1>0, <1>2, <1>7, <2>1 DEF EventsHaveSession
  <1>11. LimitInv'
    <2>1. loop'.pc \notin {"wait", "batch"} \/ Handled' = Handled
      BY <1>0, <1>7 DEF Handled
    <2> QED BY <1>0, <1>3, <1>7, <2>1, LimitKept
  <1> QED BY <1>3, <1>4, <1>8, <1>9, <1>10, <1>11 DEF IInv

\* Top of the loop: the sessions are counted, monitored and checked.
LEMMA MonitorInv ==
  ASSUME IInv, NEW checked \in BOOLEAN, Monitor(checked)
  PROVE  IInv' /\ Lives
  <1>0. /\ TypeOK /\ EntryInv /\ LoopInv /\ NoDescriptorLeak /\ OneSessionPerFlow
        /\ LimitInv /\ loop \in LoopState /\ loop.pc = "top" /\ reply' = reply
        /\ ses \in [Ptr -> Entry] /\ fds \in Descriptors /\ loop.evs = {} /\ loop.tun = 0
    BY DEF IInv, TypeOK, LoopInv, Monitor
  <1> DEFINE n == Cardinality(Active(ses))
  <1>1. PICK unmonitored \in SUBSET {p \in Ptr : ses[p].flow \in Tcp /\ ses[p].socket
                                                     /\ ~ses[p].reg},
             timeout \in [{p \in Ptr : ses[p].flow \in Tcp} -> TcpTimeouts] :
          LET m == [p \in Ptr |-> Monitored(ses[p], p \in unmonitored)]
              r == [p \in Ptr |-> IF ~checked THEN Keep(m[p])
                                  ELSE check(m[p], n, IF p \in DOMAIN timeout
                                                      THEN timeout[p] ELSE 0)]
          IN /\ ses' = [p \in Ptr |-> r[p].s]
             /\ fds' = [fds EXCEPT !.open = @ \ {p \in Ptr : r[p].closes}]
             /\ loop' = [loop EXCEPT !.pc = "wait", !.sessions = n]
    BY Zenon DEF Monitor
  <1> DEFINE M(p) == Monitored(ses[p], p \in unmonitored)
             R(p) == IF ~checked THEN Keep(M(p))
                     ELSE check(M(p), n, IF p \in DOMAIN timeout THEN timeout[p] ELSE 0)
  <1>2. /\ ses' = [p \in Ptr |-> R(p).s]
        /\ fds' = [fds EXCEPT !.open = @ \ {p \in Ptr : R(p).closes}]
        /\ loop' = [loop EXCEPT !.pc = "wait", !.sessions = n]
    BY <1>1
  <1>3. ASSUME NEW p \in Ptr PROVE Closes(ses[p], R(p))
    <2>1. ses[p] \in Entry /\ EntryOK(ses[p]) /\ (p \in unmonitored) \in BOOLEAN
      BY <1>0 DEF EntryInv
    <2>2. M(p) \in Entry /\ EntryOK(M(p)) /\ \A c : Closes(M(p), c) => Closes(ses[p], c)
      BY <2>1, MonitoredFacts
    <2> HIDE DEF M
    <2>3. Closes(M(p), R(p))
      BY <2>2, KeepFacts, CheckFacts
    <2> QED BY <2>2, <2>3
  <1> HIDE DEF R
  <1>4. \A p \in Ptr : ses'[p] = R(p).s BY <1>2
  <1>5. \A p \in Ptr : Evolves(ses[p], ses'[p]) BY <1>3, <1>4 DEF Closes
  <1>6. ses' \in [Ptr -> Entry]
    <2>1. \A p \in Ptr : R(p).s \in Entry BY <1>4, <1>5 DEF Evolves
    <2> QED BY <1>2, <2>1
  <1>7. EntryInv' /\ OneSessionPerFlow' /\ Limit(ses') \subseteq Limit(ses) /\ Lives
    BY <1>0, <1>5, <1>6, TableEvolves DEF Lives
  <1> DEFINE C == {p \in Ptr : R(p).closes}
  <1>8. fds' \in Descriptors /\ fds'.open = fds.open \ C
    <2> HIDE DEF C
    <2>1. fds' = [fds EXCEPT !.open = fds.open \ C] BY <1>2 DEF C
    <2> QED BY <1>0, <2>1 DEF Descriptors
  <1>9. NoDescriptorLeak'
    <2>1. \A p \in Ptr : ses'[p].socket <=> ses[p].socket /\ ~R(p).closes
      BY <1>3, <1>4 DEF Closes
    <2>2. Sockets(ses') = Sockets(ses) \ C BY <2>1 DEF Sockets
    <2> QED BY <1>0, <1>8, <2>2 DEF NoDescriptorLeak
  <1>10. IsFiniteSet(Active(ses)) /\ n \in Nat
    <2>1. Active(ses) \in SUBSET Ptr BY DEF Active
    <2>2. IsFiniteSet(Active(ses)) BY <2>1, SessionsAssumption, FS_Subset
    <2> QED BY <2>2, FS_CardinalityType
  <1>11. Cardinality(Limit(ses)) <= n
    <2>1. Limit(ses) \in SUBSET Active(ses) BY DEF Limit, Active
    <2> QED BY <1>10, <2>1, FS_Subset
  <1> HIDE DEF n
  <1>12. /\ loop' \in LoopState /\ loop'.pc = "wait" /\ loop'.sessions = n
         /\ loop'.evs = {} /\ loop'.tun = 0
    BY <1>0, <1>2, <1>10 DEF LoopState
  <1>13. LimitInv'
    <2> DEFINE c == Cardinality(Limit(ses))
               d == Cardinality(Limit(ses'))
    <2>1. c \in Nat /\ d \in Nat /\ d <= c BY <1>7, LimitFacts
    <2>2. c <= MaxSessions - 1 + TunYield BY <1>0 DEF LimitInv
    <2>3. MaxSessions \in Nat /\ TunYield \in Nat BY SessionsAssumption
    <2>4. c <= n BY <1>11
    <2> HIDE DEF c, d
    <2>5. d <= MaxSessions - 1 + TunYield /\ d <= n + 0 BY <1>10, <2>1, <2>2, <2>3, <2>4
    <2>6. Handled' = 0 BY <1>12 DEF Handled
    <2> QED BY <1>12, <2>5, <2>6 DEF LimitInv, d
  <1>14. TypeOK' BY <1>0, <1>6, <1>8, <1>12 DEF TypeOK
  <1>15. LoopInv' /\ EventsHaveSession' BY <1>12 DEF LoopInv, EventsHaveSession
  <1> QED BY <1>7, <1>9, <1>13, <1>14, <1>15 DEF IInv

\* A step in which every entry evolves and keeps its socket, and no descriptor is
\* opened or closed.
LEMMA QuietStep ==
  ASSUME IInv, ses' \in [Ptr -> Entry], fds' = fds, reply' = reply, loop' \in LoopState,
         \A p \in Ptr : Evolves(ses[p], ses'[p]) /\ ses'[p].socket = ses[p].socket
  PROVE  /\ TypeOK' /\ EntryInv' /\ NoDescriptorLeak' /\ OneSessionPerFlow'
         /\ Limit(ses') \subseteq Limit(ses) /\ Lives
  <1>0. TypeOK /\ OneSessionPerFlow /\ ses \in [Ptr -> Entry] BY DEF IInv, TypeOK
  <1>1. EntryInv' /\ OneSessionPerFlow' /\ Limit(ses') \subseteq Limit(ses) /\ Lives
    BY <1>0, TableEvolves DEF Lives
  <1>2. Sockets(ses') = Sockets(ses) BY DEF Sockets
  <1>3. NoDescriptorLeak' BY <1>2 DEF IInv, NoDescriptorLeak
  <1>4. TypeOK' BY <1>0 DEF TypeOK
  <1> QED BY <1>1, <1>3, <1>4

\* epoll_wait returns; a second may have passed.
LEMMA WaitInv ==
  ASSUME IInv, NEW second \in BOOLEAN, Wait(second)
  PROVE  IInv' /\ Lives
  <1>0. /\ TypeOK /\ EntryInv /\ LimitInv /\ loop \in LoopState /\ loop.pc = "wait"
        /\ ses \in [Ptr -> Entry] /\ TunYield \in Nat /\ fds' = fds /\ reply' = reply
    BY SessionsAssumption DEF IInv, TypeOK, Wait
  <1>1. PICK evs \in SUBSET Ready, tun \in {0, TunYield} :
          loop' = AfterBatch([loop EXCEPT !.pc = "batch", !.evs = evs, !.tun = tun])
    BY DEF Wait
  <1>2. /\ evs \subseteq Ptr /\ tun \in 0..TunYield
        /\ \A p \in evs : ses[p].reg
    BY <1>0, <1>1 DEF Ready
  <1> DEFINE l == [loop EXCEPT !.pc = "batch", !.evs = evs, !.tun = tun]
  <1>3. /\ l \in LoopState /\ l.tun = tun /\ l.evs = evs /\ l.sessions = loop.sessions
        /\ l.pc = "batch"
    BY <1>0, <1>2 DEF LoopState
  <1>4. loop' = AfterBatch(l) BY <1>1
  <1> HIDE DEF l
  <1>5. /\ loop' \in LoopState /\ loop'.evs = evs /\ loop'.tun = tun
        /\ loop'.sessions = loop.sessions
        /\ loop'.pc = IF tun = 0 /\ evs = {} THEN "top" ELSE "batch"
    BY <1>3, <1>4, AfterBatchFacts
  <1>6. /\ ses' \in [Ptr -> Entry]
        /\ \A p \in Ptr : Evolves(ses[p], ses'[p]) /\ ses'[p].socket = ses[p].socket
    <2>1. CASE second
      <3>1. ses' = [p \in Ptr |-> Older(ses[p])] BY <2>1 DEF Wait
      <3>2. \A p \in Ptr : Evolves(ses[p], Older(ses[p])) /\ Older(ses[p]).socket = ses[p].socket
        BY <1>0, OlderFacts DEF EntryInv
      <3>3. \A p \in Ptr : Older(ses[p]) \in Entry BY <3>2 DEF Evolves
      <3> QED BY <3>1, <3>2, <3>3
    <2>2. CASE ~second
      <3>1. ses' = ses BY <2>2 DEF Wait
      <3> QED BY <1>0, <3>1, Unchanged DEF EntryInv
    <2> QED BY <2>1, <2>2
  <1>7. /\ TypeOK' /\ EntryInv' /\ NoDescriptorLeak' /\ OneSessionPerFlow'
        /\ Limit(ses') \subseteq Limit(ses) /\ Lives
    BY <1>0, <1>5, <1>6, QuietStep
  <1>8. LoopInv' BY <1>5 DEF LoopInv
  <1>9. EventsHaveSession'
    <2>1. \A p \in evs : ses'[p].socket
      BY <1>0, <1>2, <1>6 DEF EntryInv, EntryOK
    <2>2. \A p \in evs : ses'[p].st # "none"
      BY <1>2, <1>7, <2>1 DEF EntryInv, EntryOK
    <2> QED BY <1>5, <2>1, <2>2 DEF EventsHaveSession
  <1>10. LimitInv'
    <2>1. Handled = 0 BY <1>0 DEF Handled
    <2>2. Handled' \in Nat
      <3>1. Handled' = TunYield - tun BY <1>5 DEF Handled
      <3>2. TunYield - tun \in Nat BY <1>0, <1>2
      <3> QED BY <3>1, <3>2
    <2> QED BY <1>0, <1>5, <1>7, <2>1, <2>2, LimitKept
  <1> QED BY <1>7, <1>8, <1>9, <1>10 DEF IInv

\* The loop is left.
LEMMA StopInv ==
  ASSUME IInv, Stop
  PROVE  IInv' /\ Lives
  <1>0. /\ TypeOK /\ EntryInv /\ LimitInv /\ loop \in LoopState /\ ses \in [Ptr -> Entry]
        /\ TunYield \in Nat /\ ses' = ses /\ fds' = fds /\ reply' = reply
    BY SessionsAssumption DEF IInv, TypeOK, Stop
  <1>1. /\ loop' \in LoopState /\ loop'.pc = "stopped" /\ loop'.evs = {} /\ loop'.tun = 0
    <2>1. 0 \in 0..TunYield BY <1>0
    <2>2. loop' = [loop EXCEPT !.pc = "stopped", !.tun = 0, !.evs = {}] BY DEF Stop
    <2> QED BY <1>0, <2>1, <2>2 DEF LoopState
  <1>2. \A p \in Ptr : Evolves(ses[p], ses'[p]) /\ ses'[p].socket = ses[p].socket
    BY <1>0, Unchanged DEF EntryInv
  <1>3. /\ TypeOK' /\ EntryInv' /\ NoDescriptorLeak' /\ OneSessionPerFlow'
        /\ Limit(ses') \subseteq Limit(ses) /\ Lives
    BY <1>0, <1>1, <1>2, QuietStep
  <1>4. LoopInv' /\ EventsHaveSession' BY <1>1 DEF LoopInv, EventsHaveSession
  <1>5. LimitInv' BY <1>0, <1>1, <1>3, LimitKept
  <1> QED BY <1>3, <1>4, <1>5 DEF IInv

\* The loop is entered again.
LEMMA StartInv ==
  ASSUME IInv, Start
  PROVE  IInv' /\ Lives
  <1>0. /\ TypeOK /\ EntryInv /\ LimitInv /\ LoopInv /\ loop \in LoopState
        /\ ses \in [Ptr -> Entry] /\ loop.pc = "stopped" /\ fds' = fds /\ reply' = reply
        /\ loop' = [loop EXCEPT !.pc = "top"]
    BY DEF IInv, TypeOK, Start
  <1>1. loop' \in LoopState /\ loop'.pc = "top" /\ loop'.evs = {} /\ loop'.tun = 0
    BY <1>0 DEF LoopState, LoopInv
  <1>2. PICK denied : ses' = [p \in Ptr |-> check_allowed(ses[p], p \notin denied)]
    BY DEF Start
  <1>3. \A p \in Ptr : /\ Evolves(ses[p], check_allowed(ses[p], p \notin denied))
                       /\ check_allowed(ses[p], p \notin denied).socket = ses[p].socket
    BY <1>0, AllowedFacts DEF EntryInv
  <1>4. /\ ses' \in [Ptr -> Entry]
        /\ \A p \in Ptr : Evolves(ses[p], ses'[p]) /\ ses'[p].socket = ses[p].socket
    <2>1. \A p \in Ptr : check_allowed(ses[p], p \notin denied) \in Entry
      BY <1>3 DEF Evolves
    <2> QED BY <1>2, <1>3, <2>1
  <1>5. /\ TypeOK' /\ EntryInv' /\ NoDescriptorLeak' /\ OneSessionPerFlow'
        /\ Limit(ses') \subseteq Limit(ses) /\ Lives
    BY <1>0, <1>1, <1>4, QuietStep
  <1>6. LoopInv' /\ EventsHaveSession' BY <1>1 DEF LoopInv, EventsHaveSession
  <1>7. LimitInv' BY <1>0, <1>1, <1>5, LimitKept
  <1> QED BY <1>5, <1>6, <1>7 DEF IInv

\* jni_clear.
LEMMA ClearInv ==
  ASSUME IInv, clear
  PROVE  IInv' /\ Lives
  <1>0. /\ TypeOK /\ EntryInv /\ LimitInv /\ LoopInv /\ loop \in LoopState /\ fds \in Descriptors
        /\ OneSessionPerFlow /\ NoDescriptorLeak
        /\ ses \in [Ptr -> Entry] /\ loop.pc = "stopped" /\ loop' = loop /\ reply' = reply
    BY DEF IInv, TypeOK, clear
  <1>1. /\ ses' \in [Ptr -> Entry] /\ \A p \in Ptr : ses'[p] = Free
    BY FreeFacts DEF clear
  <1>2. \A p \in Ptr : Evolves(ses[p], ses'[p])
    <2> SUFFICES ASSUME NEW p \in Ptr PROVE Evolves(ses[p], Free)
      BY <1>1
    <2>1. ses[p] \in Entry /\ EntryOK(ses[p]) BY <1>0 DEF EntryInv
    <2>2. CASE ses[p].st = "none"
      <3>1. ses[p] = Free BY <2>1, <2>2 DEF EntryOK
      <3> QED BY <2>1, <3>1, Unchanged
    <2> QED BY <2>1, <2>2, Freeing
  <1>3. EntryInv' /\ OneSessionPerFlow' /\ Limit(ses') \subseteq Limit(ses) /\ Lives
    BY <1>0, <1>1, <1>2, TableEvolves DEF Lives
  <1>4. fds' \in Descriptors /\ fds'.open = fds.open \ Sockets(ses)
    <2>1. fds' = [fds EXCEPT !.open = fds.open \ Sockets(ses)] BY DEF clear
    <2> QED BY <1>0, <2>1 DEF Descriptors
  <1>5. NoDescriptorLeak'
    <2>1. Sockets(ses') = {} BY <1>1, FreeFacts DEF Sockets
    <2>2. fds'.open = {} BY <1>0, <1>4 DEF NoDescriptorLeak
    <2> QED BY <2>1, <2>2 DEF NoDescriptorLeak
  <1>6. TypeOK' BY <1>0, <1>1, <1>4 DEF TypeOK
  <1>7. LoopInv' /\ EventsHaveSession' BY <1>0 DEF LoopInv, EventsHaveSession
  <1>8. LimitInv' BY <1>0, <1>3, LimitKept
  <1> QED BY <1>3, <1>5, <1>6, <1>7, <1>8 DEF IInv

-----------------------------------------------------------------------------
(* The invariant and the theorems *)

\* The initial states satisfy the invariant.
LEMMA InitInv == Init => IInv
  <1> SUFFICES ASSUME Init PROVE IInv
    OBVIOUS
  <1>0. TunYield \in Nat /\ MaxSessions \in Nat /\ MaxSessions > 0 /\ LeakBound \in Nat
    BY SessionsAssumption
  <1>1. ses \in [Ptr -> Entry] /\ \A p \in Ptr : ses[p] = Free
    BY FreeFacts DEF Init
  <1>2. /\ loop \in LoopState /\ loop.pc = "top" /\ loop.evs = {} /\ loop.tun = 0
    BY <1>0 DEF Init, LoopState
  <1>3. fds \in Descriptors /\ fds.open = {}
    BY <1>0 DEF Init, Descriptors
  <1>4. TypeOK BY <1>1, <1>2, <1>3 DEF TypeOK, Init, NoReply
  <1>5. EntryInv /\ LoopInv /\ EventsHaveSession
    BY <1>1, <1>2, FreeFacts DEF EntryInv, LoopInv, EventsHaveSession
  <1>6. NoDescriptorLeak
    <2>1. Sockets(ses) = {} BY <1>1, FreeFacts DEF Sockets
    <2> QED BY <1>3, <2>1 DEF NoDescriptorLeak
  <1>7. OneSessionPerFlow BY <1>1, FreeFacts DEF OneSessionPerFlow
  <1>8. LimitInv
    <2>1. Limit(ses) = {} BY <1>1, FreeFacts DEF Limit
    <2>2. Cardinality(Limit(ses)) = 0 BY <2>1, FS_EmptySet
    <2>3. 0 <= MaxSessions - 1 + TunYield BY <1>0
    <2> QED BY <1>2, <2>2, <2>3 DEF LimitInv
  <1> QED BY <1>4, <1>5, <1>6, <1>7, <1>8 DEF IInv

\* Every step preserves the invariant, and every entry takes a step of its life.
LEMMA NextInv == IInv /\ [Next]_vars => IInv' /\ Lives
  <1> SUFFICES ASSUME IInv, [Next]_vars PROVE IInv' /\ Lives
    OBVIOUS
  <1>1. CASE Next
    BY <1>1, MonitorInv, WaitInv, HandleTunInv, HandleSocketInv, StopInv, StartInv, ClearInv
       DEF Next
  <1>2. CASE UNCHANGED vars
    <2>1. IInv'
      BY <1>2 DEF vars, IInv, TypeOK, EntryInv, LoopInv, NoDescriptorLeak, Sockets,
                  EventsHaveSession, OneSessionPerFlow, LimitInv, Handled, Limit
    <2>2. Lives BY <1>2 DEF vars, Lives, LifeStep
    <2> QED BY <2>1, <2>2
  <1> QED BY <1>1, <1>2

\* The invariant holds in every reachable state.
LEMMA Invariance == Spec => []IInv
  <1>1. IInv /\ [Next]_vars => IInv' BY NextInv
  <1> QED BY <1>1, InitInv, PTL DEF Spec

\* The entries, the loop and the descriptors always have their types.
THEOREM TypeCorrect == Spec => []TypeOK
  <1>1. IInv => TypeOK BY DEF IInv
  <1> QED BY <1>1, Invariance, PTL

\* UDP and ICMP sessions own their socket until the check closes it, a session that
\* lingers has none, and only an open socket is in the epoll set.
THEOREM SocketAlwaysMatches == Spec => []SocketMatchesState
  <1>1. IInv => SocketMatchesState
    BY DEF IInv, EntryInv, EntryOK, SocketMatchesState
  <1> QED BY <1>1, Invariance, PTL

\* However many sessions a check, a packet, an event or a restart ends, each
\* descriptor belongs to the one session that still has to close it.
THEOREM NoDescriptorEverLeaks == Spec => []NoDescriptorLeak
  <1>1. IInv => NoDescriptorLeak BY DEF IInv
  <1> QED BY <1>1, Invariance, PTL

\* data.ptr of an event never dangles, whatever was handled earlier in its batch.
THEOREM EventsAlwaysHaveSession == Spec => []EventsHaveSession
  <1>1. IInv => EventsHaveSession BY DEF IInv
  <1> QED BY <1>1, Invariance, PTL

\* The search for a session is never ambiguous.
THEOREM FlowsAreUnambiguous == Spec => []OneSessionPerFlow
  <1>1. IInv => OneSessionPerFlow BY DEF IInv
  <1> QED BY <1>1, Invariance, PTL

\* The limit holds up to the packets of one batch, for every limit, every yield and
\* every number of addresses.
THEOREM SessionsAlwaysLimited == Spec => []SessionsLimited
  <1>1. IInv => SessionsLimited
    <2> SUFFICES ASSUME IInv PROVE SessionsLimited
      OBVIOUS
    <2>1. {p \in Active(ses) : Fwd53 \/ ses[p].flow \notin Dns} = Limit(ses)
      BY DEF Active, Limit
    <2> QED BY <2>1 DEF IInv, LimitInv, SessionsLimited
  <1> QED BY <1>1, Invariance, PTL

\* A step of an entry's record is a step of SessionLife.
LEMMA StepsOfLife ==
  ASSUME IInv, IInv', NEW p \in Ptr, LifeStep(ses[p], ses'[p])
  PROVE  [Life(p)!Next]_(Life(p)!life)
  <1>1. ses[p].socket \in BOOLEAN /\ ses'[p].socket \in BOOLEAN
    BY DEF IInv, TypeOK, Entry
  <1> QED BY <1>1 DEF LifeStep, Life!Next, Life!life, Life!Open, Life!Block, Life!SocketEnds,
                      Life!Terminate, Life!Finish, Life!Close, Life!Free, Life!Clear

\* Every entry of the table, whatever its protocol, goes through the phases of
\* SessionLife: the handlers, the check, the restart and jni_clear together implement
\* it for each of them.
THEOREM EntriesFollowLife == Spec => FollowsLife
  <1>1. Init => \A p \in Ptr : Life(p)!Init
    BY DEF Init, Free, Life!Init
  <1>2. IInv /\ IInv' /\ [Next]_vars => [\A p \in Ptr : [Life(p)!Next]_(Life(p)!life)]_vars
    BY NextInv, StepsOfLife DEF Lives
  <1> QED BY <1>1, <1>2, Invariance, PTL DEF Spec, FollowsLife

-----------------------------------------------------------------------------
(* Timeouts *)

\* As long as the limit is exceeded by less than a percent, a timeout is scaled by a
\* percentage that is not negative.
LEMMA ScaleFacts ==
  ASSUME NEW timeout \in Nat, NEW n \in Nat, 100 * n < 101 * MaxSessions
  PROVE  Scaled(timeout, n) \in Nat
  <1> DEFINE q == (n * 100) \div MaxSessions
             scale == 100 - q
  <1>1. MaxSessions \in Nat /\ MaxSessions > 0 BY SessionsAssumption
  <1>2. n * 100 \in Nat /\ n * 100 < 101 * MaxSessions BY <1>1
  <1>3. q \in Nat /\ MaxSessions * q <= n * 100 BY <1>1, <1>2
  <1>4. q <= 100
    <2> HIDE DEF q
    <2> SUFFICES ASSUME q >= 101 PROVE FALSE BY <1>3
    <2>1. MaxSessions * q >= MaxSessions * 101 BY <1>1, <1>3
    <2> QED BY <1>1, <1>2, <1>3, <2>1
  <1>5. scale \in Nat
    <2> HIDE DEF q
    <2> QED BY <1>3, <1>4
  <1>6. Scaled(timeout, n) = IF scale >= 0 THEN (timeout * scale) \div 100
                             ELSE -((timeout * (-scale)) \div 100)
    BY DEF Scaled
  <1> HIDE DEF scale
  <1>7. timeout * scale \in Nat BY <1>5
  <1> DEFINE product == timeout * scale
  <1>8. product \in Nat /\ Scaled(timeout, n) = product \div 100 BY <1>5, <1>6, <1>7
  <1> HIDE DEF product
  <1> QED BY <1>8

\* A session that was used within the last second survives a check.
LEMMA UsedIsKept ==
  ASSUME NEW s \in Entry, EntryOK(s), s.st = "active", s.age = 0,
         NEW n \in Nat, 100 * n < 101 * MaxSessions, NEW timeout \in Nat
  PROVE  check(s, n, timeout) = Keep(s)
  <1>1. /\ UdpTimeout \in Nat /\ DnsTimeout \in Nat /\ IcmpTimeout \in Nat
        /\ Udp \intersect Icmp = {} /\ Udp \intersect Tcp = {} /\ Icmp \intersect Tcp = {}
    BY SessionsAssumption
  <1>2. ASSUME NEW d \in Nat PROVE ~Idle(s, d, n)
    <2>1. Scaled(d, n) \in Nat BY ScaleFacts
    <2> QED BY <2>1 DEF Idle
  <1>3. get_udp_timeout(s.flow) \in Nat BY <1>1 DEF get_udp_timeout
  <1>4. check_icmp_session(s, n) = Keep(s) BY <1>1, <1>2 DEF check_icmp_session
  <1>5. check_udp_session(s, n) = Keep(s) BY <1>2, <1>3 DEF check_udp_session
  <1>6. check_tcp_session(s, n, timeout) = Keep(s) BY <1>2 DEF check_tcp_session
  <1>7. s.flow \in Icmp \/ s.flow \in Udp \/ s.flow \in Tcp BY DEF EntryOK, Flows
  <1>8. s.st # "none" OBVIOUS
  <1> QED BY <1>1, <1>4, <1>5, <1>6, <1>7, <1>8 DEF check

\* The sessions that a check of the whole table keeps.
LEMMA MonitorKeeps ==
  ASSUME IInv, ~Overloaded(ses), NEW checked \in BOOLEAN, Monitor(checked),
         NEW p \in Ptr, InUse(ses[p])
  PROVE  ses'[p].st = "active"
  <1> DEFINE n == Cardinality(Active(ses))
  <1>1. PICK unmonitored \in SUBSET {e \in Ptr : ses[e].flow \in Tcp /\ ses[e].socket
                                                     /\ ~ses[e].reg},
             timeout \in [{e \in Ptr : ses[e].flow \in Tcp} -> TcpTimeouts] :
          LET m == [e \in Ptr |-> Monitored(ses[e], e \in unmonitored)]
              r == [e \in Ptr |-> IF ~checked THEN Keep(m[e])
                                  ELSE check(m[e], n, IF e \in DOMAIN timeout
                                                      THEN timeout[e] ELSE 0)]
          IN ses' = [e \in Ptr |-> r[e].s]
    BY Zenon DEF Monitor
  <1> DEFINE d == IF p \in DOMAIN timeout THEN timeout[p] ELSE 0
             m == Monitored(ses[p], p \in unmonitored)
  <1>2. ses'[p] = (IF ~checked THEN Keep(m) ELSE check(m, n, d)).s BY <1>1
  <1>3. p \notin unmonitored BY <1>1 DEF InUse
  <1>4. m = ses[p] BY <1>3 DEF Monitored
  <1>5. /\ ses[p] \in Entry /\ EntryOK(ses[p])
        /\ ses[p].st = "active" /\ ses[p].age = 0
    BY DEF IInv, TypeOK, EntryInv, InUse
  <1>6. d \in Nat
    <2>1. TcpTimeouts \subseteq Nat BY SessionsAssumption
    <2> QED BY <1>1, <2>1
  <1>7. n \in Nat
    <2>1. Active(ses) \in SUBSET Ptr BY DEF Active
    <2>2. IsFiniteSet(Active(ses)) BY <2>1, SessionsAssumption, FS_Subset
    <2> QED BY <2>2, FS_CardinalityType
  <1>8. 100 * n < 101 * MaxSessions
    <2>1. ~(100 * n >= 101 * MaxSessions) /\ MaxSessions \in Nat
      BY SessionsAssumption DEF Overloaded
    <2> HIDE DEF n
    <2> QED BY <1>7, <2>1
  <1> HIDE DEF n, d, m
  <1>9. check(m, n, d) = Keep(ses[p]) BY <1>4, <1>5, <1>6, <1>7, <1>8, UsedIsKept
  <1>10. ses'[p] = Keep(ses[p]).s BY <1>2, <1>4, <1>9
  <1> QED BY <1>5, <1>10 DEF Keep

\* The check is the only step from the top of the loop to epoll_wait.
LEMMA OnlyMonitor ==
  ASSUME Next, TypeOK, loop.pc = "top", loop'.pc = "wait"
  PROVE  \E checked \in BOOLEAN : Monitor(checked)
  <1>1. ASSUME NEW second \in BOOLEAN PROVE ~Wait(second) BY DEF Wait
  <1>2. ASSUME NEW drained \in BOOLEAN PROVE ~HandleTun(drained) BY DEF HandleTun
  <1>3. ASSUME NEW p \in Ptr PROVE ~HandleSocket(p)
    BY DEF HandleSocket, TypeOK, LoopState
  <1>4. ~Start /\ ~clear BY DEF Start, clear
  <1>5. ~Stop
    <2> SUFFICES ASSUME Stop PROVE FALSE OBVIOUS
    <2>1. loop'.pc = "stopped" BY DEF Stop, TypeOK, LoopState
    <2> QED BY <2>1
  <1> QED BY <1>1, <1>2, <1>3, <1>4, <1>5 DEF Next

\* Whatever the batches, the limit and the treatment of DNS: a session that is in use
\* is closed as idle only by the check of an overloaded table.  Below that, the scaled
\* timeouts of get_udp_timeout, get_icmp_timeout and get_tcp_timeout are not negative.
THEOREM OnlyOverloadClosesUsed == Spec => OnlyIdleTimedOut
  <1>1. IInv /\ [Next]_vars =>
          [loop.pc = "top" /\ loop'.pc = "wait" =>
             \A p \in Ptr : InUse(ses[p]) => ses'[p].st = "active" \/ Overloaded(ses)]_vars
    <2> SUFFICES ASSUME IInv, Next, loop.pc = "top", loop'.pc = "wait",
                        NEW p \in Ptr, InUse(ses[p]), ~Overloaded(ses)
                 PROVE  ses'[p].st = "active"
      OBVIOUS
    <2>1. PICK checked \in BOOLEAN : Monitor(checked) BY OnlyMonitor DEF IInv
    <2> QED BY <2>1, MonitorKeeps
  <1> QED BY <1>1, Invariance, PTL DEF Spec, OnlyIdleTimedOut

\* The sessions that "Limit number of sessions" does not count: DNS that no rule forwards.
Exempt(t) == {p \in Active(t) : ~Fwd53 /\ t[p].flow \in Dns}

\* What overloads the table: the packets that a batch of TUN_YIELD lets in with the old
\* count, and DNS sessions.  A limit of more than a hundred sessions for every packet
\* that a batch adds is overloaded by DNS alone.
OverloadExplained ==
  Overloaded(ses) =>
    100 * Cardinality(Exempt(ses)) >= MaxSessions - 100 * (TunYield - 1)

\* The check never meets an overloaded table without that cause, in handle_ip's limit
\* on the sessions.
THEOREM OverloadAlwaysExplained == Spec => []OverloadExplained
  <1>1. IInv => OverloadExplained
    <2> SUFFICES ASSUME IInv, Overloaded(ses)
                 PROVE  100 * Cardinality(Exempt(ses)) >= MaxSessions - 100 * (TunYield - 1)
      BY DEF OverloadExplained
    <2> DEFINE n == Cardinality(Active(ses))
               l == Cardinality(Limit(ses))
               e == Cardinality(Exempt(ses))
    <2>1. /\ Active(ses) = Limit(ses) \union Exempt(ses)
          /\ Limit(ses) \in SUBSET Ptr /\ Exempt(ses) \in SUBSET Ptr
          /\ Active(ses) \in SUBSET Ptr
      BY SessionsAssumption DEF Active, Limit, Exempt
    <2>2. IsFiniteSet(Limit(ses)) /\ IsFiniteSet(Exempt(ses)) /\ IsFiniteSet(Active(ses))
      BY <2>1, SessionsAssumption, FS_Subset
    <2>3. l \in Nat /\ e \in Nat /\ n \in Nat BY <2>2, FS_CardinalityType
    <2>4. n <= l + e
      <3>1. Cardinality(Limit(ses) \intersect Exempt(ses)) \in Nat
        BY <2>2, FS_Intersection, FS_CardinalityType
      <3>2. n = l + e - Cardinality(Limit(ses) \intersect Exempt(ses))
        BY <2>1, <2>2, FS_Union
      <3> HIDE DEF n, l, e
      <3> QED BY <2>3, <3>1, <3>2
    <2>5. l <= MaxSessions - 1 + TunYield
      BY DEF IInv, LimitInv
    <2>6. 100 * n >= 101 * MaxSessions BY DEF Overloaded
    <2>7. MaxSessions \in Nat /\ TunYield \in Nat BY SessionsAssumption
    <2> HIDE DEF n, l, e
    <2>8. 100 * e >= MaxSessions - 100 * (TunYield - 1) BY <2>3, <2>4, <2>5, <2>6, <2>7
    <2> QED BY <2>8 DEF e
  <1> QED BY <1>1, Invariance, PTL

=============================================================================
