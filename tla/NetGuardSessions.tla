-------------------------- MODULE NetGuardSessions --------------------------
(***************************************************************************)
(* The session table of the native NetGuard engine: the list ng_session of *)
(* ICMP, UDP and TCP sessions, the loop of handle_events that counts,      *)
(* checks and frees them (session.c), the limit on their number (ip.c),    *)
(* and the whole of UDP (udp.c) and ICMP (icmp.c).  A TCP session is       *)
(* abstracted to its life (SessionLife), which NetGuardTcp implements.     *)
(*                                                                         *)
(* A pointer is an address at which a session may be allocated.  Packets   *)
(* are reduced to their flow: the protocol, addresses and ports that the   *)
(* search for a session compares.                                          *)
(***************************************************************************)
EXTENDS Integers, FiniteSets

CONSTANTS
    Ptr,          \* addresses of sessions
    Udp, Icmp, Tcp, \* the flows, by protocol
    Dns,          \* the UDP flows to port 53
    Ids,          \* ICMP identifiers of the echo requests
    MaxSessions,  \* maxsessions: SESSION_LIMIT percent of the open files
    TunYield,     \* TUN_YIELD: packets handled per loop iteration
    UdpTimeout, DnsTimeout, IcmpTimeout,  \* seconds without traffic
    TcpTimeouts,  \* TCP_INIT_TIMEOUT, TCP_IDLE_TIMEOUT, TCP_CLOSE_TIMEOUT
    UdpKeep, TcpKeep, \* UDP_KEEP_TIMEOUT, TCP_KEEP_TIMEOUT
    AgeBound,     \* bound on the seconds that are told apart
    LeakBound,    \* bound on the descriptors that failures may lose
    Fwd53,        \* is DNS forwarded by a rule (jni_run's argument)
    Faults        \* the misbehaviours of the environment that may happen

FaultKinds == {"open",      \* no socket can be opened or protected
               "network",   \* sendto, recv or the write to the tun fails
               "forbid",    \* is_address_allowed refuses
               "restart"}   \* the tunnel is stopped and started again

Flows == Udp \union Icmp \union Tcp

ASSUME SessionsAssumption ==
    /\ Udp \intersect Icmp = {} /\ Udp \intersect Tcp = {} /\ Icmp \intersect Tcp = {}
    /\ Dns \subseteq Udp /\ "none" \notin Flows /\ IsFiniteSet(Ptr)
    /\ MaxSessions \in Nat \ {0} /\ TunYield \in Nat \ {0}
    /\ {UdpTimeout, DnsTimeout, IcmpTimeout} \union TcpTimeouts \subseteq Nat
    /\ UdpKeep \in Nat /\ TcpKeep \in Nat /\ AgeBound \in Nat /\ LeakBound \in Nat
    /\ UdpKeep < AgeBound /\ TcpKeep < AgeBound
    /\ Fwd53 \in BOOLEAN /\ Faults \subseteq FaultKinds

VARIABLES
    ses,    \* the sessions: struct ng_session at every address
    loop,   \* where handle_events is, the count it took and its events
    fds,    \* descriptors of sockets: open ones, and those that were lost
    reply   \* the last echo reply written to the tun: its request's id, its id

vars == <<ses, loop, fds, reply>>

-----------------------------------------------------------------------------
(* Sessions.  st is the phase of SessionLife: UDP_ACTIVE, icmp.stop = 0 and *)
(* the TCP states before CLOSING are "active"; UDP_FINISHING, icmp.stop = 1 *)
(* and TCP_CLOSING are "closing"; UDP_CLOSED and TCP_CLOSE are "closed".    *)

NoFlow == "none"
Free == [flow |-> NoFlow, st |-> "none", socket |-> FALSE, reg |-> FALSE,
         age |-> 0, id |-> 0, asked |-> {}]

New(f, st, id) ==
    [flow |-> f, st |-> st, socket |-> st = "active", reg |-> st = "active",
     age |-> 0, id |-> id, asked |-> {}]

Sockets(t) == {p \in Ptr : t[p].socket}
Active(t) == {p \in Ptr : t[p].st = "active"}

\* The session found for a packet: UDP and TCP compare the flow, ICMP skips
\* stopped sessions (and compares no identifier).
Found(f) == {p \in Ptr : /\ ses[p].flow = f
                         /\ f \in Icmp => ses[p].st = "active"}

has_udp_session(f) == (f \in Dns /\ ~Fwd53) \/ Found(f) # {}

-----------------------------------------------------------------------------
(* Timeouts *)

\* 100 - sessions * 100 / maxsessions percent of a timeout, in C's division.
Scaled(timeout, sessions) ==
    LET scale == 100 - (sessions * 100) \div MaxSessions
    IN IF scale >= 0 THEN (timeout * scale) \div 100
       ELSE -((timeout * (-scale)) \div 100)

\* Mutant: time + timeout <= now.
BadIdle(s, timeout, sessions) == s.age >= Scaled(timeout, sessions)

\* time + timeout < now
Idle(s, timeout, sessions) == s.age > Scaled(timeout, sessions)

get_udp_timeout(f) == IF f \in Dns THEN DnsTimeout ELSE UdpTimeout

\* What a check leaves of a session, and whether it closed the socket.
Keep(s) == [s |-> s, closes |-> FALSE]
Freed(s, closes) == [s |-> Free, closes |-> closes]

\* Mutant: the closed socket is not forgotten.
BadFinished(s, closes) ==
    [s |-> [s EXCEPT !.st = "closed", !.age = 0, !.asked = {}], closes |-> closes]

Finished(s, closes) ==
    [s |-> [s EXCEPT !.st = "closed", !.socket = FALSE, !.reg = FALSE,
                     !.age = 0, !.asked = {}],
     closes |-> closes]

check_icmp_session(s, n) ==
    IF s.st = "closing" \/ Idle(s, IcmpTimeout, n) THEN Freed(s, TRUE) ELSE Keep(s)

\* Mutant: sessions that were blocked are kept.
BadUdpCheck(s, n) ==
    IF s.st = "closing" \/ (s.st = "active" /\ Idle(s, get_udp_timeout(s.flow), n))
    THEN Finished(s, TRUE)
    ELSE IF s.st = "closed" /\ s.age > UdpKeep THEN Freed(s, FALSE) ELSE Keep(s)

check_udp_session(s, n) ==
    IF s.st = "closing" \/ (s.st = "active" /\ Idle(s, get_udp_timeout(s.flow), n))
    THEN Finished(s, TRUE)
    ELSE IF s.st \in {"closed", "blocked"} /\ s.age > UdpKeep THEN Freed(s, FALSE)
    ELSE Keep(s)

\* timeout is the one of the TCP state that "active" stands for.
check_tcp_session(s, n, timeout) ==
    IF s.st = "closing" \/ (s.st = "active" /\ Idle(s, timeout, n))
    THEN Finished(s, s.socket)
    ELSE IF s.st = "closed" /\ s.age > TcpKeep THEN Freed(s, FALSE) ELSE Keep(s)

check(s, n, timeout) ==
    CASE s.st = "none" -> Keep(s)
      [] s.flow \in Icmp -> check_icmp_session(s, n)
      [] s.flow \in Udp -> check_udp_session(s, n)
      [] s.flow \in Tcp -> check_tcp_session(s, n, timeout)

-----------------------------------------------------------------------------
(* A packet from the tun.  o is what the system calls answer.              *)

May(fault) == IF fault \in Faults THEN BOOLEAN ELSE {FALSE}

AfterBatch(l) == IF l.tun = 0 /\ l.evs = {} THEN [l EXCEPT !.pc = "top"] ELSE l

\* Mutant: the limit is off by one.
BadLimited(f, syn) ==
    loop.sessions > MaxSessions /\ (f \in Udp => ~has_udp_session(f)) /\ (f \in Tcp => syn)

\* "Limit number of sessions", with the count taken at the top of the loop.
Limited(f, syn) ==
    /\ loop.sessions >= MaxSessions
    /\ f \in Udp => ~has_udp_session(f)
    /\ f \in Tcp => syn

Becomes(p, s) == ses' = [ses EXCEPT ![p] = s]

\* open_udp_socket, open_icmp_socket, open_tcp_socket: the new session is put
\* in the list only if it gets a socket, which must be protected first; that
\* epoll_ctl fails to add the socket is only logged.
Open(p, s) ==
    \/ /\ \E unheard \in May("open") : Becomes(p, [s EXCEPT !.reg = ~unheard])
       /\ fds' = [fds EXCEPT !.open = @ \union {p}]
    \/ "open" \in Faults /\ UNCHANGED <<ses, fds>>
    \/ /\ "open" \in Faults /\ fds.lost < LeakBound
       /\ fds' = [fds EXCEPT !.lost = @ + 1] /\ UNCHANGED ses

\* Mutant: a failure of sendto closes the socket at once.
BadSent(s, ok) ==
    IF ok THEN [s EXCEPT !.age = 0]
    ELSE [s EXCEPT !.age = 0, !.st = "closed", !.socket = FALSE, !.reg = FALSE]

\* The session after sendto, which may fail.
Sent(s, ok) == [s EXCEPT !.age = 0, !.st = IF ok THEN @ ELSE "closing"]

NewPtr(p) == ses[p].st = "none"

block_udp(p, f) == Becomes(p, New(f, "blocked", 0)) /\ UNCHANGED fds

\* Mutant: a flow whose session has finished gets another session.
BadHandleUdp(f, ok) ==
    IF \E q \in Found(f) : ses[q].st = "active"
    THEN \E p \in Found(f) : Becomes(p, Sent(ses[p], ok)) /\ UNCHANGED fds
    ELSE \E p \in Ptr : NewPtr(p) /\ Open(p, Sent(New(f, "active", 0), ok))

\* Mutant: sessions that have ended are used, too.
BadIgnore(f, ok) ==
    IF Found(f) # {}
    THEN \E p \in Found(f) : Becomes(p, Sent(ses[p], ok)) /\ UNCHANGED fds
    ELSE \E p \in Ptr : NewPtr(p) /\ Open(p, Sent(New(f, "active", 0), ok))

handle_udp(f, ok) ==
    IF Found(f) # {}
    THEN \E p \in Found(f) :
           IF ses[p].st # "active" THEN UNCHANGED <<ses, fds>>
           ELSE Becomes(p, Sent(ses[p], ok)) /\ UNCHANGED fds
    ELSE \E p \in Ptr : NewPtr(p) /\ Open(p, Sent(New(f, "active", 0), ok))

handle_icmp(f, id, ok) ==
    LET asks(s) == [Sent(s, ok) EXCEPT !.asked = IF ok THEN @ \union {id} ELSE @]
    IN IF Found(f) # {}
       THEN \E p \in Found(f) : Becomes(p, asks(ses[p])) /\ UNCHANGED fds
       ELSE \E p \in Ptr : NewPtr(p) /\ Open(p, asks(New(f, "active", id)))

\* What a packet may make of a TCP session (see SessionLife): only live ones
\* are used by it.
AfterPacket(s) ==
    IF s.st # "active" THEN {s}
    ELSE {[s EXCEPT !.age = 0, !.st = st] :
             st \in {"active", "closing"} \union (IF s.socket THEN {} ELSE {"closed"})}

handle_tcp(f, syn) ==
    IF Found(f) # {}
    THEN \E p \in Found(f) :
           \E s \in AfterPacket(ses[p]) : Becomes(p, s) /\ UNCHANGED fds
    ELSE IF syn THEN \E p \in Ptr : NewPtr(p) /\ Open(p, New(f, "active", 0))
    ELSE UNCHANGED <<ses, fds>>

\* allowed is the answer of is_address_allowed, where it is asked.
handle_ip(f, syn, id, allowed, ok) ==
    IF Limited(f, syn) THEN UNCHANGED <<ses, fds>>
    ELSE IF f \in Udp
    THEN IF has_udp_session(f) \/ allowed THEN handle_udp(f, ok)
         ELSE \E p \in Ptr : NewPtr(p) /\ block_udp(p, f)
    ELSE IF f \in Icmp
    THEN IF allowed THEN handle_icmp(f, id, ok) ELSE UNCHANGED <<ses, fds>>
    ELSE IF allowed \/ ~syn THEN handle_tcp(f, syn) ELSE UNCHANGED <<ses, fds>>

\* Mutant: the packets are counted in the wrong direction.
BadHandleTun(drained) ==
    /\ loop.pc = "batch" /\ loop.tun > 0
    /\ loop' = AfterBatch([loop EXCEPT !.tun = IF drained THEN 0 ELSE @ + 1])
    /\ UNCHANGED <<ses, fds, reply>>

\* check_tun: one packet of the batch; drained is the answer of is_readable.
HandleTun(drained) ==
    /\ loop.pc = "batch" /\ loop.tun > 0
    /\ \E f \in Flows, syn \in BOOLEAN, id \in Ids,
          forbidden \in May("forbid"), fails \in May("network") :
         /\ f \notin Tcp => syn
         /\ f \notin Icmp => id = CHOOSE i \in Ids : TRUE
         /\ handle_ip(f, syn, id, ~forbidden, ~fails)
    /\ loop' = AfterBatch([loop EXCEPT !.tun = IF drained THEN 0 ELSE @ - 1])
    /\ UNCHANGED reply

-----------------------------------------------------------------------------
(* A socket event *)

\* A UDP socket is not read when it reports an error (the loop around
\* check_udp_socket); a DNS session ends with its first answer, and a recv that
\* is interrupted or has nothing to read ("AGAIN") changes no state.
check_udp_socket(s, ev, ok) ==
    IF ev = "ERR" THEN s
    ELSE IF ev = "AGAIN" THEN [s EXCEPT !.age = 0]
    ELSE [s EXCEPT !.age = 0,
                   !.st = IF ok /\ s.flow \notin Dns THEN @ ELSE "closing"]

check_icmp_socket(s, ev, ok) ==
    [s EXCEPT !.age = 0, !.st = IF ok /\ ev = "IN" THEN @ ELSE "closing"]

\* The socket of a TCP session is closed by the end of the server's stream.
check_tcp_socket(s) ==
    {[s EXCEPT !.st = st, !.age = a] : st \in {s.st, "closing"}, a \in {0, s.age}}
    \union (IF s.st = "active"
            THEN {[s EXCEPT !.st = st, !.socket = FALSE, !.reg = FALSE, !.age = 0] :
                     st \in {"active", "closing"}}
            ELSE {})

HandleUdp(p) ==
    /\ ses[p].flow \in Udp
    /\ \E ev \in {"IN"} \union (IF "network" \in Faults THEN {"AGAIN", "ERR"} ELSE {}) :
         \E fails \in May("network") : Becomes(p, check_udp_socket(ses[p], ev, ~fails))
    /\ UNCHANGED <<fds, reply>>

\* The reply answers one of the requests; its identifier is set to the one of
\* the session.
HandleIcmp(p) ==
    /\ ses[p].flow \in Icmp
    /\ \/ \E i \in ses[p].asked :
            /\ Becomes(p, [check_icmp_socket(ses[p], "IN", TRUE) EXCEPT !.asked = @ \ {i}])
            /\ reply' = [asked |-> i, id |-> ses[p].id]
       \/ /\ "network" \in Faults
          /\ \E ev \in {"IN", "ERR"} : Becomes(p, check_icmp_socket(ses[p], ev, FALSE))
          /\ UNCHANGED reply
    /\ UNCHANGED fds

HandleTcp(p) ==
    /\ ses[p].flow \in Tcp
    /\ \E s \in check_tcp_socket(ses[p]) :
         /\ Becomes(p, s)
         /\ fds' = IF s.socket THEN fds ELSE [fds EXCEPT !.open = @ \ {p}]
    /\ UNCHANGED reply

\* The events of the batch come before or after the packets of the tun.
HandleSocket(p) ==
    /\ loop.pc = "batch" /\ p \in loop.evs /\ loop.tun \in {0, TunYield}
    /\ HandleUdp(p) \/ HandleIcmp(p) \/ HandleTcp(p)
    /\ loop' = AfterBatch([loop EXCEPT !.evs = @ \ {p}])

-----------------------------------------------------------------------------
(* The loop of handle_events *)

\* monitor_tcp_session: a socket that is not in the epoll set (any more) cannot
\* be given other events, which closes the session.
Monitored(s, fails) ==
    IF fails /\ s.flow \in Tcp /\ s.socket /\ ~s.reg THEN [s EXCEPT !.st = "closing"]
    ELSE s

\* Top of the loop: count and monitor the sessions, then check them unless the
\* last check was less than EPOLL_MIN_CHECK ago.
Monitor(checked) ==
    /\ loop.pc = "top"
    /\ \E unmonitored \in SUBSET {p \in Ptr : ses[p].flow \in Tcp /\ ses[p].socket
                                                /\ ~ses[p].reg},
          timeout \in [{p \in Ptr : ses[p].flow \in Tcp} -> TcpTimeouts] :
         LET n == Cardinality(Active(ses))
             m == [p \in Ptr |-> Monitored(ses[p], p \in unmonitored)]
             r == [p \in Ptr |-> IF ~checked THEN Keep(m[p])
                                 ELSE check(m[p], n, IF p \in DOMAIN timeout
                                                     THEN timeout[p] ELSE 0)]
         IN /\ ses' = [p \in Ptr |-> r[p].s]
            /\ fds' = [fds EXCEPT !.open = @ \ {p \in Ptr : r[p].closes}]
            /\ loop' = [loop EXCEPT !.pc = "wait", !.sessions = n]
    /\ UNCHANGED reply

\* Time passes while the thread is in epoll_wait.
Older(s) == [s EXCEPT !.age = IF s.st = "none" \/ @ = AgeBound THEN @ ELSE @ + 1]

\* The sockets that the kernel may report.
Ready == {p \in Ptr : /\ ses[p].reg
                      /\ ses[p].flow \in Icmp => ses[p].asked # {} \/ "network" \in Faults}

\* epoll_wait returns some events, after a second or at once.
Wait(second) ==
    /\ loop.pc = "wait"
    /\ ses' = IF second THEN [p \in Ptr |-> Older(ses[p])] ELSE ses
    /\ \E evs \in SUBSET Ready, tun \in {0, TunYield} :
         loop' = AfterBatch([loop EXCEPT !.pc = "batch", !.evs = evs, !.tun = tun])
    /\ UNCHANGED <<fds, reply>>

\* handle_events ends: jni_stop was called, or the tun reported an error, which
\* drops the rest of the batch.
Stop ==
    /\ "restart" \in Faults
    /\ loop.pc = "top" \/ (loop.pc = "batch" /\ loop.tun > 0)
    /\ loop' = [loop EXCEPT !.pc = "stopped", !.tun = 0, !.evs = {}]
    /\ UNCHANGED <<ses, fds, reply>>

\* handle_events starts: "Terminate existing sessions not allowed anymore", with
\* a new epoll set that has none of the sockets.
check_allowed(s, allowed) ==
    IF s.st = "blocked" THEN Free
    ELSE IF s.st = "active" /\ ~allowed THEN [s EXCEPT !.st = "closing", !.reg = FALSE]
    ELSE [s EXCEPT !.reg = FALSE]

Start ==
    /\ loop.pc = "stopped"
    /\ \E denied \in IF "forbid" \in Faults THEN SUBSET Active(ses) ELSE {{}} :
         ses' = [p \in Ptr |-> check_allowed(ses[p], p \notin denied)]
    /\ loop' = [loop EXCEPT !.pc = "top"]
    /\ UNCHANGED <<fds, reply>>

\* Mutant: only the list is emptied.
BadClear ==
    /\ loop.pc = "stopped"
    /\ ses' = [p \in Ptr |-> Free]
    /\ UNCHANGED <<loop, fds, reply>>

\* jni_clear, after the thread has ended.
clear ==
    /\ loop.pc = "stopped"
    /\ ses' = [p \in Ptr |-> Free]
    /\ fds' = [fds EXCEPT !.open = @ \ Sockets(ses)]
    /\ UNCHANGED <<loop, reply>>

-----------------------------------------------------------------------------

NoReply == [asked |-> 0, id |-> 0]

Init ==
    /\ ses = [p \in Ptr |-> Free]
    /\ loop = [pc |-> "top", sessions |-> 0, tun |-> 0, evs |-> {}]
    /\ fds = [open |-> {}, lost |-> 0]
    /\ reply = NoReply

Next ==
    \/ \E c \in BOOLEAN : Monitor(c)
    \/ \E second \in BOOLEAN : Wait(second)
    \/ \E drained \in BOOLEAN : HandleTun(drained)
    \/ \E p \in Ptr : HandleSocket(p)
    \/ Stop \/ Start \/ clear

Spec == Init /\ [][Next]_vars

\* The thread runs, seconds pass, and the sessions are checked again and again.
Fairness ==
    /\ WF_vars(\E drained \in BOOLEAN : HandleTun(drained))
    /\ \A p \in Ptr : WF_vars(HandleSocket(p))
    /\ SF_vars(Monitor(TRUE)) /\ SF_vars(Wait(TRUE))

FairSpec == Spec /\ Fairness

-----------------------------------------------------------------------------
(* Properties *)

Entry == [flow : Flows \union {NoFlow},
          st : {"none", "active", "closing", "closed", "blocked"},
          socket : BOOLEAN, reg : BOOLEAN, age : 0..AgeBound,
          id : Ids \union {0}, asked : SUBSET Ids]
LoopState == [pc : {"top", "wait", "batch", "stopped"}, sessions : Nat,
              tun : 0..TunYield, evs : SUBSET Ptr]
Descriptors == [open : SUBSET Ptr, lost : 0..LeakBound]

\* The shape and the values of the sessions, the loop and the descriptors.
TypeOK ==
    /\ ses \in [Ptr -> Entry] /\ loop \in LoopState /\ fds \in Descriptors
    /\ reply \in [asked : Ids \union {0}, id : Ids \union {0}]

\* UDP and ICMP sessions own a socket until the check closes it, which
\* check_udp_session and check_icmp_session do without looking whether there is
\* one; a session that lingers has none; only an open socket reports events.
SocketMatchesState ==
    \A p \in Ptr :
       LET s == ses[p]
       IN /\ s.st \in {"active", "closing"} /\ s.flow \notin Tcp => s.socket
          /\ s.st \in {"none", "closed", "blocked"} => ~s.socket
          /\ s.reg => s.socket

\* No descriptor of a session is lost and none is closed twice, however the
\* session ends: every open one belongs to a session that still has to close it.
\* (open_udp_socket loses one when protect fails; those are counted apart.)
NoDescriptorLeak == fds.open = Sockets(ses)

\* The sessions that the events of a batch point to (data.ptr) still exist and
\* have their socket, whatever was done earlier in the batch.
EventsHaveSession == \A p \in loop.evs : ses[p].st # "none" /\ ses[p].socket

\* A flow has one session: the search of handle_udp and handle_tcp, which stops
\* at the first match, is never ambiguous.  ICMP allows stopped ones besides.
OneSessionPerFlow ==
    \A p, q \in Ptr :
       p # q /\ ses[p].flow = ses[q].flow /\ ses[p].flow # NoFlow
          => ses[p].flow \in Icmp /\ ~(ses[p].st = "active" /\ ses[q].st = "active")

\* "Limit number of sessions": the count that handle_ip compares is as old as
\* the batch, so that a batch may add TUN_YIELD sessions; DNS is not limited
\* unless it is forwarded by a rule.
SessionsLimited ==
    Cardinality({p \in Active(ses) : Fwd53 \/ ses[p].flow \notin Dns})
       <= MaxSessions - 1 + TunYield

\* Every session, of each protocol, goes through the phases of SessionLife.
Life(p) == INSTANCE SessionLife WITH phase <- ses[p].st, sock <- ses[p].socket
FollowsLife ==
    /\ \A p \in Ptr : Life(p)!Init
    /\ [][\A p \in Ptr : [Life(p)!Next]_(Life(p)!life)]_vars

\* A flow that is ignored because its session ended or was blocked does not stay
\* so: the session is freed, whatever the app still sends to it, or the tunnel
\* is stopped.
EndedIsFreed ==
    \A p \in Ptr :
       ses[p].st \in {"closing", "closed", "blocked"}
          ~> ses[p].st = "none" \/ loop.pc = "stopped"

\* "idle %d/%d sec": a session that was used within the second is closed by the
\* check only when the table is overloaded, that is when its active sessions
\* exceed maxsessions by one percent or more, where the scale of the timeouts is
\* negative.  A full table, at the limit itself, still keeps it.
InUse(s) == s.st = "active" /\ s.age = 0 /\ s.reg
Overloaded(t) == 100 * Cardinality(Active(t)) >= 101 * MaxSessions
OnlyIdleTimedOut ==
    [][loop.pc = "top" /\ loop'.pc = "wait" =>
          \A p \in Ptr : InUse(ses[p]) => ses'[p].st = "active" \/ Overloaded(ses)]_vars

\* "restore original ID": the reply written to the tun has the identifier of
\* the request that it answers.
EchoKeepsId == reply.asked = reply.id

=============================================================================
