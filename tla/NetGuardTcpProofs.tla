------------------------- MODULE NetGuardTcpProofs -------------------------
(***************************************************************************)
(* Proofs about NetGuardTcp: type correctness, the agreement of a session  *)
(* with its socket and with the events that epoll_wait reported for it,    *)
(* that no session is reopened, and that it implements SessionLife.  There *)
(* is one lemma for each function of tcp.c, in the order of the calls, and *)
(* one for each action; the theorems are at the end.                       *)
(***************************************************************************)
EXTENDS NetGuardTcp, FiniteSetTheorems, TLAPS

\* The queues of segments that a session can hold.
Queues == UNION {[D -> Segment] : D \in {D \in SUBSET Nat : IsFiniteSet(D)}}

\* The sessions of TypeOK as a set of records, which is the form the provers
\* handle best (SessionShape shows that it is the same set).
Session == [state : States, socks5 : Socks, socket : BOOLEAN,
            events : SUBSET Events, registered : BOOLEAN,
            local_seq : Nat, remote_seq : Int, acked : Nat, forward : Queues,
            send_window : Int, unconfirmed : Nat, recv_window : Nat]

\* What a handler works on.
Contexts == [tcp : Session, app : AppType, srv : ServerType, writes : Nat]

\* The TCP flags, and the packets that write_tcp builds.
Flags == SUBSET {"SYN", "ACK", "FIN", "RST"}
Reply == [flags : Flags, len : Nat, seq : Nat,
          ack : Int, win : Nat]

\* The type of a session in TypeOK is membership in the set Session.
LEMMA SessionShape == ASSUME NEW t PROVE SessionOK(t) <=> t \in Session
<1>1. ASSUME SessionOK(t) PROVE t \in Session
  <2>1. t.forward \in Queues
    BY <1>1 DEF SessionOK, Queue, Queues
  <2>2. QED  BY <1>1, <2>1 DEF SessionOK, Session
<1>2. ASSUME t \in Session PROVE SessionOK(t)
  <2>1. Queue(t.forward)
    BY <1>2 DEF Session, Queues, Queue
  <2>2. QED  BY <1>2, <2>1 DEF SessionOK, Session
<1>3. QED  BY <1>1, <1>2

\* The window of the header, in units, is never larger than the one it stands for.
LEMMA UnitFacts ==
    \A n \in Nat : /\ n * WindowUnit \in Nat /\ n \div WindowUnit \in Nat
                   /\ (n \div WindowUnit) * WindowUnit <= n /\ n \div WindowUnit <= n
<1> TAKE n \in Nat
<1>1. WindowUnit \in Nat \ {0}  BY TcpAssumption DEF TcpAssumption
<1>2. n * WindowUnit \in Nat /\ n \div WindowUnit \in Nat  BY <1>1
<1>3. (n \div WindowUnit) * WindowUnit <= n
  <2>1. n = WindowUnit * (n \div WindowUnit) + (n % WindowUnit) /\ n % WindowUnit \in Nat
    BY <1>1
  <2>2. PICK k : k = n \div WindowUnit  OBVIOUS
  <2>3. k \in Nat /\ WindowUnit * k <= n  BY <1>1, <1>2, <2>1, <2>2
  <2>4. k * WindowUnit = WindowUnit * k  BY <1>1, <2>3
  <2>5. QED  BY <2>2, <2>3, <2>4
<1>4. n \div WindowUnit <= n
  <2>1. PICK k : k = n \div WindowUnit  OBVIOUS
  <2>2. k \in Nat /\ k * WindowUnit <= n  BY <1>2, <1>3, <2>1
  <2>3. k <= k * WindowUnit  BY <1>1, <2>2
  <2>4. k * WindowUnit \in Nat  BY <1>1, <2>2
  <2>5. QED  BY <2>1, <2>2, <2>3, <2>4
<1>5. QED  BY <1>2, <1>3, <1>4

\* The bytes that wait in a queue are finitely many.
LEMMA QueuedFinite ==
    ASSUME NEW f \in Queues
    PROVE  IsFiniteSet(QueuedBytes(f)) /\ ToForward(f) \in Nat
<1> DEFINE P(q) == {q} \X (f[q].sent..(f[q].len - 1))
           R == {P(q) : q \in DOMAIN f}
           g == [q \in DOMAIN f |-> P(q)]
<1>1. IsFiniteSet(DOMAIN f) /\ f \in [DOMAIN f -> Segment]  BY DEF Queues
<1>2. ASSUME NEW q \in DOMAIN f PROVE IsFiniteSet(P(q))
  <2>1. f[q].sent \in Int /\ f[q].len - 1 \in Int  BY <1>1 DEF Segment
  <2>2. IsFiniteSet(f[q].sent..(f[q].len - 1))  BY <2>1, FS_Interval
  <2>3. QED  BY <2>2, FS_Singleton, FS_Product
<1>3. IsFiniteSet(R)
  <2> HIDE DEF P
  <2>1. g \in Surjection(DOMAIN f, R)  BY DEF Surjection
  <2>2. QED  BY <1>1, <2>1, FS_Surjection
<1>4. \A T \in R : IsFiniteSet(T)  BY <1>2
<1>5. IsFiniteSet(UNION R)  BY <1>3, <1>4, FS_UNION
<1>6. IsFiniteSet(QueuedBytes(f))  BY <1>5 DEF QueuedBytes
<1>7. QED  BY <1>6, FS_CardinalityType DEF ToForward

\* A packet of the engine keeps the state of the app's TCP well formed.
LEMMA AppRecvType ==
    ASSUME NEW a \in AppType, NEW p \in Reply
    PROVE  AppRecv(a, p) \in AppType
<1> USE DEF AppType
<1>1. CASE "RST" \in p.flags  BY <1>1 DEF AppRecv
<1>2. CASE "RST" \notin p.flags /\ "SYN" \in p.flags
  <2>1. CASE a.st = "SYN_SENT" /\ p.ack = a.snd_nxt
    <3>1. AppRecv(a, p) = [a EXCEPT !.st = "EST", !.snd_una = p.ack,
                          !.rcv_nxt = p.seq + 1, !.wnd = p.win,
                          !.ackDue = TRUE]
      BY <1>2, <2>1, Zenon DEF AppRecv
    <3>2. p.ack \in Nat /\ p.seq + 1 \in Nat /\ p.win \in Nat
      BY <2>1 DEF Reply
    <3>3. QED  BY <3>1, <3>2
  <2>2. CASE ~(a.st = "SYN_SENT" /\ p.ack = a.snd_nxt)
    BY <1>2, <2>2, Zenon DEF AppRecv
  <2>3. QED  BY <2>1, <2>2
<1>3. CASE "RST" \notin p.flags /\ "SYN" \notin p.flags
  <2> DEFINE n == p.len + (IF "FIN" \in p.flags THEN 1 ELSE 0)
             b == IF p.seq = a.rcv_nxt /\ n > 0
                  THEN [a EXCEPT !.rcv_nxt = @ + n,
                                 !.unread = @ + p.len, !.ackDue = TRUE]
                  ELSE a
  <2>1. n \in Nat  BY DEF Reply
  <2>2. b \in AppType
    <3>1. a.rcv_nxt + n \in Nat /\ a.unread + p.len \in Nat
      BY <2>1 DEF Reply
    <3> HIDE DEF n
    <3>2. QED  BY <3>1
  <2>3. b.snd_una = a.snd_una  BY <2>1
  <2>4. AppRecv(a, p) = IF a.st # "EST" THEN a
                        ELSE IF p.ack < a.snd_una THEN b
                        ELSE [b EXCEPT !.snd_una = p.ack, !.wnd = p.win * WindowUnit]
    BY <1>3, Zenon DEF AppRecv
  <2> HIDE DEF b, n
  <2>5. ~(p.ack < a.snd_una) => p.ack \in Nat  BY DEF Reply
  <2>6. p.win * WindowUnit \in Nat  BY UnitFacts DEF Reply
  <2>7. QED  BY <2>2, <2>4, <2>5, <2>6
<1>4. QED  BY <1>1, <1>2, <1>3

\* write_tcp leaves the session and the server alone; only the app sees it.
LEMMA WriteTcp ==
    ASSUME NEW c \in Contexts, NEW flags \in Flags,
           NEW len \in Nat
    PROVE  LET r == write_tcp(c, flags, len)
           IN  r \in Contexts /\ r.tcp = c.tcp /\ r.srv = c.srv
<1> DEFINE p == [flags |-> flags, len |-> len, seq |-> c.tcp.local_seq,
                 ack |-> c.tcp.remote_seq, win |-> c.tcp.recv_window \div WindowUnit]
<1>1. p \in Reply  BY UnitFacts DEF Contexts, Session, Reply
<1>2. AppRecv(c.app, p) \in AppType  BY <1>1, AppRecvType DEF Contexts
<1>3. write_tcp(c, flags, len) =
        IF c.writes = 0 THEN c
        ELSE [c EXCEPT !.writes = c.writes - 1, !.app = AppRecv(c.app, p)]
  BY Zenon DEF write_tcp
<1> HIDE DEF p
<1>4. c.writes # 0 => c.writes - 1 \in Nat  BY DEF Contexts
<1>5. QED  BY <1>2, <1>3, <1>4 DEF Contexts

\* write_syn_ack, write_ack, write_data and write_fin_ack leave the session
\* alone when write() succeeds and put it in CLOSING when it fails.
LEMMA WriteOrClose ==
    ASSUME NEW c \in Contexts, NEW flags \in Flags, NEW len \in Nat
    PROVE  LET r == write_or_close(c, flags, len)
           IN  /\ r \in Contexts /\ r.srv = c.srv
               /\ r.tcp = IF c.writes = 0 THEN [c.tcp EXCEPT !.state = "CLOSING"]
                          ELSE c.tcp
<1>1. CASE c.writes = 0
  <2>1. write_or_close(c, flags, len) =
          [c EXCEPT !.tcp = [c.tcp EXCEPT !.state = "CLOSING"]]
    BY <1>1 DEF write_or_close
  <2>2. [c.tcp EXCEPT !.state = "CLOSING"] \in Session
    BY DEF Contexts, Session, States
  <2>3. QED  BY <1>1, <2>1, <2>2 DEF Contexts
<1>2. CASE c.writes # 0
  BY <1>2, WriteTcp DEF write_or_close
<1>3. QED  BY <1>1, <1>2

\* What write_rst does to the session, whether or not write() succeeds.
Reset(t) == [t EXCEPT !.remote_seq = IF t.state = "LISTEN" THEN @ + 1 ELSE @,
                      !.state = IF @ = "CLOSE" THEN @ ELSE "CLOSING"]

\* write_rst keeps a session well formed.
LEMMA ResetType == ASSUME NEW t \in Session PROVE Reset(t) \in Session
<1>1. (IF t.state = "LISTEN" THEN t.remote_seq + 1 ELSE t.remote_seq) \in Int
  BY DEF Session
<1>2. (IF t.state = "CLOSE" THEN t.state ELSE "CLOSING") \in States
  BY DEF Session, States
<1>3. QED  BY <1>1, <1>2 DEF Reset, Session

\* write_rst changes the session as Reset says: a session in LISTEN counts the
\* SYN that the reset acknowledges, one in CLOSE stays there.
LEMMA WriteRst ==
    ASSUME NEW c \in Contexts
    PROVE  /\ write_rst(c) \in Contexts
           /\ write_rst(c).srv = c.srv /\ write_rst(c).tcp = Reset(c.tcp)
<1> DEFINE t == [c.tcp EXCEPT !.remote_seq = IF c.tcp.state = "LISTEN" THEN @ + 1 ELSE @]
           d == [c EXCEPT !.tcp = t]
           fl == IF c.tcp.state = "LISTEN" THEN {"RST", "ACK"} ELSE {"RST"}
           w == write_tcp(d, fl, 0)
<1>1. t \in Session  BY DEF Contexts, Session
<1>2. d \in Contexts /\ d.tcp = t /\ d.srv = c.srv  BY <1>1 DEF Contexts
<1>3. d = IF c.tcp.state = "LISTEN" THEN [c EXCEPT !.tcp.remote_seq = @ + 1] ELSE c
  BY DEF Contexts, Session
<1>4. write_rst(c) = [w EXCEPT !.tcp.state = IF @ = "CLOSE" THEN @ ELSE "CLOSING"]
  BY <1>3, Zenon DEF write_rst
<1>5. w \in Contexts /\ w.tcp = t /\ w.srv = c.srv
  <2>1. fl \in Flags  BY DEF Flags
  <2> HIDE DEF fl, t, d
  <2>2. QED  BY <1>2, <2>1, WriteTcp
<1>6. [t EXCEPT !.state = IF @ = "CLOSE" THEN @ ELSE "CLOSING"] = Reset(c.tcp)
  <2>1. c.tcp \in Session  BY DEF Contexts
  <2>2. t.state = c.tcp.state  BY <2>1 DEF Session
  <2>3. QED  BY <2>1, <2>2 DEF Reset, Session
<1>7. Reset(c.tcp) \in Session  BY ResetType DEF Contexts
<1>8. write_rst(c) = [w EXCEPT !.tcp = Reset(c.tcp)]
  <2> HIDE DEF w, t
  <2>1. QED  BY <1>4, <1>5, <1>6
<1>9. QED
  <2> HIDE DEF w, t
  <2>1. QED  BY <1>5, <1>7, <1>8 DEF Contexts

-----------------------------------------------------------------------------
(* Handlers *)

\* The states in which the app still can send through the socket.
Usable == {"LISTEN", "SYN_RECV", "ESTABLISHED", "CLOSE_WAIT"}

\* SocketMatchesState, of any session.
Sound(t) ==
    /\ t.state \in Usable => t.socket
    /\ t.state \in {"FIN_WAIT1", "LAST_ACK", "CLOSE", "NONE"} => ~t.socket
    /\ t.registered => t.socket

\* The session keeps its socket, and its state or goes to CLOSING.
Stays(t, u) ==
    /\ u.socket = t.socket /\ u.registered = t.registered
    /\ u.state \in {t.state, "CLOSING"}

\* A handler that keeps the socket and at most goes to CLOSING keeps the
\* agreement of socket and state.
LEMMA StaysSound ==
    ASSUME NEW t, NEW u, Sound(t), Stays(t, u)
    PROVE  Sound(u)
BY DEF Sound, Stays, Usable

\* Two such handlers one after the other are such a handler.
LEMMA StaysTransitive ==
    ASSUME NEW t, NEW u, NEW v, Stays(t, u), Stays(u, v)
    PROVE  Stays(t, v)
BY DEF Stays

\* write_rst is such a handler.
LEMMA ResetStays ==
    ASSUME NEW t \in Session
    PROVE  Stays(t, Reset(t))
<1>1. /\ Reset(t).state \in {t.state, "CLOSING"}
      /\ Reset(t).socket = t.socket /\ Reset(t).registered = t.registered
  BY DEF Reset, Session
<1>2. QED  BY <1>1 DEF Stays

\* So is every write that closes the session when it fails.
LEMMA CloseStays ==
    ASSUME NEW c \in Contexts, NEW flags \in Flags, NEW len \in Nat
    PROVE  Stays(c.tcp, write_or_close(c, flags, len).tcp)
<1>1. c.tcp \in Session  BY DEF Contexts
<1>2. Stays(c.tcp, c.tcp)  BY DEF Stays
<1>3. Stays(c.tcp, [c.tcp EXCEPT !.state = "CLOSING"])  BY <1>1 DEF Stays, Session
<1>4. QED  BY <1>2, <1>3, WriteOrClose

\* The answers of the kernel and of the proxy, as a set of records.
Oracles == [run : SUBSET Nat, end : Int, part : Nat, serr : BOOLEAN,
            rd : {"data", "eof", "err"}, n : Nat,
            rep : {"ok", "auth", "bad", "error"}, sok : BOOLEAN]

\* The forwarding loop of check_tcp_socket keeps the queue well formed (a
\* segment that was sent in part stays with what was sent of it).
LEMMA ForwardParts ==
    ASSUME NEW c \in Contexts, NEW o \in Oracles,
           o.run \subseteq DOMAIN c.tcp.forward, SendOutcome(c, o)
    PROVE  forwarded(c.tcp, o) \in Session /\ delivered(c, o) \in ServerType
<1> DEFINE t == c.tcp
           f == t.forward
           e == o.end
           at == e + (IF o.part > 0 THEN f[e].sent + o.part ELSE 0)
           start == t.remote_seq + f[t.remote_seq].sent
           g == [q \in DOMAIN f \ o.run |->
                   IF q = e THEN [f[q] EXCEPT !.sent = @ + o.part] ELSE f[q]]
           u == forwarded(t, o)
           s == delivered(c, o)
<1>1. t \in Session /\ c.srv \in ServerType  BY DEF Contexts
<1>2. DOMAIN f \subseteq Nat /\ IsFiniteSet(DOMAIN f) /\ f \in [DOMAIN f -> Segment]
  BY <1>1 DEF Session, Queues
<1>3. g \in Queues
  <2>1. \A q \in DOMAIN f \ o.run :
           (IF q = e THEN [f[q] EXCEPT !.sent = @ + o.part] ELSE f[q]) \in Segment
    BY <1>2 DEF Segment, Oracles
  <2>2. g \in [DOMAIN f \ o.run -> Segment]  BY <2>1
  <2>3. IsFiniteSet(DOMAIN f \ o.run)  BY <1>2, FS_Difference
  <2> HIDE DEF f, g
  <2>4. QED  BY <1>2, <2>2, <2>3 DEF Queues
<1>4. u \in Session  BY <1>1, <1>3 DEF Session, Oracles, forwarded
<1>5. s \in ServerType
  <2>1. CASE o.run = {} /\ o.part = 0  BY <1>1, <2>1 DEF delivered
  <2>2. CASE ~(o.run = {} /\ o.part = 0)
    <3>1. o.run = {} => e = t.remote_seq
      BY DEF SendOutcome, RunEnd
    <3>2. o.part > 0 => e \in DOMAIN f
      BY DEF SendOutcome, Sendable, HeadIs
    <3>3. t.remote_seq \in DOMAIN f
      <4>1. CASE o.run = {}  BY <2>2, <4>1, <3>1, <3>2 DEF Oracles
      <4>2. CASE o.run # {}  BY <4>2 DEF SendOutcome
      <4>3. QED  BY <4>1, <4>2
    <3>4. start \in Int /\ at \in Int
      BY <1>1, <1>2, <3>2, <3>3 DEF Session, Segment, Oracles
    <3> HIDE DEF start, at
    <3>5. s = [c.srv EXCEPT !.unsent = @ + (at - start), !.next = at,
                                   !.intact = @ /\ start = c.srv.next]
      BY <2>2 DEF start, at, delivered
    <3>6. /\ c.srv.unsent + (at - start) \in Int
          /\ (c.srv.intact /\ start = c.srv.next) \in BOOLEAN
      BY <1>1, <3>4 DEF ServerType
    <3>7. QED  BY <1>1, <3>4, <3>5, <3>6 DEF ServerType
  <2>3. QED  BY <2>1, <2>2
<1>6. QED  BY <1>4, <1>5

\* It keeps the socket, also if a send fails.
LEMMA ForwardData ==
    ASSUME NEW c \in Contexts, NEW o \in Oracles,
           o.run \subseteq DOMAIN c.tcp.forward, SendOutcome(c, o)
    PROVE  /\ forward_data(c, o) \in Contexts
           /\ Stays(c.tcp, forward_data(c, o).tcp)
<1> DEFINE t == c.tcp
           u == forwarded(t, o)
           s == delivered(c, o)
           d == [c EXCEPT !.tcp = u, !.srv = s]
<1>1. t \in Session  BY DEF Contexts
<1>2. u \in Session /\ s \in ServerType  BY ForwardParts
<1>3. d \in Contexts /\ d.tcp = u /\ d.srv = s  BY <1>2 DEF Contexts
<1>4. Stays(t, u)  BY <1>1 DEF Stays, Session, forwarded
<1>5. forward_data(c, o) = IF o.serr THEN write_rst([d EXCEPT !.srv.err = TRUE]) ELSE d
  BY DEF forward_data
<1> HIDE DEF d, u, s
<1>6. CASE o.serr
  <2> DEFINE x == [d EXCEPT !.srv.err = TRUE]
  <2>1. [d.srv EXCEPT !.err = TRUE] \in ServerType  BY <1>3 DEF Contexts, ServerType
  <2>2. x \in Contexts /\ x.tcp = u  BY <1>3, <2>1 DEF Contexts
  <2>3. forward_data(c, o) = write_rst(x)  BY <1>5, <1>6
  <2> HIDE DEF x
  <2>4. forward_data(c, o) \in Contexts /\ forward_data(c, o).tcp = Reset(u)
    BY <2>2, <2>3, WriteRst
  <2>5. QED  BY <1>2, <1>4, <2>4, ResetStays, StaysTransitive
<1>7. CASE ~o.serr  BY <1>3, <1>4, <1>5, <1>7
<1>8. QED  BY <1>6, <1>7

\* Replacing the session of a context.
LEMMA WithTcp ==
    ASSUME NEW c \in Contexts, NEW t \in Session
    PROVE  /\ [c EXCEPT !.tcp = t] \in Contexts
           /\ [c EXCEPT !.tcp = t].tcp = t
           /\ [c EXCEPT !.tcp = t].srv = c.srv
           /\ [c EXCEPT !.tcp = t].writes = c.writes
BY DEF Contexts

\* write_ack, from WriteOrClose.
LEMMA WriteAck ==
    ASSUME NEW c \in Contexts
    PROVE  /\ write_ack(c) \in Contexts /\ write_ack(c).srv = c.srv
           /\ Stays(c.tcp, write_ack(c).tcp)
           /\ c.writes # 0 => write_ack(c).tcp = c.tcp
           /\ c.writes = 0 => write_ack(c).tcp = [c.tcp EXCEPT !.state = "CLOSING"]
<1>1. {"ACK"} \in Flags  BY DEF Flags
<1>2. QED  BY <1>1, WriteOrClose, CloseStays DEF write_ack

\* The window that a handler finds is a number of bytes.
LEMMA WindowType == ASSUME NEW c \in Contexts PROVE get_receive_window(c) \in Nat
<1>1. SndBuf \in Nat /\ MaxWindow \in Nat /\ WindowUnit \in Nat
  BY TcpAssumption DEF TcpAssumption
<1>2. c.tcp.forward \in Queues /\ c.srv.unsent \in Int  BY DEF Contexts, Session, ServerType
<1>3. get_receive_buffer(c) \in Nat  BY <1>1, <1>2 DEF get_receive_buffer
<1>4. ToForward(c.tcp.forward) \in Nat  BY <1>2, QueuedFinite
<1>5. MaxWindow * WindowUnit \in Nat  BY <1>1
<1>6. QED  BY <1>3, <1>4, <1>5 DEF get_receive_window

\* Forwarding, the new receive window and the acknowledgment, which counts a
\* FIN that waited behind the data, keep the socket.
LEMMA ForwardAndAck ==
    ASSUME NEW c \in Contexts, NEW evs, NEW o \in Oracles,
           "OUT" \in evs => o.run \subseteq DOMAIN c.tcp.forward /\ SendOutcome(c, o)
    PROVE  /\ forward_and_ack(c, evs, o) \in Contexts
           /\ Stays(c.tcp, forward_and_ack(c, evs, o).tcp)
<1> DEFINE fwd == "OUT" \in evs /\ (o.run # {} \/ o.part > 0)
           d == IF "OUT" \in evs THEN forward_data(c, o) ELSE c
           e == [d EXCEPT !.tcp.recv_window = get_receive_window(d)]
           confirm == fwd /\ e.tcp.forward = EmptyQueue /\ e.tcp.state = "CLOSE_WAIT"
           x == [e EXCEPT !.tcp.remote_seq = @ + (IF confirm THEN 1 ELSE 0)]
           t == [d.tcp EXCEPT !.recv_window = get_receive_window(d)]
           u == [t EXCEPT !.remote_seq = @ + (IF confirm THEN 1 ELSE 0)]
<1>1. forward_and_ack(c, evs, o) =
        IF fwd \/ (c.tcp.recv_window = 0 /\ e.tcp.recv_window > 0) THEN write_ack(x) ELSE e
  BY DEF forward_and_ack
<1>2. d \in Contexts /\ Stays(c.tcp, d.tcp)
  BY ForwardData DEF Stays
<1> HIDE DEF d
<1>3. d.tcp \in Session  BY <1>2 DEF Contexts
<1>4. t \in Session /\ Stays(d.tcp, t)
  <2>1. get_receive_window(d) \in Nat  BY <1>2, WindowType
  <2>2. QED  BY <1>3, <2>1 DEF Session, Stays
<1>5. e \in Contexts /\ e.tcp = t
  <2>1. e = [d EXCEPT !.tcp = t]  OBVIOUS
  <2> HIDE DEF e, t
  <2>2. QED  BY <1>2, <1>4, <2>1, WithTcp
<1> HIDE DEF e, t, fwd, confirm
<1>6. u \in Session /\ Stays(t, u)
  BY <1>4 DEF Session, Stays
<1>7. x \in Contexts /\ x.tcp = u
  <2>1. x = [e EXCEPT !.tcp = u]  BY <1>5
  <2> HIDE DEF x, u
  <2>2. QED  BY <1>5, <1>6, <2>1, WithTcp
<1> HIDE DEF x, u
<1>8. write_ack(x) \in Contexts /\ Stays(u, write_ack(x).tcp)
  BY <1>7, WriteAck
<1>9. Stays(c.tcp, t)  BY <1>2, <1>4, StaysTransitive
<1>10. Stays(c.tcp, u)  BY <1>6, <1>9, StaysTransitive
<1>11. Stays(c.tcp, write_ack(x).tcp)  BY <1>8, <1>10, StaysTransitive
<1>12. QED  BY <1>1, <1>5, <1>8, <1>9, <1>11

\* write_fin_ack, from WriteOrClose.
LEMMA WriteFinAck ==
    ASSUME NEW c \in Contexts
    PROVE  /\ write_fin_ack(c) \in Contexts /\ write_fin_ack(c).srv = c.srv
           /\ c.writes # 0 => write_fin_ack(c).tcp = c.tcp
           /\ c.writes = 0 => write_fin_ack(c).tcp = [c.tcp EXCEPT !.state = "CLOSING"]
<1>1. {"FIN", "ACK"} \in Flags  BY DEF Flags
<1>2. QED  BY <1>1, WriteOrClose DEF write_fin_ack

\* write_data, from WriteOrClose.
LEMMA WriteData ==
    ASSUME NEW c \in Contexts, NEW n \in Nat
    PROVE  /\ write_data(c, n) \in Contexts /\ write_data(c, n).srv = c.srv
           /\ Stays(c.tcp, write_data(c, n).tcp)
           /\ c.writes # 0 => write_data(c, n).tcp = c.tcp
           /\ c.writes = 0 => write_data(c, n).tcp = [c.tcp EXCEPT !.state = "CLOSING"]
<1>1. {"ACK"} \in Flags  BY DEF Flags
<1>2. QED  BY <1>1, WriteOrClose, CloseStays DEF write_data

\* recv(): the end of the server's stream closes the socket and leaves the
\* states in which it is used, in whatever way the writes to the tun end.
LEMMA ReadSocket ==
    ASSUME NEW c \in Contexts, NEW o \in Oracles, Sound(c.tcp),
           c.tcp.state \in {"ESTABLISHED", "CLOSE_WAIT"}
    PROVE  read_socket(c, o) \in Contexts /\ Sound(read_socket(c, o).tcp)
<1>1. c.tcp \in Session /\ c.srv \in ServerType  BY DEF Contexts
<1>2. CASE o.rd = "err"
  <2>1. read_socket(c, o) = write_rst(c)  BY <1>2 DEF read_socket
  <2>2. QED  BY <1>1, <2>1, WriteRst, ResetStays, StaysSound
<1>3. CASE o.rd = "eof"
  <2> DEFINE s == IF c.tcp.state = "ESTABLISHED" THEN "FIN_WAIT1" ELSE "LAST_ACK"
             w == write_fin_ack(c)
             x == [w EXCEPT !.tcp.local_seq = @ + 1, !.tcp.state = s]
             t == [w.tcp EXCEPT !.local_seq = @ + 1, !.state = s]
             d == IF c.tcp.forward # EmptyQueue THEN write_rst(c)
                  ELSE IF c.writes = 0 THEN w ELSE x
             r == [d EXCEPT !.tcp.socket = FALSE, !.tcp.registered = FALSE]
             u == [d.tcp EXCEPT !.socket = FALSE, !.registered = FALSE]
  <2>1. read_socket(c, o) = r  BY <1>3, Zenon DEF read_socket
  <2>2. s \in {"FIN_WAIT1", "LAST_ACK"}  OBVIOUS
  <2> HIDE DEF s
  <2>3. w \in Contexts /\ w.tcp \in Session  BY WriteFinAck DEF Contexts
  <2>4. c.writes = 0 => w.tcp.state = "CLOSING"
    BY <1>1, WriteFinAck DEF Session
  <2> HIDE DEF w
  <2>5. t \in Session /\ t.state = s
    <3>1. w.tcp.local_seq + 1 \in Nat /\ s \in States
      BY <2>2, <2>3 DEF Session, States, Live
    <3>2. QED  BY <2>3, <3>1 DEF Session
  <2>6. x = [w EXCEPT !.tcp = t]  OBVIOUS
  <2> HIDE DEF x, t
  <2>7. x \in Contexts /\ x.tcp = t  BY <2>3, <2>5, <2>6, WithTcp
  <2>8. write_rst(c) \in Contexts /\ write_rst(c).tcp.state = "CLOSING"
    BY <1>1, WriteRst DEF Reset, Session
  <2>9. d \in Contexts /\ d.tcp.state \in {"CLOSING", "FIN_WAIT1", "LAST_ACK"}
    BY <2>2, <2>3, <2>4, <2>5, <2>7, <2>8
  <2>10. r = [d EXCEPT !.tcp = u]  OBVIOUS
  <2> HIDE DEF d
  <2>11. d.tcp \in Session  BY <2>9 DEF Contexts
  <2>12. u \in Session /\ u.state = d.tcp.state /\ ~u.socket /\ ~u.registered
    BY <2>11 DEF Session
  <2> HIDE DEF r, u
  <2>13. Sound(u)  BY <2>9, <2>12 DEF Sound, Usable
  <2>14. QED  BY <2>1, <2>9, <2>10, <2>12, <2>13, WithTcp
<1>4. CASE o.rd = "data"
  <2> DEFINE d == [c EXCEPT !.srv.toRead = @ - o.n]
             w == write_data(d, o.n)
             x == [w EXCEPT !.tcp.local_seq = @ + o.n, !.tcp.unconfirmed = @ + 1]
             t == [w.tcp EXCEPT !.local_seq = @ + o.n, !.unconfirmed = @ + 1]
  <2>1. read_socket(c, o) = IF c.writes = 0 THEN w ELSE x
    BY <1>4, Zenon DEF read_socket
  <2>2. d \in Contexts /\ d.tcp = c.tcp
    <3>1. [c.srv EXCEPT !.toRead = @ - o.n] \in ServerType
      BY <1>1 DEF ServerType, Oracles
    <3>2. QED  BY <3>1 DEF Contexts
  <2> HIDE DEF d
  <2>3. o.n \in Nat  BY DEF Oracles
  <2>4. w \in Contexts /\ Stays(c.tcp, w.tcp)  BY <2>2, <2>3, WriteData
  <2> HIDE DEF w
  <2>5. w.tcp \in Session  BY <2>4 DEF Contexts
  <2>6. t \in Session /\ Stays(w.tcp, t)
    <3>1. w.tcp.local_seq + o.n \in Nat /\ w.tcp.unconfirmed + 1 \in Nat
      BY <2>3, <2>5 DEF Session
    <3>2. QED  BY <2>5, <3>1 DEF Session, Stays
  <2>7. x = [w EXCEPT !.tcp = t]  OBVIOUS
  <2> HIDE DEF x, t
  <2>8. x \in Contexts /\ x.tcp = t  BY <2>4, <2>6, <2>7, WithTcp
  <2>9. Sound(w.tcp) /\ Sound(t)  BY <2>4, <2>6, StaysSound
  <2>10. QED  BY <2>1, <2>4, <2>8, <2>9
<1>5. QED  BY <1>2, <1>3, <1>4 DEF Oracles

\* write_syn_ack, from WriteOrClose.
LEMMA WriteSynAck ==
    ASSUME NEW c \in Contexts
    PROVE  /\ write_syn_ack(c) \in Contexts /\ write_syn_ack(c).srv = c.srv
           /\ Stays(c.tcp, write_syn_ack(c).tcp)
           /\ c.writes # 0 => write_syn_ack(c).tcp = c.tcp
           /\ c.writes = 0 => write_syn_ack(c).tcp = [c.tcp EXCEPT !.state = "CLOSING"]
<1>1. {"SYN", "ACK"} \in Flags  BY DEF Flags
<1>2. QED  BY <1>1, WriteOrClose, CloseStays DEF write_syn_ack

\* Replacing the SOCKS5 state of a session.
LEMMA WithSocks ==
    ASSUME NEW c \in Contexts, NEW s \in Socks
    PROVE  LET d == [c EXCEPT !.tcp.socks5 = s]
           IN  d \in Contexts /\ Stays(c.tcp, d.tcp) /\ d.writes = c.writes
<1> DEFINE t == [c.tcp EXCEPT !.socks5 = s]
<1>1. c.tcp \in Session  BY DEF Contexts
<1>2. t \in Session /\ Stays(c.tcp, t)  BY <1>1 DEF Session, Stays
<1>3. [c EXCEPT !.tcp.socks5 = s] = [c EXCEPT !.tcp = t]  OBVIOUS
<1> HIDE DEF t
<1>4. QED  BY <1>2, <1>3, WithTcp

\* Replacing the server of a context.
LEMMA WithServer ==
    ASSUME NEW c \in Contexts, NEW s \in ServerType
    PROVE  /\ [c EXCEPT !.srv = s] \in Contexts
           /\ [c EXCEPT !.srv = s].tcp = c.tcp
           /\ [c EXCEPT !.srv = s].writes = c.writes
BY DEF Contexts

\* write_rst, as a handler that keeps the socket.
LEMMA RstStays ==
    ASSUME NEW c \in Contexts
    PROVE  write_rst(c) \in Contexts /\ Stays(c.tcp, write_rst(c).tcp)
<1>1. c.tcp \in Session  BY DEF Contexts
<1>2. QED  BY <1>1, WriteRst, ResetStays

\* A reply of the SOCKS5 proxy keeps the socket.
LEMMA SocksReply ==
    ASSUME NEW c \in Contexts, NEW o \in Oracles
    PROVE  /\ socks_reply(c, o) \in Contexts
           /\ Stays(c.tcp, socks_reply(c, o).tcp)
<1> DEFINE to(s) == [c EXCEPT !.tcp.socks5 = s]
           fail == write_rst([c EXCEPT !.tcp.socks5 = "FAILED"])
<1>1. \A s \in Socks : to(s) \in Contexts /\ Stays(c.tcp, to(s).tcp)
  BY WithSocks
<1>2. fail \in Contexts /\ Stays(c.tcp, fail.tcp)
  <2> DEFINE d == to("FAILED")
  <2>1. d \in Contexts /\ Stays(c.tcp, d.tcp)  BY <1>1 DEF Socks
  <2>2. fail = write_rst(d)  OBVIOUS
  <2> HIDE DEF d, fail
  <2>3. QED  BY <2>1, <2>2, RstStays, StaysTransitive
<1>3. write_rst(c) \in Contexts /\ Stays(c.tcp, write_rst(c).tcp)  BY RstStays
<1>4. socks_reply(c, o) \in {write_rst(c), fail, to("AUTH"), to("CONNECTED"), to("CONNECT")}
  BY DEF socks_reply, Oracles
<1> HIDE DEF fail, to
<1>5. QED  BY <1>1, <1>2, <1>3, <1>4 DEF Socks

\* Connecting, with or without a proxy, keeps the socket: a session leaves
\* LISTEN only for SYN_RECV or CLOSING.
LEMMA Connect ==
    ASSUME NEW c \in Contexts, NEW evs, NEW o \in Oracles,
           Sound(c.tcp), c.tcp.state = "LISTEN"
    PROVE  connect(c, evs, o) \in Contexts /\ Sound(connect(c, evs, o).tcp)
<1> DEFINE s1 == IF Socks5 THEN "HELLO" ELSE "CONNECTED"
           a == [c EXCEPT !.srv.socks = "idle"]
           d == IF c.tcp.socks5 = "NONE"
                THEN IF "OUT" \in evs THEN [c EXCEPT !.tcp.socks5 = s1] ELSE c
                ELSE IF "IN" \in evs THEN socks_reply(a, o) ELSE c
           syn == [d EXCEPT !.tcp.remote_seq = @ + 1]
           asked == [d EXCEPT !.srv.socks = "asked"]
           broken == [d EXCEPT !.srv.err = TRUE]
           w == write_syn_ack(syn)
           x == [w EXCEPT !.tcp.local_seq = @ + 1, !.tcp.state = "SYN_RECV"]
<1>1. connect(c, evs, o) \in {asked, write_rst(broken), w, x, d}
  BY DEF connect
<1>2. d \in Contexts /\ Sound(d.tcp) /\ d.tcp.socket
  <2>1. [c EXCEPT !.tcp.socks5 = s1] \in Contexts /\ Stays(c.tcp, [c EXCEPT !.tcp.socks5 = s1].tcp)
    <3>1. s1 \in Socks  BY DEF Socks
    <3> HIDE DEF s1
    <3>2. QED  BY <3>1, WithSocks
  <2>2. a \in Contexts /\ a.tcp = c.tcp
    <3>1. [c.srv EXCEPT !.socks = "idle"] \in ServerType  BY DEF Contexts, ServerType
    <3>2. a = [c EXCEPT !.srv = [c.srv EXCEPT !.socks = "idle"]]  OBVIOUS
    <3>3. QED  BY <3>1, <3>2, WithServer
  <2> HIDE DEF a, s1
  <2>3. socks_reply(a, o) \in Contexts /\ Stays(c.tcp, socks_reply(a, o).tcp)
    BY <2>2, SocksReply
  <2>4. Stays(c.tcp, c.tcp)  BY DEF Stays
  <2>5. d \in Contexts /\ Stays(c.tcp, d.tcp)  BY <2>1, <2>3, <2>4
  <2>6. QED  BY <2>5, StaysSound DEF Stays, Sound, Usable
<1> HIDE DEF d
<1>3. d.tcp \in Session /\ d.srv \in ServerType  BY <1>2 DEF Contexts
<1>4. asked \in Contexts /\ Sound(asked.tcp)
  <2>1. [d.srv EXCEPT !.socks = "asked"] \in ServerType  BY <1>3 DEF ServerType
  <2>2. asked = [d EXCEPT !.srv = [d.srv EXCEPT !.socks = "asked"]]  OBVIOUS
  <2>3. QED  BY <1>2, <2>1, <2>2, WithServer
<1>5. broken \in Contexts /\ Sound(broken.tcp)
  <2>1. [d.srv EXCEPT !.err = TRUE] \in ServerType  BY <1>3 DEF ServerType
  <2>2. broken = [d EXCEPT !.srv = [d.srv EXCEPT !.err = TRUE]]  OBVIOUS
  <2>3. QED  BY <1>2, <2>1, <2>2, WithServer
<1>6. write_rst(broken) \in Contexts /\ Sound(write_rst(broken).tcp)
  <2> HIDE DEF broken
  <2>1. QED  BY <1>5, RstStays, StaysSound
<1>7. syn \in Contexts /\ Stays(d.tcp, syn.tcp)
  <2> DEFINE t == [d.tcp EXCEPT !.remote_seq = @ + 1]
  <2>1. t \in Session /\ Stays(d.tcp, t)  BY <1>3 DEF Session, Stays
  <2>2. syn = [d EXCEPT !.tcp = t]  OBVIOUS
  <2> HIDE DEF t, syn
  <2>3. QED  BY <1>2, <2>1, <2>2, WithTcp
<1> HIDE DEF syn
<1>8. w \in Contexts /\ Stays(d.tcp, w.tcp)
  BY <1>2, <1>7, WriteSynAck, StaysTransitive
<1>9. Sound(w.tcp) /\ w.tcp.socket
  BY <1>2, <1>8, StaysSound DEF Stays
<1> HIDE DEF w
<1>10. x \in Contexts /\ Sound(x.tcp)
  <2> DEFINE t == [w.tcp EXCEPT !.local_seq = @ + 1, !.state = "SYN_RECV"]
  <2>1. w.tcp \in Session  BY <1>8 DEF Contexts
  <2>2. w.tcp.local_seq + 1 \in Nat /\ "SYN_RECV" \in States
    BY <2>1 DEF Session, States, Live
  <2>3. t \in Session  BY <2>1, <2>2 DEF Session
  <2>4. /\ t.state = "SYN_RECV" /\ t.socket = w.tcp.socket
        /\ t.registered = w.tcp.registered
    BY <2>1 DEF Session
  <2>5. x = [w EXCEPT !.tcp = t]  OBVIOUS
  <2> HIDE DEF t, x
  <2>6. Sound(t)  BY <1>9, <2>4 DEF Sound, Usable
  <2>7. QED  BY <1>8, <2>3, <2>5, <2>6, WithTcp
<1> HIDE DEF x, asked, broken
<1>11. QED  BY <1>1, <1>2, <1>4, <1>6, <1>8, <1>9, <1>10

\* check_tcp_socket, on a session with its socket: socket and state agree
\* afterwards.  Only the end of the stream takes the socket away.
LEMMA CheckTcpSocket ==
    ASSUME NEW c \in Contexts, NEW evs, NEW o \in Oracles,
           Sound(c.tcp), c.tcp.socket,
           /\ "ERR" \notin evs /\ c.tcp.state # "LISTEN" /\ "OUT" \in evs
           => o.run \subseteq DOMAIN c.tcp.forward /\ SendOutcome(c, o)
    PROVE  /\ check_tcp_socket(c, evs, o) \in Contexts
           /\ Sound(check_tcp_socket(c, evs, o).tcp)
           /\ c.tcp.state = "CLOSING" => Stays(c.tcp, check_tcp_socket(c, evs, o).tcp)
<1>1. CASE "ERR" \in evs
  BY <1>1, RstStays, StaysSound DEF check_tcp_socket, Stays
<1>2. CASE "ERR" \notin evs /\ c.tcp.state = "LISTEN"
  BY <1>2, Connect DEF check_tcp_socket
<1>3. CASE "ERR" \notin evs /\ c.tcp.state # "LISTEN"
  <2> DEFINE d == forward_and_ack(c, evs, o)
  <2>1. check_tcp_socket(c, evs, o) = IF reads(d, evs) THEN read_socket(d, o) ELSE d
    BY <1>3 DEF check_tcp_socket
  <2>2. d \in Contexts /\ Stays(c.tcp, d.tcp)  BY <1>3, ForwardAndAck
  <2> HIDE DEF d
  <2>3. Sound(d.tcp)  BY <2>2, StaysSound
  <2>4. reads(d, evs) => d.tcp.state \in {"ESTABLISHED", "CLOSE_WAIT"}  BY DEF reads
  <2>5. c.tcp.state = "CLOSING" => ~reads(d, evs)  BY <2>2, <2>4 DEF Stays
  <2>6. QED  BY <2>1, <2>2, <2>3, <2>4, <2>5, ReadSocket
<1>4. QED  BY <1>1, <1>2, <1>3

-----------------------------------------------------------------------------
(* handle_tcp *)

\* How a session may go on: the step of NeverReopens, and what a step of
\* SessionLife allows besides.
Onward(t, u) ==
    /\ t.state \in {"FIN_WAIT1", "LAST_ACK", "CLOSING"} => u.state \notin Usable
    /\ t.state = "CLOSE" => u.state \in {"CLOSE", "NONE"}
    /\ t.state = "NONE" => u.state \in {"NONE", "LISTEN"}
    /\ t.state # "NONE" /\ u.socket => t.socket
    /\ t.state = "CLOSING" => /\ u.state \in {"CLOSING", "CLOSE", "NONE"}
                              /\ u.state = "CLOSING" => u.socket = t.socket

\* What a packet of the app may do to a session: it never closes a socket,
\* so that the events of the batch keep theirs.
Handled(t, u) == Sound(u) /\ Onward(t, u) /\ (t.socket => u.socket)

\* A handler that keeps the socket satisfies it.
LEMMA StaysHandled ==
    ASSUME NEW t, NEW u, Sound(t), Stays(t, u),
           t.state \notin {"CLOSE", "NONE"}
    PROVE  Handled(t, u)
<1>1. Sound(u)  BY StaysSound
<1>2. QED  BY <1>1 DEF Handled, Onward, Stays, Usable

\* queue_tcp keeps the queue sorted and free of repetitions (a function).
LEMMA QueueTcp ==
    ASSUME NEW t \in Session, NEW p \in Packet, p.len > 0
    PROVE  /\ queue_tcp(t, p) \in Session /\ Stays(t, queue_tcp(t, p))
           /\ queue_tcp(t, p).state = t.state
<1>1. CASE p.seq < t.remote_seq
  BY <1>1 DEF queue_tcp, Stays
<1>2. CASE ~(p.seq < t.remote_seq)
  <2> DEFINE f == t.forward
             seg == IF p.seq \in DOMAIN f THEN [f[p.seq] EXCEPT !.len = p.len]
                    ELSE [len |-> p.len, sent |-> 0]
             g == [q \in DOMAIN f \union {p.seq} |-> IF q = p.seq THEN seg ELSE f[q]]
  <2>1. queue_tcp(t, p) = [t EXCEPT !.forward = g]
    BY <1>2 DEF queue_tcp
  <2>2. DOMAIN f \subseteq Nat /\ IsFiniteSet(DOMAIN f) /\ f \in [DOMAIN f -> Segment]
    BY DEF Session, Queues
  <2>3. seg \in Segment
    BY <2>2 DEF Segment, Packet
  <2> HIDE DEF seg
  <2>4. g \in [DOMAIN f \union {p.seq} -> Segment]  BY <2>2, <2>3
  <2>5. DOMAIN f \union {p.seq} \in SUBSET Nat /\ IsFiniteSet(DOMAIN f \union {p.seq})
    BY <2>2, FS_AddElement DEF Packet
  <2>6. g \in Queues  BY <2>4, <2>5 DEF Queues
  <2> HIDE DEF g
  <2>7. QED  BY <2>1, <2>6 DEF Session, Stays
<1>3. QED  BY <1>1, <1>2

\* A FIN of the app: CLOSE is reached only from FIN_WAIT1, without a socket.
LEMMA HandleFin ==
    ASSUME NEW c \in Contexts, Sound(c.tcp), c.tcp.state \notin {"CLOSE", "NONE"}
    PROVE  handle_fin(c) \in Contexts /\ Handled(c.tcp, handle_fin(c).tcp)
<1> DEFINE counted == [c EXCEPT !.tcp.remote_seq = @ + 1]
           w == write_ack(counted)
           cw == [w EXCEPT !.tcp.state = "CLOSE_WAIT"]
           cl == [w EXCEPT !.tcp.state = "CLOSE"]
           q == [c EXCEPT !.tcp.state = "CLOSE_WAIT"]
<1>1. c.tcp \in Session  BY DEF Contexts
<1>2. counted \in Contexts /\ Stays(c.tcp, counted.tcp)
  <2> DEFINE t == [c.tcp EXCEPT !.remote_seq = @ + 1]
  <2>1. t \in Session /\ Stays(c.tcp, t)  BY <1>1 DEF Session, Stays
  <2>2. counted = [c EXCEPT !.tcp = t]  OBVIOUS
  <2> HIDE DEF t, counted
  <2>3. QED  BY <2>1, <2>2, WithTcp
<1>3. \/ handle_fin(c) \in {c, w}
      \/ c.tcp.state = "ESTABLISHED" /\ handle_fin(c) \in {cw, q}
      \/ c.tcp.state = "FIN_WAIT1" /\ handle_fin(c) = cl
  BY DEF handle_fin
<1> HIDE DEF counted
<1>4. w \in Contexts /\ Stays(c.tcp, w.tcp)
  BY <1>2, WriteAck, StaysTransitive
<1> HIDE DEF w
<1>5. w.tcp \in Session  BY <1>4 DEF Contexts
<1>6. ASSUME NEW d \in Contexts, NEW s \in States
      PROVE  LET r == [d EXCEPT !.tcp.state = s]
             IN  /\ r \in Contexts /\ r.tcp.state = s /\ r.tcp.socket = d.tcp.socket
                 /\ r.tcp.registered = d.tcp.registered
  <2> DEFINE t == [d.tcp EXCEPT !.state = s]
  <2>1. d.tcp \in Session  BY DEF Contexts
  <2>2. /\ t \in Session /\ t.state = s /\ t.socket = d.tcp.socket
        /\ t.registered = d.tcp.registered
    BY <2>1 DEF Session
  <2>3. [d EXCEPT !.tcp.state = s] = [d EXCEPT !.tcp = t]  OBVIOUS
  <2> HIDE DEF t
  <2>4. PICK r : r = [d EXCEPT !.tcp.state = s]  OBVIOUS
  <2>5. r \in Contexts /\ r.tcp = t  BY <2>2, <2>3, <2>4, WithTcp
  <2>6. QED  BY <2>2, <2>4, <2>5
<1>7. CASE handle_fin(c) \in {c, w}
  BY <1>4, <1>7, StaysHandled DEF Stays
<1>8. CASE c.tcp.state = "ESTABLISHED" /\ handle_fin(c) \in {cw, q}
  <2>1. "CLOSE_WAIT" \in States  BY DEF States, Live
  <2>2. /\ cw \in Contexts /\ q \in Contexts
        /\ cw.tcp.state = "CLOSE_WAIT" /\ q.tcp.state = "CLOSE_WAIT"
        /\ cw.tcp.socket = c.tcp.socket /\ q.tcp.socket = c.tcp.socket
    BY <1>4, <1>6, <2>1 DEF Stays
  <2> HIDE DEF cw, q
  <2>3. c.tcp.socket  BY <1>8 DEF Sound, Usable
  <2>4. QED  BY <1>8, <2>2, <2>3 DEF Handled, Sound, Onward, Usable
<1>9. CASE c.tcp.state = "FIN_WAIT1" /\ handle_fin(c) = cl
  <2>1. "CLOSE" \in States  BY DEF States
  <2>2. /\ cl \in Contexts /\ cl.tcp.state = "CLOSE" /\ cl.tcp.socket = c.tcp.socket
        /\ cl.tcp.registered = c.tcp.registered
    BY <1>4, <1>6, <2>1 DEF Stays
  <2> HIDE DEF cl
  <2>3. ~c.tcp.socket /\ ~c.tcp.registered  BY <1>1, <1>9 DEF Sound, Session
  <2>4. QED  BY <1>9, <2>2, <2>3 DEF Handled, Sound, Onward, Usable
<1>10. QED  BY <1>3, <1>7, <1>8, <1>9

\* An acknowledgment: a session in LISTEN is not moved by it.
LEMMA HandleAck ==
    ASSUME NEW c \in Contexts, NEW p \in Packet, Sound(c.tcp), c.tcp.state \notin {"CLOSE", "NONE"}
    PROVE  handle_ack(c, p) \in Contexts /\ Handled(c.tcp, handle_ack(c, p).tcp)
<1> DEFINE s == IF c.tcp.state = "SYN_RECV" THEN "ESTABLISHED"
                ELSE IF c.tcp.state = "LAST_ACK" THEN "CLOSING" ELSE c.tcp.state
           t == [c.tcp EXCEPT !.acked = p.ack, !.state = s]
<1>1. c.tcp \in Session  BY DEF Contexts
<1>2. s \in States  BY <1>1 DEF Session, States, Live
<1>3. /\ Sound([c.tcp EXCEPT !.state = s]) /\ Onward(c.tcp, [c.tcp EXCEPT !.state = s])
  BY <1>1 DEF Sound, Onward, Usable, Session
<1> HIDE DEF s
<1>4. /\ t \in Session /\ t.state = s /\ t.socket = c.tcp.socket
      /\ t.registered = c.tcp.registered
  BY <1>1, <1>2 DEF Session, Packet
<1>5. handle_ack(c, p) = [c EXCEPT !.tcp = t]
  BY DEF handle_ack, s
<1>6. Handled(c.tcp, t)
  BY <1>1, <1>3, <1>4 DEF Handled, Sound, Onward, Session
<1> HIDE DEF t
<1>7. QED  BY <1>4, <1>5, <1>6, WithTcp

\* The flags of a packet, with the acknowledgments that are not the expected.
LEMMA HandleFlags ==
    ASSUME NEW c \in Contexts, NEW p \in Packet, Sound(c.tcp), c.tcp.state \notin {"CLOSE", "NONE"}
    PROVE  handle_flags(c, p) \in Contexts /\ Handled(c.tcp, handle_flags(c, p).tcp)
<1> DEFINE r == [c EXCEPT !.tcp.state = "CLOSING"]
           a == [c EXCEPT !.tcp.acked = IF p.ack <= @ THEN @ ELSE p.ack]
<1>1. handle_flags(c, p) \in {r, c, handle_fin(c), handle_ack(c, p), write_rst(c), a}
  BY DEF handle_flags
<1>2. c.tcp \in Session  BY DEF Contexts
<1>3. Handled(c.tcp, c.tcp)  BY StaysHandled DEF Stays
<1>4. r \in Contexts /\ Handled(c.tcp, r.tcp)
  <2> DEFINE t == [c.tcp EXCEPT !.state = "CLOSING"]
  <2>1. t \in Session /\ Stays(c.tcp, t)  BY <1>2 DEF Session, Stays, States
  <2>2. r = [c EXCEPT !.tcp = t]  OBVIOUS
  <2> HIDE DEF t, r
  <2>3. QED  BY <2>1, <2>2, WithTcp, StaysHandled
<1>5. a \in Contexts /\ Handled(c.tcp, a.tcp)
  <2> DEFINE n == IF p.ack <= c.tcp.acked THEN c.tcp.acked ELSE p.ack
             t == [c.tcp EXCEPT !.acked = n]
  <2>1. n \in Nat  BY <1>2 DEF Session, Packet
  <2>2. a = [c EXCEPT !.tcp = t]  OBVIOUS
  <2> HIDE DEF n
  <2>3. t \in Session /\ Stays(c.tcp, t)  BY <1>2, <2>1 DEF Session, Stays
  <2> HIDE DEF t, a
  <2>4. QED  BY <2>2, <2>3, WithTcp, StaysHandled
<1> HIDE DEF r, a
<1>6. QED  BY <1>1, <1>3, <1>4, <1>5, HandleFin, HandleAck, RstStays, StaysHandled

\* A packet for a session that exists, closing and closed ones included.
LEMMA HandleSession ==
    ASSUME NEW c \in Contexts, NEW p \in Packet, Sound(c.tcp), c.tcp.state # "NONE"
    PROVE  handle_session(c, p) \in Contexts /\ Handled(c.tcp, handle_session(c, p).tcp)
<1> DEFINE d == [c EXCEPT !.tcp.send_window = p.win, !.tcp.unconfirmed = 0]
           t == [c.tcp EXCEPT !.send_window = p.win, !.unconfirmed = 0]
           e == [d EXCEPT !.tcp = queue_tcp(@, p)]
<1>1. c.tcp \in Session  BY DEF Contexts
<1>2. CASE c.tcp.state \in {"CLOSING", "CLOSE"}
  <2>1. handle_session(c, p) = write_rst(c)  BY <1>2 DEF handle_session
  <2>2. Sound(Reset(c.tcp))  BY <1>1, ResetStays, StaysSound
  <2>3. Reset(c.tcp).state = c.tcp.state /\ Reset(c.tcp).socket = c.tcp.socket
    BY <1>1, <1>2 DEF Reset, Session
  <2>4. QED  BY <1>2, <2>1, <2>2, <2>3, WriteRst DEF Handled, Onward, Usable
<1>3. CASE c.tcp.state \notin {"CLOSING", "CLOSE"}
  <2>1. \/ handle_session(c, p) \in {write_rst(d), handle_flags(d, p)}
        \/ p.len > 0 /\ handle_session(c, p) = handle_flags(e, p)
    BY <1>3 DEF handle_session
  <2>2. t \in Session /\ Stays(c.tcp, t) /\ t.state = c.tcp.state
    BY <1>1 DEF Session, Stays, Packet
  <2>3. d = [c EXCEPT !.tcp = t]  OBVIOUS
  <2> HIDE DEF d, t
  <2>4. d \in Contexts /\ d.tcp = t /\ Sound(t)  BY <2>2, <2>3, WithTcp, StaysSound
  <2>5. p.len > 0 => e \in Contexts /\ Stays(t, e.tcp) /\ e.tcp.state = t.state
    <3> DEFINE u == queue_tcp(t, p)
    <3>1. e = [d EXCEPT !.tcp = u]  BY <2>4
    <3>2. p.len > 0 => u \in Session /\ Stays(t, u) /\ u.state = t.state
      BY <2>2, QueueTcp
    <3> HIDE DEF u, e
    <3>3. QED  BY <2>4, <3>1, <3>2, WithTcp
  <2> HIDE DEF e
  <2>6. p.len > 0 => Sound(e.tcp) /\ Stays(c.tcp, e.tcp)
    BY <2>2, <2>4, <2>5, StaysSound, StaysTransitive
  <2>7. write_rst(d) \in Contexts /\ Handled(c.tcp, write_rst(d).tcp)
    BY <1>3, <2>2, <2>4, RstStays, StaysTransitive, StaysHandled
  <2>8. ASSUME NEW x \in Contexts, Sound(x.tcp), Stays(c.tcp, x.tcp),
               x.tcp.state = c.tcp.state
        PROVE  handle_flags(x, p) \in Contexts /\ Handled(c.tcp, handle_flags(x, p).tcp)
    <3>1. handle_flags(x, p) \in Contexts /\ Handled(x.tcp, handle_flags(x, p).tcp)
      BY <1>3, <2>8, HandleFlags
    <3>2. QED  BY <2>8, <3>1 DEF Handled, Onward, Stays
  <2>9. handle_flags(d, p) \in Contexts /\ Handled(c.tcp, handle_flags(d, p).tcp)
    BY <2>2, <2>4, <2>8
  <2>10. p.len > 0 => handle_flags(e, p) \in Contexts /\ Handled(c.tcp, handle_flags(e, p).tcp)
    BY <2>2, <2>5, <2>6, <2>8
  <2>11. QED  BY <2>1, <2>7, <2>9, <2>10
<1>4. QED  BY <1>2, <1>3

\* The peer of a new socket is well formed.
LEMMA NewServerType == NewServer \in ServerType
BY TcpAssumption DEF NewServer, ServerType, TcpAssumption

\* The empty queue is a queue.
LEMMA EmptyQueueType == EmptyQueue \in Queues
<1>1. EmptyQueue \in [{} -> Segment]  BY DEF EmptyQueue
<1>2. QED  BY <1>1, FS_EmptySet DEF Queues

\* A SYN creates a session with its socket, whatever data it carries.
LEMMA NewSession ==
    ASSUME NEW p \in Packet
    PROVE  new_session(p) \in Session /\ Sound(new_session(p)) /\ new_session(p).state = "LISTEN"
<1> DEFINE f == IF p.len = 0 THEN EmptyQueue
                ELSE [q \in {p.seq} |-> [len |-> p.len, sent |-> 0]]
<1>1. f \in Queues
  <2>1. p.len # 0 => f \in [{p.seq} -> Segment]  BY DEF Packet, Segment
  <2>2. {p.seq} \in SUBSET Nat /\ IsFiniteSet({p.seq})  BY FS_Singleton DEF Packet
  <2>3. QED  BY <2>1, <2>2, EmptyQueueType DEF Queues
<1>2. /\ new_session(p).forward = f
      /\ p.seq \in Int /\ p.win \in Int
  BY DEF new_session, Packet
<1> HIDE DEF f
<1>3. new_session(p) \in Session
  BY <1>1, <1>2, TcpAssumption
     DEF new_session, TcpAssumption, Session, States, Live, Socks, Events
<1>4. QED  BY <1>3 DEF new_session, Sound, Usable

\* The context that handle_tcp goes on with, its window announced by the SYN-ACK.
Created(c, p) ==
    LET d == [c EXCEPT !.tcp = new_session(p), !.srv = NewServer]
    IN  [d EXCEPT !.tcp.recv_window = get_receive_window(d)]

LEMMA CreatedFacts ==
    ASSUME NEW c \in Contexts, NEW p \in Packet
    PROVE  LET n == Created(c, p)
               s == new_session(p)
           IN  /\ n \in Contexts /\ n.app = c.app /\ n.srv = NewServer /\ n.writes = c.writes
               /\ Sound(n.tcp) /\ n.tcp.state = "LISTEN"
               /\ n.tcp.forward = s.forward /\ n.tcp.remote_seq = s.remote_seq
               /\ n.tcp.local_seq = s.local_seq /\ n.tcp.acked = s.acked
               /\ n.tcp.socket = s.socket /\ n.tcp.registered = s.registered
               /\ n.tcp.events = s.events /\ n.tcp.socks5 = s.socks5
               /\ n.tcp.send_window = s.send_window /\ n.tcp.unconfirmed = s.unconfirmed
               /\ n.tcp.recv_window = get_receive_window([c EXCEPT !.tcp = s, !.srv = NewServer])
<1> DEFINE s == new_session(p)
           d == [c EXCEPT !.tcp = s, !.srv = NewServer]
           w == get_receive_window(d)
           t == [s EXCEPT !.recv_window = w]
           n == Created(c, p)
<1>1. s \in Session /\ Sound(s) /\ s.state = "LISTEN"  BY NewSession
<1> HIDE DEF s
<1>2. d \in Contexts /\ d.tcp = s /\ d.srv = NewServer /\ d.app = c.app /\ d.writes = c.writes
  BY <1>1, NewServerType DEF Contexts
<1>3. w \in Nat  BY <1>2, WindowType
<1>4. n = [d EXCEPT !.tcp = t]  BY <1>2 DEF Created, s
<1> HIDE DEF d, w
<1>5. /\ t \in Session /\ t.state = "LISTEN" /\ t.forward = s.forward
      /\ t.remote_seq = s.remote_seq /\ t.local_seq = s.local_seq /\ t.acked = s.acked
      /\ t.socket = s.socket /\ t.registered = s.registered /\ t.events = s.events
      /\ t.socks5 = s.socks5 /\ t.send_window = s.send_window
      /\ t.unconfirmed = s.unconfirmed /\ t.recv_window = w
  BY <1>1, <1>3 DEF Session
<1>6. Sound(t)  BY <1>1, <1>5 DEF Sound, Usable
<1> HIDE DEF t
<1>7. /\ n \in Contexts /\ n.tcp = t /\ n.srv = NewServer /\ n.app = c.app
      /\ n.writes = c.writes
  BY <1>2, <1>4, <1>5 DEF Contexts
<1>8. w = get_receive_window([c EXCEPT !.tcp = new_session(p), !.srv = NewServer])  BY DEF w, d, s
<1> HIDE DEF n
<1>9. QED  BY <1>5, <1>6, <1>7, <1>8 DEF n, s

\* A freed entry has no socket and no registration.
LEMMA NoSessionType == NoSession \in Session /\ Sound(NoSession) /\ NoSession.state = "NONE"
<1>1. NoSession \in Session
  BY EmptyQueueType DEF NoSession, Session, States, Live, Socks, Events
<1>2. QED  BY <1>1 DEF NoSession, Sound, Usable

\* handle_tcp, for every packet and every outcome of open_tcp_socket.
LEMMA HandleTcp ==
    ASSUME NEW c \in Contexts, NEW p \in Packet, NEW open \in BOOLEAN, Sound(c.tcp)
    PROVE  handle_tcp(c, p, open) \in Contexts /\ Handled(c.tcp, handle_tcp(c, p, open).tcp)
<1>1. c.tcp \in Session  BY DEF Contexts
<1>2. CASE c.tcp.state # "NONE"  BY <1>2, HandleSession DEF handle_tcp
<1>3. CASE c.tcp.state = "NONE"
  <2>1. handle_tcp(c, p, open) = handle_unknown(c, p, open)  BY <1>3 DEF handle_tcp
  <2> DEFINE x == [c EXCEPT !.tcp.local_seq = p.ack]
             r == [write_rst(x) EXCEPT !.tcp = c.tcp]
             n == Created(c, p)
  <2>2. handle_unknown(c, p, open) \in {r, n, c}  BY DEF handle_unknown, Created
  <2>3. r \in Contexts /\ r.tcp = c.tcp
    <3> DEFINE t == [c.tcp EXCEPT !.local_seq = p.ack]
    <3>1. t \in Session  BY <1>1 DEF Session, Packet
    <3>2. x = [c EXCEPT !.tcp = t]  OBVIOUS
    <3> HIDE DEF t, x
    <3>3. x \in Contexts  BY <3>1, <3>2, WithTcp
    <3>4. write_rst(x) \in Contexts  BY <3>3, WriteRst
    <3>5. QED  BY <1>1, <3>4, WithTcp
  <2>4. n \in Contexts /\ Sound(n.tcp) /\ n.tcp.state = "LISTEN"  BY CreatedFacts
  <2> HIDE DEF r, n
  <2>5. ~c.tcp.socket  BY <1>1, <1>3 DEF Sound, Session
  <2>6. QED  BY <1>3, <2>1, <2>2, <2>3, <2>4, <2>5
             DEF Handled, Onward, Usable
<1>4. QED  BY <1>2, <1>3

-----------------------------------------------------------------------------
(* The loop *)

\* The events waited for are events.
LEMMA InterestType == ASSUME NEW c PROVE interest(c) \in SUBSET Events
BY DEF interest, Events

\* The keep-alive probe restores remote_seq, and keeps the socket.
LEMMA KeepAlive ==
    ASSUME NEW c \in Contexts
    PROVE  keep_alive(c) \in Contexts /\ Stays(c.tcp, keep_alive(c).tcp)
<1> DEFINE t == [c.tcp EXCEPT !.remote_seq = @ - 1]
           d == [c EXCEPT !.tcp.remote_seq = @ - 1]
           w == write_ack(d)
           u == [w.tcp EXCEPT !.remote_seq = @ + 1]
           r == [w EXCEPT !.tcp.remote_seq = @ + 1]
<1>1. keep_alive(c) = r  BY DEF keep_alive
<1>2. c.tcp \in Session  BY DEF Contexts
<1>3. t \in Session /\ Stays(c.tcp, t)  BY <1>2 DEF Session, Stays
<1>4. d = [c EXCEPT !.tcp = t]  OBVIOUS
<1> HIDE DEF t, d
<1>5. d \in Contexts /\ d.tcp = t  BY <1>3, <1>4, WithTcp
<1>6. w \in Contexts /\ Stays(t, w.tcp)  BY <1>5, WriteAck
<1> HIDE DEF w
<1>7. w.tcp \in Session  BY <1>6 DEF Contexts
<1>8. u \in Session /\ Stays(w.tcp, u)  BY <1>7 DEF Session, Stays
<1>9. r = [w EXCEPT !.tcp = u]  OBVIOUS
<1> HIDE DEF u, r
<1>10. r \in Contexts /\ r.tcp = u  BY <1>6, <1>8, <1>9, WithTcp
<1>11. QED  BY <1>1, <1>3, <1>6, <1>8, <1>10, StaysTransitive

\* monitor_tcp_session keeps the socket, also if epoll_ctl fails.
LEMMA MonitorSession ==
    ASSUME NEW c \in Contexts, NEW probe \in BOOLEAN
    PROVE  /\ monitor_tcp_session(c, probe) \in Contexts
           /\ Stays(c.tcp, monitor_tcp_session(c, probe).tcp)
           /\ ~c.tcp.socket => monitor_tcp_session(c, probe) = c
<1> DEFINE t == c.tcp
           evs == interest(c)
           d == IF /\ probe /\ t.state \in {"ESTABLISHED", "CLOSE_WAIT"}
                   /\ get_send_window(t) = 0
                THEN keep_alive(c) ELSE c
           r == [d EXCEPT !.tcp.events = evs,
                          !.tcp.state = IF t.registered THEN @ ELSE "CLOSING"]
           s == IF t.registered THEN d.tcp.state ELSE "CLOSING"
           u == [d.tcp EXCEPT !.events = evs, !.state = s]
<1>1. monitor_tcp_session(c, probe) = IF ~t.socket THEN c ELSE IF evs = t.events THEN d ELSE r
  BY DEF monitor_tcp_session
<1>2. Stays(t, t)  BY DEF Stays
<1>3. d \in Contexts /\ Stays(t, d.tcp)  BY <1>2, KeepAlive
<1>4. evs \in SUBSET Events  BY InterestType
<1> HIDE DEF d, evs
<1>5. d.tcp \in Session  BY <1>3 DEF Contexts
<1>6. s \in States  BY <1>5 DEF Session, States
<1>7. s \in {d.tcp.state, "CLOSING"}  OBVIOUS
<1>8. r = [d EXCEPT !.tcp = u]  BY <1>5 DEF Session
<1> HIDE DEF s
<1>9. u \in Session /\ Stays(d.tcp, u)  BY <1>4, <1>5, <1>6, <1>7 DEF Session, Stays
<1> HIDE DEF u, r
<1>10. r \in Contexts /\ r.tcp = u  BY <1>3, <1>8, <1>9, WithTcp
<1>11. Stays(t, u)  BY <1>3, <1>9, StaysTransitive
<1>12. QED  BY <1>1, <1>2, <1>3, <1>10, <1>11

\* check_tcp_session closes the socket of a session that is closing and frees
\* only a session in CLOSE, which has none.
LEMMA CheckSession ==
    ASSUME NEW c \in Contexts, NEW idle \in BOOLEAN, NEW gone \in BOOLEAN, Sound(c.tcp)
    PROVE  /\ check_tcp_session(c, idle, gone) \in Contexts
           /\ Sound(check_tcp_session(c, idle, gone).tcp)
           /\ Onward(c.tcp, check_tcp_session(c, idle, gone).tcp)
<1> DEFINE l == [c EXCEPT !.tcp.state = "CLOSING"]
           d == IF idle /\ c.tcp.state \in Live
                THEN IF c.tcp.state = "LISTEN" THEN l ELSE write_rst(c)
                ELSE c
           z == [d EXCEPT !.tcp.socket = FALSE, !.tcp.registered = FALSE,
                          !.tcp.state = "CLOSE"]
           u == [d.tcp EXCEPT !.socket = FALSE, !.registered = FALSE, !.state = "CLOSE"]
           n == [c EXCEPT !.tcp = NoSession]
<1>1. check_tcp_session(c, idle, gone) =
        IF c.tcp.state = "CLOSE" /\ gone THEN n
        ELSE IF d.tcp.state # "CLOSING" THEN d ELSE z
  BY DEF check_tcp_session
<1>2. c.tcp \in Session  BY DEF Contexts
<1>3. l \in Contexts /\ Stays(c.tcp, l.tcp)
  <2> DEFINE t == [c.tcp EXCEPT !.state = "CLOSING"]
  <2>1. t \in Session /\ Stays(c.tcp, t)  BY <1>2 DEF Session, Stays, States
  <2>2. l = [c EXCEPT !.tcp = t]  OBVIOUS
  <2> HIDE DEF t, l
  <2>3. QED  BY <2>1, <2>2, WithTcp
<1>4. d \in Contexts /\ Stays(c.tcp, d.tcp)  BY <1>3, RstStays DEF Stays
<1>5. c.tcp.state \in {"CLOSE", "NONE"} => d = c  BY DEF Live
<1> HIDE DEF d
<1>6. CASE c.tcp.state = "CLOSE" /\ gone
  <2>1. n \in Contexts /\ n.tcp = NoSession  BY NoSessionType, WithTcp
  <2> HIDE DEF n
  <2>2. QED  BY <1>1, <1>6, <2>1, NoSessionType DEF Onward, Sound
<1>7. CASE ~(c.tcp.state = "CLOSE" /\ gone) /\ d.tcp.state # "CLOSING"
  <2>1. Sound(d.tcp)  BY <1>4, StaysSound
  <2>2. QED  BY <1>1, <1>4, <1>5, <1>7, <2>1 DEF Onward, Stays, Usable
<1>8. CASE ~(c.tcp.state = "CLOSE" /\ gone) /\ d.tcp.state = "CLOSING"
  <2>1. d.tcp \in Session /\ "CLOSE" \in States  BY <1>4 DEF Contexts, States
  <2>2. u \in Session /\ u.state = "CLOSE" /\ ~u.socket /\ ~u.registered
    BY <2>1 DEF Session
  <2>3. z = [d EXCEPT !.tcp = u]  OBVIOUS
  <2> HIDE DEF u, z
  <2>4. z \in Contexts /\ z.tcp = u  BY <1>4, <2>2, <2>3, WithTcp
  <2>5. QED  BY <1>1, <1>5, <1>8, <2>2, <2>4 DEF Sound, Onward, Usable
<1>9. QED  BY <1>6, <1>7, <1>8

-----------------------------------------------------------------------------
(* What the kernel may answer *)

\* The trivial answer is an answer.
LEMMA NothingType ==
    ASSUME tcp \in Session
    PROVE  Nothing \in Oracles
BY DEF Nothing, Oracles, Session

\* The outcomes of the sends are answers: RunEnd ties the end of a run to a
\* queued segment, so it is an integer.
LEMMA SendOutcomesType ==
    ASSUME tcp \in Session, NEW c \in Contexts, c.tcp = tcp, NEW evs,
           NEW o \in SendOutcomes(c, evs)
    PROVE  /\ o \in Oracles
           /\ "OUT" \in evs => o.run \subseteq DOMAIN tcp.forward /\ SendOutcome(c, o)
<1>1. CASE "OUT" \notin evs
  BY <1>1, NothingType DEF SendOutcomes
<1>2. CASE "OUT" \in evs
  <2> DEFINE f == tcp.forward
  <2>1. /\ o \in [run : SUBSET DOMAIN f,
                  end : {tcp.remote_seq} \union {SegEnd(f, q) : q \in DOMAIN f},
                  part : 0..(2 * SegLen - 1), serr : May("server"),
                  rd : {"eof"}, n : {1}, rep : {"ok"}, sok : {TRUE}]
        /\ SendOutcome(c, o)
    BY <1>2 DEF SendOutcomes
  <2>2. DOMAIN f \subseteq Nat /\ IsFiniteSet(DOMAIN f) /\ f \in [DOMAIN f -> Segment]
    BY DEF Session, Queues
  <2>3. {tcp.remote_seq} \union {SegEnd(f, q) : q \in DOMAIN f} \subseteq Int
    BY <2>2 DEF SegEnd, Segment, Session
  <2>4. May("server") \subseteq BOOLEAN  BY DEF May
  <2>5. 0..(2 * SegLen - 1) \subseteq Nat  BY TcpAssumption DEF TcpAssumption
  <2> DEFINE ends == {tcp.remote_seq} \union {SegEnd(f, q) : q \in DOMAIN f}
             parts == 0..(2 * SegLen - 1)
             runs == SUBSET DOMAIN f
  <2>6. runs \subseteq SUBSET Nat /\ ends \subseteq Int /\ parts \subseteq Nat
    BY <2>2, <2>3, <2>5
  <2>7. o \in [run : runs, end : ends, part : parts, serr : May("server"),
               rd : {"eof"}, n : {1}, rep : {"ok"}, sok : {TRUE}]
    BY <2>1
  <2>8. o.run \subseteq DOMAIN f  BY <2>7
  <2> HIDE DEF runs, ends, parts
  <2>9. o \in Oracles
    <3>1. o = [run |-> o.run, end |-> o.end, part |-> o.part, serr |-> o.serr,
               rd |-> o.rd, n |-> o.n, rep |-> o.rep, sok |-> o.sok]
      BY <2>7
    <3>2. o.run \in SUBSET Nat /\ o.end \in Int /\ o.part \in Nat
      BY <2>4, <2>6, <2>7
    <3>3. /\ o.rd \in {"data", "eof", "err"} /\ o.n \in Nat
          /\ o.rep \in {"ok", "auth", "bad", "error"}
      BY <2>4, <2>6, <2>7
    <3>4. o.serr \in May("server") /\ o.sok \in {TRUE}
      BY <2>7
    <3>5. o.serr \in BOOLEAN /\ o.sok \in BOOLEAN
      BY <2>4, <3>4, Zenon
    <3>6. QED  BY <3>1, <3>2, <3>3, <3>5 DEF Oracles
  <2>10. QED  BY <2>1, <2>8, <2>9
<1>3. QED  BY <1>1, <1>2

\* The outcomes of recv() are answers.
LEMMA ReadOutcomesType ==
    ASSUME NEW c \in Contexts, NEW evs, NEW o \in Oracles, NEW x \in ReadOutcomes(c, evs, o)
    PROVE  /\ x \in Oracles /\ x.run = o.run
           /\ SendOutcome(c, o) => SendOutcome(c, x)
<1>1. CASE x = o  BY <1>1
<1>2. CASE x # o
  <2>1. x \in [run : {o.run}, end : {o.end}, part : {o.part}, serr : {o.serr},
                rd : {"data", "eof", "err"}, n : 1..Mss, rep : {"ok"}, sok : {TRUE}]
    BY <1>2 DEF ReadOutcomes
  <2>2. 1..Mss \subseteq Nat  BY TcpAssumption DEF TcpAssumption
  <2>3. /\ x \in Oracles /\ x.run = o.run /\ x.end = o.end /\ x.part = o.part
        /\ x.serr = o.serr
    BY <2>1, <2>2 DEF Oracles
  <2>4. QED  BY <2>3 DEF SendOutcome
<1>3. QED  BY <1>1, <1>2

\* All outcomes that HandleSocket enumerates are answers, so that the lemmas
\* about check_tcp_socket apply to them.
LEMMA OutcomesType ==
    ASSUME tcp \in Session, NEW c \in Contexts, c.tcp = tcp, NEW evs,
           NEW o \in Outcomes(c, evs)
    PROVE  /\ o \in Oracles
           /\ /\ "ERR" \notin evs /\ c.tcp.state # "LISTEN" /\ "OUT" \in evs
              => o.run \subseteq DOMAIN c.tcp.forward /\ SendOutcome(c, o)
<1>1. CASE "ERR" \in evs  BY <1>1, NothingType DEF Outcomes
<1>2. CASE "ERR" \notin evs /\ c.tcp.state = "LISTEN"
  <2>1. o \in ConnectOutcomes  BY <1>2 DEF Outcomes
  <2>2. {TRUE} \union {~e : e \in May("server")} \subseteq BOOLEAN  OBVIOUS
  <2>3. tcp.remote_seq \in Int  BY DEF Session
  <2> DEFINE oks == {TRUE} \union {~e : e \in May("server")}
             reps == {"ok", "auth", "bad"} \union (IF srv.err THEN {"error"} ELSE {})
  <2>4. o \in [run : {{}}, end : {tcp.remote_seq}, part : {0}, serr : {FALSE},
               rd : {"eof"}, n : {1}, rep : reps, sok : oks]
    BY <2>1 DEF ConnectOutcomes
  <2>5. oks \subseteq BOOLEAN  BY <2>2
  <2> HIDE DEF oks, reps
  <2>6. o \in Oracles
    <3>1. o = [run |-> o.run, end |-> o.end, part |-> o.part, serr |-> o.serr,
               rd |-> o.rd, n |-> o.n, rep |-> o.rep, sok |-> o.sok]
      BY <2>4
    <3>2. o.run \in SUBSET Nat /\ o.end \in Int /\ o.part \in Nat
      BY <2>3, <2>4
    <3>3. /\ o.rd \in {"data", "eof", "err"} /\ o.n \in Nat
          /\ o.rep \in {"ok", "auth", "bad", "error"}
      <4>1. o.rd = "eof" /\ o.n = 1 /\ o.rep \in reps  BY <2>4
      <4>2. reps \subseteq {"ok", "auth", "bad", "error"}  BY DEF reps
      <4>3. o.rep \in {"ok", "auth", "bad", "error"}  BY <4>1, <4>2, Zenon
      <4>4. o.n \in Nat /\ o.rd \in {"data", "eof", "err"}  BY <4>1
      <4>5. QED  BY <4>3, <4>4
    <3>4. o.serr \in {FALSE} /\ o.sok \in oks
      BY <2>4
    <3>5. o.serr \in BOOLEAN /\ o.sok \in BOOLEAN
      BY <2>5, <3>4, Zenon
    <3>6. QED  BY <3>1, <3>2, <3>3, <3>5 DEF Oracles
  <2>7. QED  BY <1>2, <2>6
<1>3. CASE "ERR" \notin evs /\ c.tcp.state # "LISTEN"
  <2>1. PICK o1 \in SendOutcomes(c, evs) : o \in ReadOutcomes(c, evs, o1)
    BY <1>3 DEF Outcomes
  <2>2. QED  BY <2>1, SendOutcomesType, ReadOutcomesType
<1>4. QED  BY <1>1, <1>2, <1>3

-----------------------------------------------------------------------------
(* The specification *)

\* The loop has events to handle only while it handles a batch.
LoopIdle == loop.pc # "batch" => loop.evs = {}

\* The inductive invariant.  SocketMatchesState is inductive only with the
\* loop's part: an event waits in the batch only for a session with a socket,
\* which no packet handled before it in the batch can take away.
Inv ==
    /\ tcp \in Session /\ app \in AppType /\ srv \in ServerType
    /\ loop \in LoopType /\ up \in Seq(Packet)
    /\ Sound(tcp) /\ LoopIdle /\ (loop.evs # {} => tcp.socket)

\* The invariant implies the properties that the runs check.
LEMMA InvImplies == Inv => TypeOK /\ SocketMatchesState /\ EventsHaveSession
<1>1. Inv => TypeOK  BY SessionShape DEF Inv, TypeOK
<1>2. Inv => SocketMatchesState  BY DEF Inv, SocketMatchesState, Sound, Usable
<1>3. Inv => EventsHaveSession  BY DEF Inv, EventsHaveSession, Sound, Session
<1>4. QED  BY <1>1, <1>2, <1>3

\* It holds before the first packet.
LEMMA InvInit == Init => Inv
<1> SUFFICES ASSUME Init PROVE Inv  OBVIOUS
<1>1. tcp \in Session /\ Sound(tcp)  BY NoSessionType DEF Init
<1>2. app \in AppType  BY TcpAssumption DEF TcpAssumption, Init, NoApp, AppType
<1>3. srv \in ServerType  BY NewServerType DEF Init
<1>4. loop \in LoopType /\ loop.evs = {}
  BY TcpAssumption DEF TcpAssumption, Init, Idle, LoopType
<1>5. up \in Seq(Packet)  BY DEF Init
<1>6. QED  BY <1>1, <1>2, <1>3, <1>4, <1>5 DEF Inv, LoopIdle

\* The end of a batch leaves no event behind.
LEMMA AfterBatchType ==
    ASSUME NEW l \in LoopType
    PROVE  /\ AfterBatch(l) \in LoopType
           /\ AfterBatch(l).evs = l.evs
           /\ l.pc = "batch" => (AfterBatch(l).pc # "batch" => l.evs = {})
<1>1. Idle \in LoopType /\ Idle.evs = {}
  BY TcpAssumption DEF TcpAssumption, Idle, LoopType
<1>2. QED  BY <1>1 DEF AfterBatch

\* A handler starts from the session and the peers of the current state.
LEMMA ContextType ==
    ASSUME Inv, NEW w \in Writes
    PROVE  /\ Context(w) \in Contexts /\ Context(w).tcp = tcp
           /\ Context(w).app = app /\ Context(w).srv = srv
<1>1. w \in Nat  BY DEF Writes, MaxWrites
<1>2. QED  BY <1>1 DEF Context, Contexts, Inv

\* What a handler leaves becomes the next state.
LEMMA BecomesType ==
    ASSUME NEW c \in Contexts, Becomes(c)
    PROVE  tcp' \in Session /\ app' \in AppType /\ srv' \in ServerType /\ tcp' = c.tcp
BY DEF Becomes, Contexts

\* Optional faults are chosen from BOOLEAN.
LEMMA MayType == ASSUME NEW fault PROVE May(fault) \subseteq BOOLEAN
BY DEF May

\* What every step preserves.
Preserved == Inv' /\ Onward(tcp, tcp')

\* Stuttering never reopens a session.
LEMMA OnwardSame == ASSUME NEW t PROVE Onward(t, t)
BY DEF Onward, Usable

\* The top of the loop preserves the invariant.
LEMMA MonitorPreserves ==
    ASSUME Inv, NEW probe \in BOOLEAN, NEW check \in BOOLEAN, NEW idle \in BOOLEAN,
           NEW gone \in BOOLEAN, Monitor(probe, check, idle, gone)
    PROVE  Preserved
<1>1. PICK w \in Writes :
        Becomes(IF check
                THEN check_tcp_session(monitor_tcp_session(Context(w), probe), idle, gone)
                ELSE monitor_tcp_session(Context(w), probe))
  BY DEF Monitor
<1> DEFINE c == Context(w)
           m == monitor_tcp_session(c, probe)
           k == check_tcp_session(m, idle, gone)
<1>2. c \in Contexts /\ c.tcp = tcp  BY ContextType
<1>3. m \in Contexts /\ Stays(tcp, m.tcp) /\ (~tcp.socket => m = c)
  BY <1>2, MonitorSession
<1>4. Sound(tcp) /\ loop \in LoopType /\ up \in Seq(Packet) /\ tcp \in Session  BY DEF Inv
<1> HIDE DEF c, m
<1>5. Sound(m.tcp)  BY <1>3, <1>4, StaysSound
<1>6. k \in Contexts /\ Sound(k.tcp) /\ Onward(m.tcp, k.tcp)  BY <1>3, <1>5, CheckSession
<1>7. tcp.state \in {"CLOSE", "NONE"} => m.tcp = tcp  BY <1>2, <1>3, <1>4 DEF Sound
<1>8. Onward(tcp, m.tcp)  BY <1>3, <1>7 DEF Onward, Stays, Usable
<1>9. Onward(tcp, k.tcp)  BY <1>3, <1>6, <1>7 DEF Onward, Stays, Usable
<1> HIDE DEF k
<1>10. \E x \in Contexts : Becomes(x) /\ Sound(x.tcp) /\ Onward(tcp, x.tcp)
  BY <1>1, <1>3, <1>5, <1>6, <1>8, <1>9 DEF c, m, k
<1>11. /\ tcp' \in Session /\ app' \in AppType /\ srv' \in ServerType
       /\ Sound(tcp') /\ Onward(tcp, tcp')
  BY <1>10, BecomesType
<1>12. /\ loop' = [loop EXCEPT !.pc = "wait"] /\ loop.pc = "top" /\ up' = up
  BY DEF Monitor
<1>13. loop.evs = {}  BY <1>12 DEF Inv, LoopIdle
<1>14. loop' \in LoopType /\ loop'.evs = {}  BY <1>4, <1>12, <1>13 DEF LoopType
<1>15. QED  BY <1>4, <1>11, <1>12, <1>14 DEF Preserved, Inv, LoopIdle

\* epoll_wait reports events only of a registered socket.
LEMMA WaitPreserves == ASSUME Inv, Wait PROVE Preserved
<1> DEFINE e == IF tcp.socket /\ tcp.registered THEN tcp.events \intersect Ready ELSE {}
           l == [pc |-> "batch", tun |-> IF up = <<>> THEN 0 ELSE TunYield, evs |-> e]
<1>1. e \subseteq Events /\ (e # {} => tcp.socket)  BY DEF Inv, Session
<1>2. loop' = AfterBatch(l) /\ tcp' = tcp /\ up' = up /\ app' = app /\ srv' = srv
  BY DEF Wait
<1> HIDE DEF e
<1>3. l \in LoopType  BY <1>1, TcpAssumption DEF TcpAssumption, LoopType
<1>4. l.evs = e /\ l.pc = "batch"  OBVIOUS
<1> HIDE DEF l
<1>5. /\ loop' \in LoopType /\ loop'.evs = e
      /\ loop'.pc # "batch" => loop'.evs = {}
  BY <1>2, <1>3, <1>4, AfterBatchType
<1>6. QED  BY <1>1, <1>2, <1>5, OnwardSame DEF Preserved, Inv, LoopIdle

\* A packet in the batch preserves the invariant, and the socket that the
\* batch's events refer to.
LEMMA HandleTunPreserves ==
    ASSUME Inv, NEW open \in BOOLEAN, HandleTun(open) PROVE Preserved
<1>1. PICK w \in Writes : Becomes(handle_tcp(Context(w), Head(up), open))
  BY DEF HandleTun
<1> DEFINE c == Context(w)
           r == handle_tcp(c, Head(up), open)
           l == [loop EXCEPT !.tun = IF Len(up) = 1 THEN 0 ELSE @ - 1]
<1>2. /\ up # <<>> /\ up' = Tail(up) /\ loop.pc = "batch" /\ loop.tun > 0
      /\ loop' = AfterBatch(l)
  BY DEF HandleTun
<1>3. up \in Seq(Packet) /\ tcp \in Session /\ Sound(tcp) /\ loop \in LoopType  BY DEF Inv
<1>4. Head(up) \in Packet /\ Tail(up) \in Seq(Packet)  BY <1>2, <1>3
<1>5. c \in Contexts /\ c.tcp = tcp  BY ContextType
<1> HIDE DEF c
<1>6. r \in Contexts /\ Handled(tcp, r.tcp)  BY <1>3, <1>4, <1>5, HandleTcp
<1>7. /\ tcp' \in Session /\ app' \in AppType /\ srv' \in ServerType /\ tcp' = r.tcp
  BY <1>1, <1>6, BecomesType DEF c
<1>8. l \in LoopType /\ l.evs = loop.evs /\ l.pc = "batch"
  <2> DEFINE n == IF Len(up) = 1 THEN 0 ELSE loop.tun - 1
  <2>1. n \in 0..TunYield
    <3>1. TunYield \in Nat  BY TcpAssumption DEF TcpAssumption
    <3>2. loop.tun \in 0..TunYield /\ loop.tun > 0  BY <1>2, <1>3 DEF LoopType
    <3>3. 0 \in 0..TunYield /\ loop.tun - 1 \in 0..TunYield  BY <3>1, <3>2
    <3>4. QED  BY <3>3
  <2>2. l = [loop EXCEPT !.tun = n]  OBVIOUS
  <2> HIDE DEF n, l
  <2>3. QED  BY <1>2, <1>3, <2>1, <2>2 DEF LoopType
<1> HIDE DEF l, r
<1>9. /\ loop' \in LoopType /\ loop'.evs = loop.evs
      /\ loop'.pc # "batch" => loop'.evs = {}
  BY <1>2, <1>8, AfterBatchType
<1>10. Sound(tcp') /\ Onward(tcp, tcp') /\ (tcp.socket => tcp'.socket)
  BY <1>6, <1>7 DEF Handled
<1>11. QED  BY <1>2, <1>4, <1>7, <1>9, <1>10 DEF Preserved, Inv, LoopIdle

\* A socket event preserves the invariant: it is the last use of the event.
LEMMA HandleSocketPreserves == ASSUME Inv, HandleSocket PROVE Preserved
<1>0. PICK w \in Writes :
        \E o \in Outcomes(Context(w), loop.evs) :
          Becomes(check_tcp_socket(Context(w), loop.evs, o))
  BY DEF HandleSocket
<1>1. PICK o \in Outcomes(Context(w), loop.evs) :
        Becomes(check_tcp_socket(Context(w), loop.evs, o))
  BY <1>0
<1> DEFINE c == Context(w)
           r == check_tcp_socket(c, loop.evs, o)
           l == [loop EXCEPT !.evs = {}]
<1>2. /\ loop.pc = "batch" /\ loop.evs # {} /\ up' = up /\ loop' = AfterBatch(l)
  BY DEF HandleSocket
<1>3. /\ up \in Seq(Packet) /\ tcp \in Session /\ Sound(tcp) /\ loop \in LoopType
      /\ tcp.socket
  BY <1>2 DEF Inv
<1>4. c \in Contexts /\ c.tcp = tcp  BY ContextType
<1>5. /\ o \in Oracles
      /\ /\ "ERR" \notin loop.evs /\ c.tcp.state # "LISTEN" /\ "OUT" \in loop.evs
         => o.run \subseteq DOMAIN c.tcp.forward /\ SendOutcome(c, o)
  BY <1>3, <1>4, OutcomesType
<1> HIDE DEF c
<1>6. /\ r \in Contexts /\ Sound(r.tcp)
      /\ tcp.state = "CLOSING" => Stays(tcp, r.tcp)
  BY <1>3, <1>4, <1>5, CheckTcpSocket
<1>7. /\ tcp' \in Session /\ app' \in AppType /\ srv' \in ServerType /\ tcp' = r.tcp
  BY <1>1, <1>6, BecomesType DEF c
<1>8. l \in LoopType /\ l.evs = {} /\ l.pc = "batch"  BY <1>2, <1>3 DEF LoopType
<1> HIDE DEF l, r
<1>9. loop' \in LoopType /\ loop'.evs = {}  BY <1>2, <1>8, AfterBatchType
<1>10. tcp.state \notin {"FIN_WAIT1", "LAST_ACK", "CLOSE", "NONE"}  BY <1>3 DEF Sound, Session
<1>11. Onward(tcp, tcp')  BY <1>3, <1>6, <1>7, <1>10 DEF Onward, Usable, Stays
<1>12. QED  BY <1>2, <1>3, <1>6, <1>7, <1>9, <1>11 DEF Preserved, Inv, LoopIdle

\* Restarting the tunnel with its sessions preserves the invariant.
LEMMA ReloadPreserves ==
    ASSUME Inv, NEW allowed \in BOOLEAN, Reload(allowed) PROVE Preserved
<1>1. PICK w \in Writes :
        Becomes([check_allowed(Context(w), allowed) EXCEPT !.tcp.registered = FALSE])
  BY DEF Reload
<1> DEFINE c == Context(w)
           d == check_allowed(c, allowed)
           t == [d.tcp EXCEPT !.registered = FALSE]
           r == [d EXCEPT !.tcp.registered = FALSE]
<1>2. loop.pc = "top" /\ up' = up /\ loop' = loop  BY DEF Reload
<1>3. tcp \in Session /\ Sound(tcp) /\ loop.evs = {}  BY <1>2 DEF Inv, LoopIdle
<1>4. c \in Contexts /\ c.tcp = tcp  BY ContextType
<1> HIDE DEF c
<1>5. /\ d \in Contexts /\ Stays(tcp, d.tcp)
      /\ tcp.state \in {"CLOSE", "NONE"} => d.tcp = tcp
  BY <1>4, RstStays DEF check_allowed, Live, Stays
<1>6. r = [d EXCEPT !.tcp = t]  OBVIOUS
<1> HIDE DEF d
<1>7. d.tcp \in Session /\ Sound(d.tcp)  BY <1>3, <1>5, StaysSound DEF Contexts
<1>8. /\ t \in Session /\ t.state = d.tcp.state /\ t.socket = d.tcp.socket
      /\ ~t.registered
  BY <1>7 DEF Session
<1> HIDE DEF t, r
<1>9. r \in Contexts /\ r.tcp = t  BY <1>5, <1>6, <1>8, WithTcp
<1>10. Sound(t)  BY <1>7, <1>8 DEF Sound
<1>11. Onward(tcp, t)  BY <1>5, <1>8 DEF Onward, Stays, Usable
<1>12. /\ tcp' \in Session /\ app' \in AppType /\ srv' \in ServerType /\ tcp' = t
  BY <1>1, <1>9, BecomesType DEF r, d, c
<1>13. QED  BY <1>2, <1>3, <1>10, <1>11, <1>12 DEF Preserved, Inv, LoopIdle

\* Freeing every session preserves the invariant.
LEMMA ClearPreserves == ASSUME Inv, clear PROVE Preserved
<1>1. /\ loop.pc = "top" /\ tcp' = NoSession /\ loop' = loop /\ up' = up
      /\ app' = app /\ srv' = srv
  BY DEF clear
<1>2. loop.evs = {}  BY <1>1 DEF Inv, LoopIdle
<1>3. Onward(tcp, NoSession)  BY NoSessionType DEF Onward, Usable, Sound
<1>4. QED  BY <1>1, <1>2, <1>3, NoSessionType DEF Preserved, Inv, LoopIdle

\* A packet put in the tun is well formed.
LEMMA EmitPreserves ==
    ASSUME Inv, NEW a \in AppType, NEW flags \in Flags, NEW seq \in Nat, NEW len \in Nat,
           Emit(a, flags, seq, len)
    PROVE  Preserved
<1> DEFINE p == [flags |-> flags, seq |-> seq, ack |-> a.rcv_nxt, len |-> len,
                 win |-> AppBuf - a.unread]
<1>1. /\ up' = Append(up, p) /\ app' = [a EXCEPT !.ackDue = FALSE]
      /\ tcp' = tcp /\ loop' = loop /\ srv' = srv
  BY DEF Emit
<1>2. p \in Packet
  BY TcpAssumption DEF TcpAssumption, AppType, Packet, Flags
<1> HIDE DEF p
<1>3. up' \in Seq(Packet)  BY <1>1, <1>2 DEF Inv
<1>4. app' \in AppType  BY <1>1 DEF AppType
<1>5. QED  BY <1>1, <1>3, <1>4, OnwardSame DEF Preserved, Inv, LoopIdle

\* The steps of the app preserve the invariant.
LEMMA AppPreserves == ASSUME Inv, App PROVE Preserved
<1>1. app \in AppType  BY DEF Inv
<1>2. {"SYN"} \in Flags /\ {"ACK"} \in Flags /\ {"ACK", "FIN"} \in Flags /\ {"RST", "ACK"} \in Flags
  BY DEF Flags
<1>3. RemoteStart \in Nat /\ SegLen \in Nat  BY TcpAssumption DEF TcpAssumption
<1>4. CASE AppConnect
  <2>1. [app EXCEPT !.st = "SYN_SENT", !.snd_nxt = @ + 1] \in AppType
    <3>1. app.snd_nxt + 1 \in Nat  BY <1>1 DEF AppType
    <3>2. QED  BY <1>1, <3>1 DEF AppType
  <2>2. PICK len \in {0} \union (IF "syndata" \in Faults THEN {SegLen} ELSE {}) :
          Emit([app EXCEPT !.st = "SYN_SENT", !.snd_nxt = @ + 1], {"SYN"}, RemoteStart, len)
    BY <1>4 DEF AppConnect
  <2>3. len \in Nat  BY <1>3
  <2>4. QED  BY <1>2, <1>3, <2>1, <2>2, <2>3, EmitPreserves
<1>5. CASE AppResendSyn
  BY <1>1, <1>2, <1>3, <1>5, EmitPreserves DEF AppResendSyn
<1>6. ASSUME NEW fin \in BOOLEAN, AppSend(fin) PROVE Preserved
  <2> DEFINE n == app.snd_nxt + SegLen + (IF fin THEN 1 ELSE 0)
             a == [app EXCEPT !.fin = fin, !.snd_nxt = n]
             fl == IF fin THEN {"ACK", "FIN"} ELSE {"ACK"}
  <2>1. n \in Nat /\ app.snd_nxt \in Nat  BY <1>1, <1>3 DEF AppType
  <2>2. Emit(a, fl, app.snd_nxt, SegLen)  BY <1>6 DEF AppSend
  <2> HIDE DEF n
  <2>3. a \in AppType  BY <1>1, <2>1 DEF AppType
  <2>4. fl \in Flags  BY <1>2
  <2> HIDE DEF a, fl
  <2>5. QED  BY <1>3, <2>1, <2>2, <2>3, <2>4, EmitPreserves
<1>7. CASE AppAck
  <2>1. app.snd_nxt \in Nat  BY <1>1 DEF AppType
  <2>2. QED  BY <1>1, <1>2, <1>7, <2>1, EmitPreserves DEF AppAck
<1>8. CASE AppFin
  <2> DEFINE a == [app EXCEPT !.fin = TRUE, !.snd_nxt = @ + 1]
  <2>1. a \in AppType /\ app.snd_nxt \in Nat
    <3>1. app.snd_nxt \in Nat /\ app.snd_nxt + 1 \in Nat  BY <1>1 DEF AppType
    <3>2. QED  BY <1>1, <3>1 DEF AppType
  <2>2. Emit(a, {"ACK", "FIN"}, app.snd_nxt, 0)  BY <1>8 DEF AppFin
  <2> HIDE DEF a
  <2>3. QED  BY <1>2, <2>1, <2>2, EmitPreserves
<1>9. ASSUME NEW k \in 1..2, AppResend(k) PROVE Preserved
  <2> DEFINE fl == IF app.fin /\ app.snd_una + k * SegLen = DataEnd(app)
                   THEN {"ACK", "FIN"} ELSE {"ACK"}
             n == k * SegLen
  <2>1. Emit(app, fl, app.snd_una, n)  BY <1>9 DEF AppResend
  <2>2. n \in Nat /\ app.snd_una \in Nat
    <3>1. k = 1 \/ k = 2  OBVIOUS
    <3>2. 1 * SegLen \in Nat /\ 2 * SegLen \in Nat  BY <1>3
    <3>3. QED  BY <1>1, <3>1, <3>2 DEF AppType
  <2>3. fl \in Flags  BY <1>2
  <2> HIDE DEF fl, n
  <2>4. QED  BY <1>1, <2>1, <2>2, <2>3, EmitPreserves
<1>10. CASE AppResendFin
  <2>1. app.snd_una \in Nat  BY <1>1 DEF AppType
  <2>2. QED  BY <1>1, <1>2, <1>10, <2>1, EmitPreserves DEF AppResendFin
<1>11. CASE AppRead
  <2>1. /\ app' = [app EXCEPT !.unread = 0, !.ackDue = TRUE]
        /\ tcp' = tcp /\ loop' = loop /\ up' = up /\ srv' = srv
    BY <1>11 DEF AppRead
  <2>2. app' \in AppType  BY <1>1, <2>1 DEF AppType
  <2>3. QED  BY <2>1, <2>2, OnwardSame DEF Preserved, Inv, LoopIdle
<1>12. CASE AppAbort
  <2> DEFINE a == [app EXCEPT !.st = "ABORTED"]
  <2>1. a \in AppType /\ app.snd_nxt \in Nat  BY <1>1 DEF AppType
  <2>2. Emit(a, {"RST", "ACK"}, app.snd_nxt, 0)  BY <1>12 DEF AppAbort
  <2> HIDE DEF a
  <2>3. QED  BY <1>2, <2>1, <2>2, EmitPreserves
<1>13. QED
  BY <1>4, <1>5, <1>6, <1>7, <1>8, <1>9, <1>10, <1>11, <1>12 DEF App

\* The steps of the server preserve the invariant.
LEMMA PeerPreserves == ASSUME Inv, Peer PROVE Preserved
<1>1. srv \in ServerType  BY DEF Inv
<1>2. ASSUME NEW s \in ServerType, Server(s) PROVE Preserved
  <2>1. srv' = s /\ tcp' = tcp /\ loop' = loop /\ up' = up /\ app' = app
    BY <1>2 DEF Server
  <2>2. QED  BY <2>1, OnwardSame DEF Preserved, Inv, LoopIdle
<1>3. CASE ServerConnect
  <2>1. [srv EXCEPT !.conn = "connected"] \in ServerType  BY <1>1 DEF ServerType
  <2>2. QED  BY <1>2, <1>3, <2>1 DEF ServerConnect
<1>4. CASE ServerSend
  <2>1. [srv EXCEPT !.sent = @ + 1, !.toRead = @ + 1] \in ServerType
    <3>1. srv.sent + 1 \in Nat /\ srv.toRead + 1 \in Int  BY <1>1 DEF ServerType
    <3>2. QED  BY <1>1, <3>1 DEF ServerType
  <2>2. QED  BY <1>2, <1>4, <2>1 DEF ServerSend
<1>5. CASE ServerClose
  <2>1. [srv EXCEPT !.eof = TRUE] \in ServerType  BY <1>1 DEF ServerType
  <2>2. QED  BY <1>2, <1>5, <2>1 DEF ServerClose
<1>6. CASE ServerDrain
  <2>1. [srv EXCEPT !.unsent = 0] \in ServerType  BY <1>1 DEF ServerType
  <2>2. QED  BY <1>2, <1>6, <2>1 DEF ServerDrain
<1>7. CASE ServerFail
  <2>1. [srv EXCEPT !.err = TRUE] \in ServerType  BY <1>1 DEF ServerType
  <2>2. QED  BY <1>2, <1>7, <2>1 DEF ServerFail
<1>8. CASE ProxyReply
  <2>1. [srv EXCEPT !.socks = "replied"] \in ServerType  BY <1>1 DEF ServerType
  <2>2. QED  BY <1>2, <1>8, <2>1 DEF ProxyReply
<1>9. QED  BY <1>3, <1>4, <1>5, <1>6, <1>7, <1>8 DEF Peer

\* The steps of the engine's thread preserve the invariant.
LEMMA EnginePreserves == ASSUME Inv, Engine PROVE Preserved
<1>1. CASE MonitorStep
  <2>1. PICK probe \in BOOLEAN, check \in BOOLEAN, idle \in May("idle"), gone \in BOOLEAN :
          Monitor(probe, check, idle, gone)
    BY <1>1 DEF MonitorStep
  <2>2. idle \in BOOLEAN  BY MayType
  <2>3. QED  BY <2>1, <2>2, MonitorPreserves
<1>2. ASSUME NEW a \in {TRUE} \union {~x : x \in May("forbid")}
      PROVE  a \in BOOLEAN
  OBVIOUS
<1>3. CASE TunStep  BY <1>2, <1>3, HandleTunPreserves DEF TunStep
<1>4. CASE \E a \in {TRUE} \union {~x : x \in May("forbid")} : Reload(a)
  BY <1>2, <1>4, ReloadPreserves
<1>5. QED
  BY <1>1, <1>3, <1>4, WaitPreserves, HandleSocketPreserves, ClearPreserves DEF Engine

\* Every step preserves the invariant and never reopens a session.
LEMMA NextPreserves == Inv /\ [Next]_vars => Preserved
<1> SUFFICES ASSUME Inv, [Next]_vars PROVE Preserved  OBVIOUS
<1>1. CASE Next  BY <1>1, EnginePreserves, AppPreserves, PeerPreserves DEF Next
<1>2. CASE UNCHANGED vars
  <2>1. tcp' = tcp /\ loop' = loop /\ up' = up /\ app' = app /\ srv' = srv
    BY <1>2 DEF vars
  <2>2. QED  BY <2>1, OnwardSame DEF Preserved, Inv, LoopIdle
<1>3. QED  BY <1>1, <1>2

\* The invariant holds in every state of every instance of the model.
THEOREM InvHolds == Spec => []Inv
<1>1. Inv /\ [Next]_vars => Inv'  BY NextPreserves DEF Preserved
<1>2. QED  BY InvInit, <1>1, PTL DEF Spec

\* Whatever packets, partial sends, failures and timeouts handle_tcp and
\* check_tcp_socket meet, the session, its queue and the loop keep their shape.
THEOREM TypeCorrect == Spec => []TypeOK
BY InvHolds, InvImplies, PTL

\* The agreement of session state and socket holds for every number of segments,
\* every buffer size, batch size and combination of faults of tcp.c.
THEOREM SocketSafe == Spec => []SocketMatchesState
BY InvHolds, InvImplies, PTL

\* An event of an epoll_wait batch (session.c) never outlives the session that it
\* points to, or the socket, whatever packets the batch handles before it.
THEOREM EventsSafe == Spec => []EventsHaveSession
BY InvHolds, InvImplies, PTL

\* No packet, socket event, timeout or restart makes a session that is closing
\* usable again, or restarts the closing of a closed one (write_rst in CLOSE).
THEOREM NoReopening == Spec => NeverReopens
<1> DEFINE A == /\ tcp.state \in {"FIN_WAIT1", "LAST_ACK", "CLOSING"} =>
                     tcp'.state \notin {"LISTEN", "SYN_RECV", "ESTABLISHED", "CLOSE_WAIT"}
                /\ tcp.state = "CLOSE" => tcp'.state \in {"CLOSE", "NONE"}
<1>1. Inv /\ [Next]_vars => [A]_vars
  BY NextPreserves DEF Preserved, Onward, Usable
<1>2. QED  BY <1>1, InvHolds, PTL DEF Spec, NeverReopens

\* A step that keeps the invariant and goes on is a step of SessionLife, or it
\* changes neither the phase nor the socket.
LEMMA StepOfLife ==
    ASSUME Inv, Preserved
    PROVE  [Life!Next]_(Life!life)
<1> DEFINE t == tcp
           u == tcp'
<1>1. /\ t \in Session /\ Sound(t) /\ u \in Session /\ Sound(u) /\ Onward(t, u)
  BY DEF Inv, Preserved
<1>2. t.socket \in BOOLEAN /\ u.socket \in BOOLEAN /\ t.state \in States /\ u.state \in States
  BY <1>1 DEF Session
<1> USE DEF Life!Next, Life!life, Phase
<1>3. CASE u.state = "NONE"
  <2>1. u.socket = FALSE  BY <1>1, <1>2, <1>3 DEF Sound
  <2>2. CASE t.state = "NONE"
    <3>1. t.socket = FALSE  BY <1>1, <1>2, <2>2 DEF Sound
    <3>2. QED  BY <1>3, <2>1, <2>2, <3>1
  <2>3. CASE t.state # "NONE"
    BY <1>2, <1>3, <2>1, <2>3 DEF Life!Clear
  <2>4. QED  BY <2>2, <2>3
<1>4. CASE t.state = "NONE" /\ u.state # "NONE"
  <2>1. u.state = "LISTEN" /\ u.socket = TRUE  BY <1>1, <1>2, <1>4 DEF Sound, Onward, Usable
  <2>2. QED  BY <1>4, <2>1 DEF Life!Open
<1>5. CASE t.state = "CLOSE" /\ u.state # "NONE"
  <2>1. u.state = "CLOSE" /\ u.socket = FALSE /\ t.socket = FALSE
    BY <1>1, <1>2, <1>5 DEF Sound, Onward
  <2>2. QED  BY <1>5, <2>1
<1>6. CASE t.state = "CLOSING" /\ u.state # "NONE"
  <2>1. u.state \in {"CLOSING", "CLOSE"} /\ (u.state = "CLOSING" => u.socket = t.socket)
    BY <1>1, <1>6 DEF Onward
  <2>2. u.state = "CLOSE" => u.socket = FALSE  BY <1>1, <1>2 DEF Sound
  <2>3. QED  BY <1>6, <2>1, <2>2 DEF Life!Close
<1>7. CASE t.state \in Live /\ u.state # "NONE"
  <2>1. u.socket => t.socket  BY <1>1, <1>7 DEF Onward, Live
  <2>2. Phase(t) = "active"  BY <1>7 DEF Live
  <2>3. CASE u.state = "CLOSE"
    <3>1. u.socket = FALSE  BY <1>1, <1>2, <2>3 DEF Sound
    <3>2. QED  BY <2>2, <2>3, <3>1 DEF Life!Close
  <2>4. CASE u.state = "CLOSING"
    <3>1. Phase(u) = "closing"  BY <2>4
    <3>2. CASE u.socket = t.socket  BY <2>2, <3>1, <3>2 DEF Life!Terminate
    <3>3. CASE u.socket # t.socket
      <4>1. t.socket = TRUE /\ u.socket = FALSE  BY <1>2, <2>1, <3>3
      <4>2. QED  BY <2>2, <3>1, <4>1 DEF Life!SocketEnds
    <3>4. QED  BY <3>2, <3>3
  <2>5. CASE u.state \in Live
    <3>1. Phase(u) = "active"  BY <2>5 DEF Live
    <3>2. CASE u.socket = t.socket  BY <2>2, <3>1, <3>2
    <3>3. CASE u.socket # t.socket
      <4>1. t.socket = TRUE /\ u.socket = FALSE  BY <1>2, <2>1, <3>3
      <4>2. QED  BY <2>2, <3>1, <4>1 DEF Life!SocketEnds
    <3>4. QED  BY <3>2, <3>3
  <2>6. QED  BY <1>2, <1>7, <2>3, <2>4, <2>5 DEF States
<1>8. QED  BY <1>2, <1>3, <1>4, <1>5, <1>6, <1>7 DEF States

\* The TCP session of tcp.c implements the life that the session table (and the
\* model NetGuardSessions of it) relies on: no packet, socket event, check or
\* restart skips a phase, and no socket is left open by a freed session.
THEOREM TcpImplementsLife == Spec => ImplementsLife
<1>1. Init => Life!Init
  BY DEF Init, NoSession, Life!Init, Phase
<1>2. Inv /\ [Next]_vars => [Life!Next]_(Life!life)
  BY NextPreserves, StepOfLife
<1>3. QED  BY <1>1, <1>2, InvHolds, PTL DEF Spec, ImplementsLife, Life!Spec

=============================================================================
