---------------------- MODULE NetGuardTcpStreamProofs ----------------------
(***************************************************************************)
(* Proofs about the bytes that a session of NetGuardTcp gives to the       *)
(* server: remote_seq and the queue account for all of them, and without   *)
(* data in a SYN they are the app's stream, none skipped or repeated.      *)
(*                                                                         *)
(* The invariant is about four values: the state of the session,           *)
(* remote_seq, the queue and the byte that the server expects next.  The   *)
(* lemmas about these come first, then one for each function of tcp.c that *)
(* changes one of them, then the actions.                                  *)
(***************************************************************************)
EXTENDS NetGuardTcpProofs

\* No SYN carries data (no TCP fast open).
Plain == "syndata" \notin Faults

\* The bytes sent of the segment n of the queue f, if there is one.
SentAt(f, n) == IF n \in DOMAIN f THEN f[n].sent ELSE 0

\* Only the segment at remote_seq may have been sent in part.
Fresh(f, n) == \A q \in DOMAIN f : q # n => f[q].sent = 0

\* What state, remote_seq, the queue and the byte the server expects have to do
\* with each other.  RemoteSeqCounts needs Fresh, since the next segment becomes
\* the one at remote_seq, and LISTEN, from which the other states come.  A closing
\* session still forwards when its socket is writable, so the stream is intact
\* only with the last part, which data in a SYN would break: they are queued at
\* the number of the SYN, where the server expects nothing.
Tally(st, n, f, x) ==
    /\ st \in Live => Fresh(f, n)
    /\ st = "LISTEN" => n = RemoteStart /\ x = RemoteStart + 1 /\ SentAt(f, n) = 0
    /\ st \in {"SYN_RECV", "ESTABLISHED"} => x = n + SentAt(f, n)
    /\ st = "CLOSE_WAIT" => x = IF f = EmptyQueue THEN n - 1 ELSE n + SentAt(f, n)
    /\ st = "FIN_WAIT1" => x = n /\ f = EmptyQueue
    /\ st = "LAST_ACK" => x + 1 = n /\ f = EmptyQueue
    /\ Plain => /\ st = "LISTEN" => RemoteStart \notin DOMAIN f
                /\ st = "CLOSING" => /\ Fresh(f, n)
                                     /\ n \in DOMAIN f => x = n + SentAt(f, n)

\* The app sends its data behind its SYN.
Ahead(a) ==
    /\ a.snd_nxt >= RemoteStart
    /\ a.st \in {"SYN_SENT", "EST"} => a.snd_nxt > RemoteStart
    /\ a.st = "EST" => a.snd_una > RemoteStart

\* Once the proxy has answered, or none is used, connect() leaves LISTEN at once:
\* the SYN is counted only once.
Waiting(t) == t.state = "LISTEN" => t.socks5 # "CONNECTED"

\* The invariant of a context.
Kept(c) ==
    /\ Tally(c.tcp.state, c.tcp.remote_seq, c.tcp.forward, c.srv.next)
    /\ Plain => c.srv.intact
    /\ Ahead(c.app) /\ Waiting(c.tcp)

\* The packets that the app can have put in the tun.
Proper(p) ==
    /\ "SYN" \in p.flags => p.seq = RemoteStart
    /\ Plain /\ p.len > 0 => p.seq > RemoteStart

-----------------------------------------------------------------------------
(* State, remote_seq, queue, and the byte the server expects *)

\* The empty queue has no segments.
LEMMA EmptyDomain == DOMAIN EmptyQueue = {}
BY DEF EmptyQueue

\* Segments have a length and a number of bytes sent.
LEMMA QueueFacts ==
    ASSUME NEW f \in Queues
    PROVE  /\ DOMAIN f \subseteq Nat
           /\ \A q \in DOMAIN f : f[q] \in Segment /\ f[q].sent \in Nat /\ f[q].len \in Nat \ {0}
           /\ \A n : SentAt(f, n) \in Nat
<1>1. DOMAIN f \subseteq Nat /\ f \in [DOMAIN f -> Segment]  BY DEF Queues
<1>2. \A q \in DOMAIN f : f[q] \in Segment  BY <1>1
<1>3. QED  BY <1>1, <1>2 DEF Segment, SentAt

\* Closing a session that is not closed.
LEMMA TallyCloses ==
    ASSUME NEW st \in Live \union {"CLOSING"}, NEW n \in Int, NEW f \in Queues, NEW x \in Int,
           Tally(st, n, f, x)
    PROVE  Tally("CLOSING", n, f, x)
BY EmptyDomain DEF Tally, Live, Fresh, SentAt

\* write_rst, which counts the SYN of a session that is not connected.
LEMMA TallyResets ==
    ASSUME NEW st \in States \ {"NONE"}, NEW n \in Int, NEW f \in Queues, NEW x \in Int,
           Tally(st, n, f, x)
    PROVE  Tally(IF st = "CLOSE" THEN st ELSE "CLOSING", IF st = "LISTEN" THEN n + 1 ELSE n, f, x)
<1>1. CASE st = "CLOSE"  BY <1>1 DEF Tally, Live
<1>2. CASE st = "LISTEN"
  <2>1. \A q \in DOMAIN f : f[q].sent = 0  BY <1>2 DEF Tally, Fresh, SentAt, Live
  <2>2. x = n + 1  BY <1>2 DEF Tally
  <2>3. QED  BY <1>2, <2>1, <2>2 DEF Tally, Fresh, SentAt, Live
<1>3. CASE st \notin {"CLOSE", "LISTEN"}
  <2>1. st \in Live \union {"CLOSING"}  BY <1>3 DEF States
  <2>2. QED  BY <1>3, <2>1, TallyCloses
<1>4. QED  BY <1>1, <1>2, <1>3

\* queue_tcp, in the states in which it is called: a segment that is repeated
\* keeps what was sent of it.
LEMMA TallyQueues ==
    ASSUME NEW st \in {"LISTEN", "SYN_RECV", "ESTABLISHED"}, NEW n \in Int, NEW f \in Queues,
           NEW x \in Int, Tally(st, n, f, x),
           NEW k \in Nat, NEW g \in Queues, Plain => k > RemoteStart,
           DOMAIN g = DOMAIN f \union {k},
           \A q \in DOMAIN f : g[q].sent = f[q].sent,
           k \notin DOMAIN f => g[k].sent = 0
    PROVE  Tally(st, n, g, x)
<1>1. Fresh(g, n)  BY DEF Tally, Fresh, Live
<1>2. SentAt(g, n) = SentAt(f, n)  BY DEF SentAt
<1>3. Plain => (st = "LISTEN" => RemoteStart \notin DOMAIN g)
  BY TcpAssumption DEF TcpAssumption, Tally
<1>4. QED  BY <1>1, <1>2, <1>3 DEF Tally

\* After forwarding, a FIN behind the last segment is counted.
LEMMA TallyConfirms ==
    ASSUME NEW st \in {"SYN_RECV", "ESTABLISHED", "CLOSE_WAIT", "CLOSING"}, NEW n \in Int,
           NEW f \in Queues, NEW x \in Int,
           st # "CLOSING" \/ Plain => Fresh(f, n) /\ x = n + SentAt(f, n)
    PROVE  Tally(st, n + (IF st = "CLOSE_WAIT" /\ f = EmptyQueue THEN 1 ELSE 0), f, x)
<1>1. CASE st = "CLOSE_WAIT" /\ f = EmptyQueue
  BY <1>1, EmptyDomain DEF Tally, Fresh, SentAt
<1>2. CASE ~(st = "CLOSE_WAIT" /\ f = EmptyQueue)
  BY <1>2 DEF Tally, Live
<1>3. QED  BY <1>1, <1>2

-----------------------------------------------------------------------------
(* Writing to the tun *)

\* No packet of the engine takes the app back to its SYN.
LEMMA AppRecvAhead ==
    ASSUME NEW a \in AppType, NEW p \in Reply, Ahead(a)
    PROVE  Ahead(AppRecv(a, p))
<1>0. a.snd_una \in Nat /\ a.snd_nxt \in Nat /\ p.ack \in Int /\ RemoteStart \in Nat
  BY TcpAssumption DEF TcpAssumption, AppType, Reply
<1>1. CASE "RST" \in p.flags  BY <1>1 DEF AppRecv, AppType, Ahead
<1>2. CASE "RST" \notin p.flags /\ "SYN" \in p.flags
  <2>1. CASE a.st = "SYN_SENT" /\ p.ack = a.snd_nxt
    <3>1. AppRecv(a, p) = [a EXCEPT !.st = "EST", !.snd_una = p.ack,
                          !.rcv_nxt = p.seq + 1, !.wnd = p.win,
                          !.ackDue = TRUE]
      BY <1>2, <2>1, Zenon DEF AppRecv
    <3>2. QED  BY <2>1, <3>1 DEF AppType, Ahead
  <2>2. CASE ~(a.st = "SYN_SENT" /\ p.ack = a.snd_nxt)
    BY <1>2, <2>2, Zenon DEF AppRecv
  <2>3. QED  BY <2>1, <2>2
<1>3. CASE "RST" \notin p.flags /\ "SYN" \notin p.flags
  <2> DEFINE n == p.len + (IF "FIN" \in p.flags THEN 1 ELSE 0)
             b == IF p.seq = a.rcv_nxt /\ n > 0
                  THEN [a EXCEPT !.rcv_nxt = @ + n,
                                 !.unread = @ + p.len, !.ackDue = TRUE]
                  ELSE a
             z == [b EXCEPT !.snd_una = p.ack, !.wnd = p.win * WindowUnit]
  <2>1. AppRecv(a, p) = IF a.st # "EST" THEN a
                        ELSE IF p.ack < a.snd_una THEN b ELSE z
    BY <1>3, Zenon DEF AppRecv
  <2> HIDE DEF n
  <2>2. b.st = a.st /\ b.snd_una = a.snd_una /\ b.snd_nxt = a.snd_nxt  BY DEF AppType
  <2>3. z.st = a.st /\ z.snd_una = p.ack /\ z.snd_nxt = a.snd_nxt  BY DEF AppType
  <2> HIDE DEF b, z
  <2>4. QED  BY <1>0, <2>1, <2>2, <2>3 DEF Ahead
<1>4. QED  BY <1>1, <1>2, <1>3

\* What is written to the tun keeps the app ahead.
LEMMA WriteTcpAhead ==
    ASSUME NEW c \in Contexts, NEW flags \in Flags, NEW len \in Nat, Ahead(c.app)
    PROVE  Ahead(write_tcp(c, flags, len).app)
<1> DEFINE p == [flags |-> flags, len |-> len, seq |-> c.tcp.local_seq,
                 ack |-> c.tcp.remote_seq, win |-> c.tcp.recv_window \div WindowUnit]
<1>1. p \in Reply  BY UnitFacts DEF Contexts, Session, Reply
<1>2. Ahead(AppRecv(c.app, p))  BY <1>1, AppRecvAhead DEF Contexts
<1>3. write_tcp(c, flags, len) =
        IF c.writes = 0 THEN c
        ELSE [c EXCEPT !.writes = c.writes - 1, !.app = AppRecv(c.app, p)]
  BY Zenon DEF write_tcp
<1> HIDE DEF p
<1>4. QED  BY <1>2, <1>3 DEF Contexts

\* So do the writes that close the session when they fail.
LEMMA WriteAhead ==
    ASSUME NEW c \in Contexts, NEW n \in Nat, Ahead(c.app)
    PROVE  /\ Ahead(write_ack(c).app) /\ Ahead(write_fin_ack(c).app)
           /\ Ahead(write_syn_ack(c).app) /\ Ahead(write_data(c, n).app)
<1>1. ASSUME NEW flags \in Flags, NEW len \in Nat
      PROVE  Ahead(write_or_close(c, flags, len).app)
  <2>1. [c EXCEPT !.tcp.state = "CLOSING"].app = c.app  BY DEF Contexts
  <2>2. QED  BY <2>1, WriteTcpAhead DEF write_or_close
<1>2. {"ACK"} \in Flags /\ {"FIN", "ACK"} \in Flags /\ {"SYN", "ACK"} \in Flags
  BY DEF Flags
<1>3. QED  BY <1>1, <1>2 DEF write_ack, write_fin_ack, write_syn_ack, write_data

\* So does the reset.
LEMMA RstAhead ==
    ASSUME NEW c \in Contexts, Ahead(c.app)
    PROVE  Ahead(write_rst(c).app)
<1> DEFINE t == [c.tcp EXCEPT !.remote_seq = @ + 1]
           d == IF c.tcp.state = "LISTEN" THEN [c EXCEPT !.tcp.remote_seq = @ + 1] ELSE c
           fl == IF c.tcp.state = "LISTEN" THEN {"RST", "ACK"} ELSE {"RST"}
           w == write_tcp(d, fl, 0)
<1>1. write_rst(c) = [w EXCEPT !.tcp.state = IF @ = "CLOSE" THEN @ ELSE "CLOSING"]
  BY Zenon DEF write_rst
<1>2. t \in Session  BY DEF Contexts, Session
<1>3. d = IF c.tcp.state = "LISTEN" THEN [c EXCEPT !.tcp = t] ELSE c  OBVIOUS
<1> HIDE DEF t, d
<1>4. d \in Contexts /\ d.app = c.app  BY <1>2, <1>3 DEF Contexts
<1>5. fl \in Flags  BY DEF Flags
<1> HIDE DEF fl
<1>6. w \in Contexts /\ Ahead(w.app)  BY <1>4, <1>5, WriteTcp, WriteTcpAhead
<1> HIDE DEF w
<1>7. QED  BY <1>1, <1>6 DEF Contexts

\* The numbers of a context.
LEMMA Numbers ==
    ASSUME NEW c \in Contexts
    PROVE  /\ c.tcp \in Session /\ c.srv \in ServerType /\ c.app \in AppType
           /\ c.tcp.state \in States /\ c.tcp.remote_seq \in Int /\ c.tcp.forward \in Queues
           /\ c.srv.next \in Int
BY DEF Contexts, Session, ServerType

\* A write that fails closes the session and nothing else.
LEMMA ClosedKept ==
    ASSUME NEW c \in Contexts, Kept(c), c.tcp.state \in Live \union {"CLOSING"},
           NEW d, d.srv = c.srv, Ahead(d.app),
           \/ d.tcp = c.tcp
           \/ d.tcp = [c.tcp EXCEPT !.state = "CLOSING"]
    PROVE  Kept(d)
<1>1. CASE d.tcp = c.tcp  BY <1>1 DEF Kept
<1>2. CASE d.tcp = [c.tcp EXCEPT !.state = "CLOSING"]
  <2>1. /\ d.tcp.state = "CLOSING" /\ d.tcp.remote_seq = c.tcp.remote_seq
        /\ d.tcp.forward = c.tcp.forward
    BY <1>2, Numbers DEF Session
  <2>2. QED  BY <2>1, Numbers, TallyCloses DEF Kept, Waiting
<1>3. QED  BY <1>1, <1>2

\* write_rst.
LEMMA RstKept ==
    ASSUME NEW c \in Contexts, Kept(c), c.tcp.state # "NONE"
    PROVE  Kept(write_rst(c))
<1> DEFINE d == write_rst(c)
<1>1. d.srv = c.srv /\ d.tcp = Reset(c.tcp)  BY WriteRst
<1>2. Ahead(d.app)  BY RstAhead DEF Kept
<1> HIDE DEF d
<1>3. /\ d.tcp.state = IF c.tcp.state = "CLOSE" THEN c.tcp.state ELSE "CLOSING"
      /\ d.tcp.remote_seq = IF c.tcp.state = "LISTEN" THEN c.tcp.remote_seq + 1
                            ELSE c.tcp.remote_seq
      /\ d.tcp.forward = c.tcp.forward
  BY <1>1, Numbers DEF Reset, Session
<1>4. Tally(d.tcp.state, d.tcp.remote_seq, d.tcp.forward, d.srv.next)
  BY <1>1, <1>3, Numbers, TallyResets DEF Kept
<1>5. Waiting(d.tcp)  BY <1>3 DEF Waiting
<1>6. QED  BY <1>1, <1>2, <1>4, <1>5 DEF Kept, d

-----------------------------------------------------------------------------
(* check_tcp_socket *)

\* The states of a session with a socket that is connected.
Connected == {"SYN_RECV", "ESTABLISHED", "CLOSE_WAIT", "CLOSING"}

\* Were bytes sent.
Moved(o) == o.run # {} \/ o.part > 0

\* The server expects the byte behind those sent of the segment at remote_seq.
Exact(c) ==
    c.tcp.state # "CLOSING" \/ Plain =>
        /\ Fresh(c.tcp.forward, c.tcp.remote_seq)
        /\ c.srv.next = c.tcp.remote_seq + SentAt(c.tcp.forward, c.tcp.remote_seq)

\* Without a byte sent the loop changes neither the session nor the server.
LEMMA ForwardNothing ==
    ASSUME NEW c \in Contexts, NEW o \in Oracles, SendOutcome(c, o), ~Moved(o)
    PROVE  forwarded(c.tcp, o) = c.tcp /\ delivered(c, o) = c.srv
<1> DEFINE t == c.tcp
           f == t.forward
           g == [q \in DOMAIN f \ o.run |->
                   IF q = o.end THEN [f[q] EXCEPT !.sent = @ + o.part] ELSE f[q]]
<1>1. o.run = {} /\ o.part = 0  BY DEF Moved, Oracles
<1>2. o.end = t.remote_seq  BY <1>1 DEF SendOutcome, RunEnd
<1>3. f \in [DOMAIN f -> Segment]  BY DEF Contexts, Session, Queues
<1>4. g = f
  <2>1. \A q \in DOMAIN f : [f[q] EXCEPT !.sent = @ + 0] = f[q]  BY <1>3 DEF Segment
  <2>2. DOMAIN g = DOMAIN f  BY <1>1
  <2>3. \A q \in DOMAIN f : g[q] = f[q]  BY <1>1, <2>1
  <2>4. QED  BY <1>3, <2>2, <2>3
<1>5. forwarded(t, o) = [t EXCEPT !.remote_seq = o.end, !.forward = g]
  BY DEF forwarded
<1> HIDE DEF g
<1>6. forwarded(t, o) = t
  <2>1. t \in Session  BY Numbers
  <2>2. t = [t EXCEPT !.remote_seq = t.remote_seq, !.forward = t.forward]
    BY <2>1 DEF Session
  <2>3. QED  BY <1>2, <1>4, <1>5, <2>2
<1>7. QED  BY <1>1, <1>6 DEF delivered

\* The forwarding loop, if it sent something: what it sends is what the server
\* expects, so the stream is intact, whatever segments and parts were sent.
LEMMA ForwardMoved ==
    ASSUME NEW c \in Contexts, NEW o \in Oracles, o.run \subseteq DOMAIN c.tcp.forward,
           SendOutcome(c, o), Moved(o), Kept(c), c.tcp.state \in Connected
    PROVE  LET u == forwarded(c.tcp, o)
               s == delivered(c, o)
           IN  /\ u.state = c.tcp.state /\ (Plain => s.intact)
               /\ u.state # "CLOSING" \/ Plain =>
                    Fresh(u.forward, u.remote_seq) /\ s.next = u.remote_seq + SentAt(u.forward, u.remote_seq)
<1> DEFINE t == c.tcp
           f == t.forward
           n == t.remote_seq
           x == c.srv.next
           e == o.end
           at == e + (IF o.part > 0 THEN f[e].sent + o.part ELSE 0)
           start == n + f[n].sent
           g == [q \in DOMAIN f \ o.run |->
                   IF q = e THEN [f[q] EXCEPT !.sent = @ + o.part] ELSE f[q]]
           u == forwarded(t, o)
           s == delivered(c, o)
<1>1. /\ t \in Session /\ f \in Queues /\ n \in Int /\ x \in Int /\ c.srv \in ServerType
      /\ e \in Int /\ o.part \in Nat
  BY Numbers DEF Oracles
<1>2. u = [t EXCEPT !.remote_seq = e, !.forward = g]  BY DEF forwarded
<1>3. s = [c.srv EXCEPT !.unsent = @ + (at - start), !.next = at,
                        !.intact = @ /\ start = x]
  BY <1>1 DEF delivered, Moved
<1>4. /\ o.run # {} => n \in o.run
      /\ o.run = {} => e = n
      /\ o.part > 0 => e \in DOMAIN f \ o.run
  BY DEF SendOutcome, RunEnd, Sendable, HeadIs
<1>5. /\ DOMAIN g = DOMAIN f \ o.run
      /\ \A q \in DOMAIN g : g[q].sent = IF q = e THEN f[q].sent + o.part ELSE f[q].sent
  <2>1. \A q \in DOMAIN f : f[q] \in Segment  BY <1>1, QueueFacts
  <2>2. \A q \in DOMAIN f : [f[q] EXCEPT !.sent = @ + o.part].sent = f[q].sent + o.part
    BY <2>1 DEF Segment
  <2>3. QED  BY <2>2
<1>6. n \in DOMAIN f  BY <1>4 DEF Moved
<1>7. u.state = t.state /\ u.remote_seq = e /\ u.forward = g
  BY <1>1, <1>2 DEF Session
<1>8. s.next = at /\ s.intact = (c.srv.intact /\ start = x)
  BY <1>1, <1>3 DEF ServerType
<1> HIDE DEF g, u, s
<1>9. CASE t.state # "CLOSING" \/ Plain
  <2>1. Fresh(f, n) /\ x = n + SentAt(f, n)
    BY <1>6, <1>9, EmptyDomain DEF Kept, Tally, Connected, Live
  <2>2. o.run \in SUBSET DOMAIN f /\ (o.run # {} \/ o.part > 0)  BY DEF Moved
  <2>3. start = x /\ Fresh(g, e) /\ at = e + SentAt(g, e)
    <3> DEFINE run == o.run
               part == o.part
    <3>1. /\ n \in Int /\ f \in Queues /\ x \in Int /\ e \in Int /\ part \in Nat
          /\ run \in SUBSET DOMAIN f
      BY <1>1, <2>2
    <3>2. run # {} => n \in run  BY <1>4
    <3>3. run = {} => e = n  BY <1>4
    <3>4. part > 0 => e \in DOMAIN f \ run  BY <1>4
    <3>5. run # {} \/ part > 0  BY <2>2
    <3>6. DOMAIN g = DOMAIN f \ run  BY <1>5
    <3>7. \A q \in DOMAIN g : g[q].sent = IF q = e THEN f[q].sent + part ELSE f[q].sent
      BY <1>5
    <3>8. at = e + (IF part > 0 THEN f[e].sent + part ELSE 0)  OBVIOUS
    <3>9. start = n + f[n].sent  OBVIOUS
    <3> HIDE DEF at, start, run, part, f, n, x, e, t
    <3>10. start = x  BY <1>6, <2>1, <3>9 DEF SentAt
    <3>11. Fresh(g, e)
      <4> SUFFICES ASSUME NEW q \in DOMAIN g, q # e PROVE g[q].sent = 0  BY DEF Fresh
      <4>1. q # n /\ q \in DOMAIN f  BY <3>2, <3>3, <3>6
      <4>2. QED  BY <2>1, <3>7, <4>1 DEF Fresh
    <3>12. at = e + SentAt(g, e)
      <4>1. CASE part > 0  BY <3>4, <3>6, <3>7, <3>8, <4>1 DEF SentAt
      <4>2. CASE part = 0 /\ e \in DOMAIN g
        <5>1. e \in DOMAIN f /\ e # n  BY <3>2, <3>5, <3>6, <4>2
        <5>2. f[e].sent = 0  BY <2>1, <5>1 DEF Fresh
        <5>3. QED  BY <3>7, <3>8, <4>2, <5>2 DEF SentAt
      <4>3. CASE part = 0 /\ e \notin DOMAIN g  BY <3>8, <4>3 DEF SentAt
      <4>4. QED  BY <3>1, <4>1, <4>2, <4>3
    <3>13. QED  BY <3>10, <3>11, <3>12
  <2>4. QED  BY <1>7, <1>8, <2>3 DEF Kept, u, s
<1>10. CASE ~(t.state # "CLOSING" \/ Plain)  BY <1>7, <1>10 DEF u, s
<1>11. QED  BY <1>9, <1>10 DEF u, s

\* The loop with its send that fails.
LEMMA ForwardKept ==
    ASSUME NEW c \in Contexts, NEW o \in Oracles, o.run \subseteq DOMAIN c.tcp.forward,
           SendOutcome(c, o), Kept(c), c.tcp.state \in Connected
    PROVE  LET d == forward_data(c, o)
           IN  /\ d.tcp.state \in {c.tcp.state, "CLOSING"}
               /\ (Plain => d.srv.intact) /\ Ahead(d.app)
               /\ IF Moved(o) THEN Exact(d) ELSE Kept(d)
<1> DEFINE u == forwarded(c.tcp, o)
           s == delivered(c, o)
           d == [c EXCEPT !.tcp = u, !.srv = s]
           b == [s EXCEPT !.err = TRUE]
           x == [d EXCEPT !.srv = b]
<1>1. forward_data(c, o) \in Contexts  BY ForwardData
<1>2. forward_data(c, o) = IF o.serr THEN write_rst(x) ELSE d
  BY DEF forward_data
<1>3. u \in Session /\ s \in ServerType  BY ForwardParts
<1>4. b \in ServerType /\ b.next = s.next /\ b.intact = s.intact  BY <1>3 DEF ServerType
<1>5. d \in Contexts /\ d.tcp = u /\ d.srv = s /\ d.app = c.app  BY <1>3 DEF Contexts
<1>6. x \in Contexts /\ x.tcp = u /\ x.srv = b /\ x.app = c.app
  BY <1>4, <1>5 DEF Contexts
<1>7. u.state = c.tcp.state  BY <1>1, Numbers DEF forwarded, Session
<1>8. ~Moved(o) => u = c.tcp /\ s = c.srv  BY ForwardNothing
<1>9. Moved(o) =>
        /\ Plain => s.intact
        /\ u.state # "CLOSING" \/ Plain =>
              /\ Fresh(u.forward, u.remote_seq)
              /\ s.next = u.remote_seq + SentAt(u.forward, u.remote_seq)
  BY ForwardMoved
<1>10. (Plain => s.intact) /\ Ahead(c.app)  BY <1>8, <1>9 DEF Kept
<1> HIDE DEF u, s, d, b, x
<1>11. CASE ~o.serr
  <2>1. forward_data(c, o) = d  BY <1>2, <1>11
  <2>2. Moved(o) => Exact(d)  BY <1>5, <1>9 DEF Exact
  <2>3. ~Moved(o) => Kept(d)  BY <1>5, <1>8 DEF Kept
  <2>4. QED  BY <1>5, <1>7, <1>10, <2>1, <2>2, <2>3
<1>12. CASE o.serr
  <2> DEFINE r == write_rst(x)
  <2>1. forward_data(c, o) = r  BY <1>2, <1>12
  <2>2. r.tcp = Reset(u) /\ r.srv = b /\ Ahead(r.app)
    BY <1>6, <1>10, WriteRst, RstAhead
  <2>3. /\ r.tcp.state = "CLOSING" /\ r.tcp.remote_seq = u.remote_seq
        /\ r.tcp.forward = u.forward
    BY <1>3, <1>7, <2>2 DEF Reset, Session, Connected
  <2>4. ~Moved(o) => Kept(x)  BY <1>4, <1>6, <1>8 DEF Kept
  <2>5. ~Moved(o) => Kept(r)  BY <1>6, <1>7, <2>4, RstKept DEF Connected
  <2> HIDE DEF r
  <2>6. Moved(o) => Exact(r)  BY <1>4, <1>9, <2>2, <2>3 DEF Exact
  <2>7. QED  BY <1>4, <1>10, <2>1, <2>2, <2>3, <2>5, <2>6
<1>13. QED  BY <1>11, <1>12

\* Forwarding and its acknowledgment, which counts a FIN that waited behind the
\* data exactly when the last of the data was sent.
LEMMA ForwardAndAckKept ==
    ASSUME NEW c \in Contexts, NEW evs, NEW o \in Oracles, Kept(c), c.tcp.state \in Connected,
           "OUT" \in evs => o.run \subseteq DOMAIN c.tcp.forward /\ SendOutcome(c, o)
    PROVE  Kept(forward_and_ack(c, evs, o))
<1> DEFINE fwd == "OUT" \in evs /\ Moved(o)
           d == IF "OUT" \in evs THEN forward_data(c, o) ELSE c
           e == [d EXCEPT !.tcp.recv_window = get_receive_window(d)]
           confirm == fwd /\ e.tcp.forward = EmptyQueue /\ e.tcp.state = "CLOSE_WAIT"
           x == [e EXCEPT !.tcp.remote_seq = @ + (IF confirm THEN 1 ELSE 0)]
           t == [d.tcp EXCEPT !.recv_window = get_receive_window(d)]
           u == [t EXCEPT !.remote_seq = @ + (IF confirm THEN 1 ELSE 0)]
<1>1. forward_and_ack(c, evs, o) =
        IF fwd \/ (c.tcp.recv_window = 0 /\ e.tcp.recv_window > 0) THEN write_ack(x) ELSE e
  BY DEF forward_and_ack, Moved
<1>2. d \in Contexts  BY ForwardData
<1>3. /\ d.tcp.state \in {c.tcp.state, "CLOSING"}
      /\ (Plain => d.srv.intact) /\ Ahead(d.app)
      /\ IF fwd THEN Exact(d) ELSE Kept(d)
  BY ForwardKept DEF Kept
<1> HIDE DEF d
<1>4. t \in Session /\ t.state = d.tcp.state /\ t.remote_seq = d.tcp.remote_seq /\ t.forward = d.tcp.forward
  <2>1. get_receive_window(d) \in Nat  BY <1>2, WindowType
  <2>2. QED  BY <1>2, <2>1, Numbers DEF Session
<1>5. e \in Contexts /\ e.tcp = t /\ e.srv = d.srv /\ e.app = d.app
  <2>1. e = [d EXCEPT !.tcp = t]  OBVIOUS
  <2> HIDE DEF e, t
  <2>2. QED  BY <1>2, <1>4, <2>1 DEF Contexts
<1> HIDE DEF e, t, fwd
<1>6. /\ u \in Session /\ u.state = t.state /\ u.forward = t.forward
      /\ u.remote_seq = t.remote_seq + (IF confirm THEN 1 ELSE 0)
  BY <1>4 DEF Session
<1>7. x \in Contexts /\ x.tcp = u /\ x.srv = d.srv /\ x.app = d.app
  <2>1. x = [e EXCEPT !.tcp = u]  BY <1>5
  <2> HIDE DEF x, u
  <2>2. QED  BY <1>5, <1>6, <2>1 DEF Contexts
<1> HIDE DEF x, u
<1>8. ~fwd => Kept(e) /\ Kept(x)
  <2>1. ~fwd => u.remote_seq = t.remote_seq  BY <1>4, <1>6 DEF Session
  <2>2. Waiting(t) /\ Waiting(u)  BY <1>3, <1>4, <1>6 DEF Waiting, Connected
  <2>3. QED  BY <1>3, <1>4, <1>5, <1>6, <1>7, <2>1, <2>2 DEF Kept
<1>9. fwd => Kept(x)
  <2> SUFFICES ASSUME fwd PROVE Kept(x)  OBVIOUS
  <2> DEFINE st == d.tcp.state
             n == d.tcp.remote_seq
             f == d.tcp.forward
             y == d.srv.next
  <2>1. st \in Connected /\ n \in Int /\ f \in Queues /\ y \in Int
    BY <1>2, <1>3, Numbers DEF Connected
  <2>2. st # "CLOSING" \/ Plain => Fresh(f, n) /\ y = n + SentAt(f, n)
    BY <1>3 DEF Exact
  <2>3. confirm <=> st = "CLOSE_WAIT" /\ f = EmptyQueue  BY <1>4, <1>5
  <2>4. u.remote_seq = n + (IF st = "CLOSE_WAIT" /\ f = EmptyQueue THEN 1 ELSE 0)
    BY <1>4, <1>6, <2>3
  <2>5. Tally(st, n + (IF st = "CLOSE_WAIT" /\ f = EmptyQueue THEN 1 ELSE 0), f, y)
    <3> HIDE DEF st, n, f, y
    <3>1. QED  BY <2>1, <2>2, TallyConfirms DEF Connected
  <2>6. Waiting(u)  BY <1>3, <1>4, <1>6 DEF Waiting, Connected
  <2>7. QED  BY <1>3, <1>4, <1>6, <1>7, <2>4, <2>5, <2>6 DEF Kept
<1>10. Kept(write_ack(x))
  <2>1. /\ write_ack(x).srv = x.srv
        /\ write_ack(x).tcp \in {x.tcp, [x.tcp EXCEPT !.state = "CLOSING"]}
    BY <1>7, WriteAck
  <2>2. Kept(x) /\ Ahead(x.app)  BY <1>8, <1>9 DEF Kept
  <2>3. Ahead(write_ack(x).app)  BY <1>7, <2>2, WriteAhead
  <2>4. x.tcp.state \in Live \union {"CLOSING"}
    BY <1>3, <1>4, <1>6, <1>7 DEF Connected, Live
  <2>5. QED  BY <1>7, <2>1, <2>2, <2>3, <2>4, ClosedKept
<1>11. QED  BY <1>1, <1>8, <1>10

\* recv(): the FIN to the app is sent only when all its data was forwarded.
LEMMA ReadSocketKept ==
    ASSUME NEW c \in Contexts, NEW o \in Oracles, Kept(c),
           c.tcp.state \in {"ESTABLISHED", "CLOSE_WAIT"}
    PROVE  Kept(read_socket(c, o))
<1>1. CASE o.rd = "err"
  <2>1. read_socket(c, o) = write_rst(c)  BY <1>1 DEF read_socket
  <2>2. QED  BY <2>1, RstKept
<1>2. CASE o.rd = "eof"
  <2> DEFINE s == IF c.tcp.state = "ESTABLISHED" THEN "FIN_WAIT1" ELSE "LAST_ACK"
             w == write_fin_ack(c)
             x == [w EXCEPT !.tcp.local_seq = @ + 1, !.tcp.state = s]
             d == IF c.tcp.forward # EmptyQueue THEN write_rst(c)
                  ELSE IF c.writes = 0 THEN w ELSE x
             r == [d EXCEPT !.tcp.socket = FALSE, !.tcp.registered = FALSE]
  <2>1. read_socket(c, o) = r  BY <1>2, Zenon DEF read_socket
  <2>2. w \in Contexts /\ w.srv = c.srv /\ Ahead(w.app)
    BY WriteFinAck, WriteAhead DEF Kept
  <2>3. CASE c.tcp.forward # EmptyQueue
    <3>1. d = write_rst(c)  BY <2>3
    <3> HIDE DEF d
    <3>2. d \in Contexts /\ Kept(d)  BY <3>1, WriteRst, RstKept
    <3>3. d.tcp \in Session  BY <3>2 DEF Contexts
    <3>4. /\ r.tcp.state = d.tcp.state /\ r.tcp.remote_seq = d.tcp.remote_seq
          /\ r.tcp.forward = d.tcp.forward /\ r.tcp.socks5 = d.tcp.socks5
          /\ r.srv = d.srv /\ r.app = d.app
      BY <3>2, <3>3 DEF Contexts, Session
    <3> HIDE DEF r
    <3>5. Kept(r)  BY <3>2, <3>4 DEF Kept, Waiting
    <3>6. QED  BY <2>1, <3>5
  <2>4. CASE c.tcp.forward = EmptyQueue /\ c.writes = 0
    <3>1. d = w  BY <2>4
    <3>2. w.tcp = [c.tcp EXCEPT !.state = "CLOSING"]  BY <2>4, WriteFinAck
    <3> HIDE DEF d, w
    <3>3. Kept(d)  BY <2>2, <3>1, <3>2, ClosedKept DEF Live
    <3>4. d.tcp \in Session /\ d \in Contexts  BY <2>2, <3>1 DEF Contexts
    <3>5. /\ r.tcp.state = d.tcp.state /\ r.tcp.remote_seq = d.tcp.remote_seq
          /\ r.tcp.forward = d.tcp.forward /\ r.tcp.socks5 = d.tcp.socks5
          /\ r.srv = d.srv /\ r.app = d.app
      BY <3>4 DEF Contexts, Session
    <3> HIDE DEF r
    <3>6. Kept(r)  BY <3>3, <3>5 DEF Kept, Waiting
    <3>7. QED  BY <2>1, <3>6
  <2>5. CASE c.tcp.forward = EmptyQueue /\ c.writes # 0
    <3>1. d = x  BY <2>5
    <3>2. w.tcp = c.tcp  BY <2>5, WriteFinAck
    <3>3. w.tcp \in Session  BY <2>2 DEF Contexts
    <3> HIDE DEF w
    <3>4. /\ r.tcp.state = s /\ r.tcp.remote_seq = w.tcp.remote_seq
          /\ r.tcp.forward = w.tcp.forward /\ r.srv = w.srv /\ r.app = w.app
      BY <2>2, <2>5, <3>3 DEF Contexts, Session
    <3>5. Tally(s, c.tcp.remote_seq, c.tcp.forward, c.srv.next)
      BY <2>5, EmptyDomain, Numbers DEF Kept, Tally, SentAt, Fresh, Live
    <3>6. s # "LISTEN"  OBVIOUS
    <3> HIDE DEF r, s
    <3>7. Kept(r)  BY <2>2, <3>2, <3>4, <3>5, <3>6 DEF Kept, Waiting
    <3>8. QED  BY <2>1, <3>7
  <2>6. QED  BY <2>3, <2>4, <2>5
<1>3. CASE o.rd = "data"
  <2> DEFINE d == [c EXCEPT !.srv.toRead = @ - o.n]
             w == write_data(d, o.n)
             x == [w EXCEPT !.tcp.local_seq = @ + o.n, !.tcp.unconfirmed = @ + 1]
  <2>1. read_socket(c, o) = IF c.writes = 0 THEN w ELSE x
    BY <1>3, Zenon DEF read_socket
  <2>2. /\ d \in Contexts /\ d.tcp = c.tcp /\ d.app = c.app
        /\ d.srv.next = c.srv.next /\ d.srv.intact = c.srv.intact
    <3>1. [c.srv EXCEPT !.toRead = @ - o.n] \in ServerType
      BY Numbers DEF ServerType, Oracles
    <3>2. QED  BY <3>1 DEF Contexts, ServerType
  <2> HIDE DEF d
  <2>3. Kept(d)  BY <2>2 DEF Kept
  <2>4. o.n \in Nat  BY DEF Oracles
  <2>5. /\ w \in Contexts /\ w.srv = d.srv /\ Ahead(w.app)
        /\ w.tcp \in {d.tcp, [d.tcp EXCEPT !.state = "CLOSING"]}
    BY <2>2, <2>3, <2>4, WriteData, WriteAhead DEF Kept
  <2> HIDE DEF w
  <2>6. Kept(w)  BY <2>2, <2>3, <2>5, ClosedKept DEF Live
  <2>7. w.tcp \in Session  BY <2>5 DEF Contexts
  <2>8. /\ x.tcp.state = w.tcp.state /\ x.tcp.remote_seq = w.tcp.remote_seq
        /\ x.tcp.forward = w.tcp.forward /\ x.tcp.socks5 = w.tcp.socks5
        /\ x.srv = w.srv /\ x.app = w.app
    BY <2>5, <2>7 DEF Contexts, Session
  <2> HIDE DEF x
  <2>9. Kept(x)  BY <2>6, <2>8 DEF Kept, Waiting
  <2>10. QED  BY <2>1, <2>6, <2>9
<1>4. QED  BY <1>1, <1>2, <1>3 DEF Oracles

\* What a reply of the proxy leaves to connect: a session still in LISTEN, or one
\* that was reset before it was connected.
LEMMA SocksReplyKept ==
    ASSUME NEW c \in Contexts, NEW o \in Oracles, Kept(c), c.tcp.state = "LISTEN"
    PROVE  LET r == socks_reply(c, o)
           IN  /\ Tally(r.tcp.state, r.tcp.remote_seq, r.tcp.forward, r.srv.next)
               /\ (Plain => r.srv.intact) /\ Ahead(r.app)
               /\ r.tcp.state \in {"LISTEN", "CLOSING"}
               /\ r.tcp.state = "CLOSING" => r.tcp.socks5 # "CONNECTED"
<1> DEFINE to(s) == [c EXCEPT !.tcp.socks5 = s]
           fail == write_rst(to("FAILED"))
           Good(r) == /\ Tally(r.tcp.state, r.tcp.remote_seq, r.tcp.forward, r.srv.next)
                      /\ (Plain => r.srv.intact) /\ Ahead(r.app)
                      /\ r.tcp.state \in {"LISTEN", "CLOSING"}
                      /\ r.tcp.state = "CLOSING" => r.tcp.socks5 # "CONNECTED"
<1>1. c.tcp \in Session  BY Numbers
<1>2. ASSUME NEW s \in Socks
      PROVE  /\ to(s) \in Contexts /\ to(s).tcp.state = "LISTEN" /\ to(s).tcp.socks5 = s
             /\ to(s).tcp.remote_seq = c.tcp.remote_seq /\ to(s).tcp.forward = c.tcp.forward
             /\ to(s).srv = c.srv /\ to(s).app = c.app
  <2>1. to(s) \in Contexts  BY WithSocks
  <2>2. QED  BY <1>1, <2>1 DEF Contexts, Session
<1>3. \A s \in Socks : Good(to(s))
  BY <1>2 DEF Kept
<1>4. ASSUME NEW d \in Contexts, Kept(d), d.tcp.state = "LISTEN"
      PROVE  Good(write_rst(d))
  <2> DEFINE r == write_rst(d)
  <2>1. Kept(r)  BY <1>4, RstKept
  <2>2. r.tcp = Reset(d.tcp)  BY WriteRst
  <2>3. r.tcp.state = "CLOSING" /\ r.tcp.socks5 = d.tcp.socks5
    BY <1>4, <2>2, Numbers DEF Reset, Session
  <2>4. d.tcp.socks5 # "CONNECTED"  BY <1>4 DEF Kept, Waiting
  <2> HIDE DEF r
  <2>5. Good(r)  BY <2>1, <2>3, <2>4 DEF Kept
  <2>6. QED  BY <2>5 DEF r
<1>5. Good(fail)
  <2> DEFINE d == to("FAILED")
  <2>1. "FAILED" \in Socks  BY DEF Socks
  <2>2. d \in Contexts /\ d.tcp.state = "LISTEN" /\ Kept(d)
    BY <1>2, <2>1 DEF Kept, Waiting
  <2> HIDE DEF d, Good
  <2>3. Good(write_rst(d))  BY <1>4, <2>2
  <2>4. QED  BY <2>3 DEF d
<1>6. Good(write_rst(c))  BY <1>4
<1>7. socks_reply(c, o) \in {write_rst(c), fail, to("AUTH"), to("CONNECTED"), to("CONNECT")}
  BY DEF socks_reply, Oracles
<1> HIDE DEF fail, to, Good
<1>8. Good(socks_reply(c, o))  BY <1>3, <1>5, <1>6, <1>7 DEF Socks
<1>9. QED  BY <1>8 DEF Good

\* Connecting: the SYN is counted once, when it is acknowledged.
LEMMA ConnectKept ==
    ASSUME NEW c \in Contexts, NEW evs, NEW o \in Oracles, Kept(c), c.tcp.state = "LISTEN"
    PROVE  Kept(connect(c, evs, o))
<1> DEFINE s1 == IF Socks5 THEN "HELLO" ELSE "CONNECTED"
           h == [c EXCEPT !.tcp.socks5 = s1]
           a == [c EXCEPT !.srv.socks = "idle"]
           d == IF c.tcp.socks5 = "NONE"
                THEN IF "OUT" \in evs THEN h ELSE c
                ELSE IF "IN" \in evs THEN socks_reply(a, o) ELSE c
           syn == [d EXCEPT !.tcp.remote_seq = @ + 1]
           asked == [d EXCEPT !.srv.socks = "asked"]
           broken == [d EXCEPT !.srv.err = TRUE]
           w == write_syn_ack(syn)
           x == [w EXCEPT !.tcp.local_seq = @ + 1, !.tcp.state = "SYN_RECV"]
<1>1. \/ d.tcp.socks5 \in {"HELLO", "AUTH", "CONNECT"} /\ connect(c, evs, o) \in {asked, write_rst(broken)}
      \/ d.tcp.socks5 = "CONNECTED" /\ connect(c, evs, o) = IF d.writes = 0 THEN w ELSE x
      \/ d.tcp.socks5 \notin {"HELLO", "AUTH", "CONNECT", "CONNECTED"} /\ connect(c, evs, o) = d
  <2>1. connect(c, evs, o) =
          CASE d.tcp.socks5 \in {"HELLO", "AUTH", "CONNECT"} ->
                 IF o.sok THEN asked ELSE write_rst(broken)
            [] d.tcp.socks5 = "CONNECTED" -> IF d.writes = 0 THEN w ELSE x
            [] OTHER -> d
    BY Zenon DEF connect
  <2> HIDE DEF d, asked, broken, w, x
  <2>2. QED  BY <2>1
<1> DEFINE Good(r) == /\ Tally(r.tcp.state, r.tcp.remote_seq, r.tcp.forward, r.srv.next)
                      /\ (Plain => r.srv.intact) /\ Ahead(r.app)
                      /\ r.tcp.state \in {"LISTEN", "CLOSING"}
                      /\ r.tcp.state = "CLOSING" => r.tcp.socks5 # "CONNECTED"
<1>2. d \in Contexts /\ Good(d)
  <2>1. h \in Contexts /\ Good(h)
    <3>1. s1 \in Socks  BY DEF Socks
    <3> HIDE DEF s1
    <3>2. h \in Contexts  BY <3>1, WithSocks
    <3>3. /\ h.tcp.state = "LISTEN" /\ h.tcp.remote_seq = c.tcp.remote_seq
          /\ h.tcp.forward = c.tcp.forward /\ h.srv = c.srv /\ h.app = c.app
      BY Numbers DEF Contexts, Session
    <3> HIDE DEF h
    <3>4. QED  BY <3>2, <3>3 DEF Kept
  <2>2. a \in Contexts /\ a.tcp = c.tcp /\ Kept(a)
    <3>1. [c.srv EXCEPT !.socks = "idle"] \in ServerType  BY DEF Contexts, ServerType
    <3>2. /\ a \in Contexts /\ a.tcp = c.tcp /\ a.app = c.app
          /\ a.srv.next = c.srv.next /\ a.srv.intact = c.srv.intact
      BY <3>1, Numbers DEF Contexts, ServerType
    <3> HIDE DEF a
    <3>3. QED  BY <3>2 DEF Kept
  <2> HIDE DEF a, h
  <2>3. socks_reply(a, o) \in Contexts /\ Good(socks_reply(a, o))
    BY <2>2, SocksReply, SocksReplyKept
  <2>4. Good(c)  BY DEF Kept
  <2> HIDE DEF Good
  <2>5. QED  BY <2>1, <2>3, <2>4
<1> HIDE DEF d
<1>3. d.tcp \in Session /\ d.srv \in ServerType /\ d.tcp.remote_seq \in Int /\ d.srv.next \in Int
  BY <1>2, Numbers
<1>4. CASE d.tcp.socks5 # "CONNECTED"
  <2>1. Kept(d) /\ d.tcp.state # "NONE"  BY <1>2, <1>4 DEF Kept, Waiting
  <2>2. Kept(asked)
    <3>1. /\ asked.tcp = d.tcp /\ asked.app = d.app
          /\ asked.srv.next = d.srv.next /\ asked.srv.intact = d.srv.intact
      BY <1>2, <1>3 DEF Contexts, ServerType
    <3> HIDE DEF asked
    <3>2. QED  BY <2>1, <3>1 DEF Kept
  <2>3. broken \in Contexts /\ Kept(broken) /\ broken.tcp = d.tcp
    <3>1. [d.srv EXCEPT !.err = TRUE] \in ServerType  BY <1>3 DEF ServerType
    <3>2. /\ broken \in Contexts /\ broken.tcp = d.tcp /\ broken.app = d.app
          /\ broken.srv.next = d.srv.next /\ broken.srv.intact = d.srv.intact
      BY <1>2, <1>3, <3>1 DEF Contexts, ServerType
    <3> HIDE DEF broken
    <3>3. QED  BY <2>1, <3>2 DEF Kept
  <2> HIDE DEF broken, asked
  <2>4. Kept(write_rst(broken))  BY <2>1, <2>3, RstKept
  <2>5. QED  BY <1>1, <1>4, <2>1, <2>2, <2>4
<1>5. CASE d.tcp.socks5 = "CONNECTED"
  <2>1. d.tcp.state = "LISTEN"  BY <1>2, <1>5
  <2> DEFINE t == [d.tcp EXCEPT !.remote_seq = @ + 1]
  <2>2. t \in Session  BY <1>3 DEF Session
  <2>3. /\ syn \in Contexts /\ syn.tcp.state = "LISTEN" /\ syn.tcp.forward = d.tcp.forward
        /\ syn.tcp.remote_seq = d.tcp.remote_seq + 1 /\ syn.srv = d.srv /\ syn.app = d.app
        /\ syn.writes = d.writes
    <3>1. syn = [d EXCEPT !.tcp = t]  OBVIOUS
    <3>2. QED  BY <1>2, <1>3, <2>1, <2>2, <3>1 DEF Contexts, Session
  <2>4. /\ Tally("SYN_RECV", d.tcp.remote_seq + 1, d.tcp.forward, d.srv.next)
        /\ Tally("CLOSING", d.tcp.remote_seq + 1, d.tcp.forward, d.srv.next)
    <3>1. \A q \in DOMAIN d.tcp.forward : d.tcp.forward[q].sent = 0
      BY <1>2, <2>1 DEF Tally, Fresh, SentAt, Live
    <3>2. d.srv.next = d.tcp.remote_seq + 1  BY <1>2, <2>1 DEF Tally
    <3>3. QED  BY <1>3, <3>1, <3>2 DEF Tally, Fresh, SentAt, Live
  <2> HIDE DEF syn, t
  <2>5. w \in Contexts /\ w.srv = d.srv /\ Ahead(w.app)
    BY <1>2, <2>3, WriteSynAck, WriteAhead, 0 \in Nat
  <2>6. CASE d.writes = 0
    <3>1. w.tcp = [syn.tcp EXCEPT !.state = "CLOSING"]  BY <2>3, <2>6, WriteSynAck
    <3>2. syn.tcp \in Session  BY <2>3, Numbers
    <3> HIDE DEF w
    <3>3. /\ w.tcp.state = "CLOSING" /\ w.tcp.remote_seq = d.tcp.remote_seq + 1
          /\ w.tcp.forward = d.tcp.forward
      BY <2>3, <3>1, <3>2 DEF Session
    <3>4. Kept(w)  BY <1>2, <2>4, <2>5, <3>3 DEF Kept, Waiting
    <3>5. QED  BY <1>1, <1>5, <2>6, <3>4 DEF w
  <2>7. CASE d.writes # 0
    <3>1. w.tcp = syn.tcp  BY <2>3, <2>7, WriteSynAck
    <3>2. w.tcp \in Session  BY <2>5, Numbers
    <3> HIDE DEF w
    <3>3. /\ x.tcp.state = "SYN_RECV" /\ x.tcp.remote_seq = d.tcp.remote_seq + 1
          /\ x.tcp.forward = d.tcp.forward /\ x.srv = d.srv /\ x.app = w.app
      BY <2>3, <2>5, <3>1, <3>2 DEF Contexts, Session
    <3> HIDE DEF x
    <3>4. Kept(x)  BY <1>2, <2>4, <2>5, <3>3 DEF Kept, Waiting
    <3>5. QED  BY <1>1, <1>5, <2>7, <3>4 DEF x, w
  <2>8. QED  BY <2>6, <2>7
<1>6. QED  BY <1>4, <1>5

\* check_tcp_socket, on a session with its socket.
LEMMA CheckTcpSocketKept ==
    ASSUME NEW c \in Contexts, NEW evs, NEW o \in Oracles, Kept(c),
           Sound(c.tcp), c.tcp.socket,
           /\ "ERR" \notin evs /\ c.tcp.state # "LISTEN" /\ "OUT" \in evs
           => o.run \subseteq DOMAIN c.tcp.forward /\ SendOutcome(c, o)
    PROVE  Kept(check_tcp_socket(c, evs, o))
<1>1. c.tcp.state \in Connected \union {"LISTEN"}
  BY Numbers DEF Sound, States, Live, Connected
<1>2. CASE "ERR" \in evs
  BY <1>1, <1>2, RstKept DEF check_tcp_socket, Connected
<1>3. CASE "ERR" \notin evs /\ c.tcp.state = "LISTEN"
  BY <1>3, ConnectKept DEF check_tcp_socket
<1>4. CASE "ERR" \notin evs /\ c.tcp.state # "LISTEN"
  <2> DEFINE d == forward_and_ack(c, evs, o)
  <2>1. check_tcp_socket(c, evs, o) = IF reads(d, evs) THEN read_socket(d, o) ELSE d
    BY <1>4 DEF check_tcp_socket
  <2>2. d \in Contexts /\ Kept(d)  BY <1>1, <1>4, ForwardAndAck, ForwardAndAckKept
  <2> HIDE DEF d
  <2>3. reads(d, evs) => d.tcp.state \in {"ESTABLISHED", "CLOSE_WAIT"}  BY DEF reads
  <2>4. QED  BY <2>1, <2>2, <2>3, ReadSocketKept
<1>5. QED  BY <1>2, <1>3, <1>4

-----------------------------------------------------------------------------
(* handle_tcp *)

\* queue_tcp, with new data and with data that is queued or forwarded already.
LEMMA QueueKept ==
    ASSUME NEW c \in Contexts, Kept(c), c.tcp.state \in {"LISTEN", "SYN_RECV", "ESTABLISHED"},
           NEW p \in Packet, p.len > 0, Proper(p), NEW d \in Contexts,
           d.tcp = queue_tcp(c.tcp, p), d.srv = c.srv, d.app = c.app
    PROVE  Kept(d)
<1> DEFINE t == c.tcp
           f == t.forward
           k == p.seq
           seg == IF k \in DOMAIN f THEN [f[k] EXCEPT !.len = p.len]
                  ELSE [len |-> p.len, sent |-> 0]
           g == [q \in DOMAIN f \union {k} |-> IF q = k THEN seg ELSE f[q]]
<1>1. t \in Session /\ f \in Queues /\ t.remote_seq \in Int /\ c.srv.next \in Int  BY Numbers
<1>2. CASE k < t.remote_seq
  <2>1. d.tcp = t  BY <1>2 DEF queue_tcp
  <2>2. QED  BY <2>1 DEF Kept
<1>3. CASE ~(k < t.remote_seq)
  <2>1. d.tcp = [t EXCEPT !.forward = g]  BY <1>3 DEF queue_tcp
  <2>2. /\ d.tcp.forward = g /\ d.tcp.state = t.state /\ d.tcp.remote_seq = t.remote_seq
        /\ d.tcp.socks5 = t.socks5
    BY <1>1, <2>1 DEF Session
  <2>3. g \in Queues  BY <2>2, Numbers
  <2>4. k \in Nat /\ (Plain => k > RemoteStart)  BY DEF Packet, Proper
  <2>5. /\ DOMAIN g = DOMAIN f \union {k}
        /\ \A q \in DOMAIN f : g[q].sent = f[q].sent
        /\ k \notin DOMAIN f => g[k].sent = 0
    <3>1. \A q \in DOMAIN f : f[q] \in Segment  BY <1>1, QueueFacts
    <3>2. k \in DOMAIN f => seg.sent = f[k].sent  BY <3>1 DEF Segment
    <3>3. k \notin DOMAIN f => seg.sent = 0  OBVIOUS
    <3> HIDE DEF seg
    <3>4. QED  BY <3>2, <3>3
  <2> HIDE DEF g
  <2>6. Tally(t.state, t.remote_seq, f, c.srv.next)  BY DEF Kept
  <2>7. Tally(t.state, t.remote_seq, g, c.srv.next)
    <3> HIDE DEF f, k, t
    <3>1. t.state \in {"LISTEN", "SYN_RECV", "ESTABLISHED"}  BY DEF t
    <3>2. QED  BY <1>1, <2>3, <2>4, <2>5, <2>6, <3>1, TallyQueues
  <2>8. QED  BY <2>2, <2>7 DEF Kept, Waiting
<1>4. QED  BY <1>2, <1>3

\* A FIN of the app is counted at once only if all data was forwarded.
LEMMA HandleFinKept ==
    ASSUME NEW c \in Contexts, Kept(c)
    PROVE  Kept(handle_fin(c))
<1> DEFINE t == [c.tcp EXCEPT !.remote_seq = @ + 1]
           counted == [c EXCEPT !.tcp.remote_seq = @ + 1]
           w == write_ack(counted)
           to(s) == IF c.writes = 0 THEN w ELSE [w EXCEPT !.tcp.state = s]
           q == [c EXCEPT !.tcp.state = "CLOSE_WAIT"]
           n == c.tcp.remote_seq
           f == c.tcp.forward
           x == c.srv.next
<1>1. c.tcp \in Session /\ n \in Int /\ f \in Queues /\ x \in Int  BY Numbers
<1>2. handle_fin(c) =
        IF c.tcp.state = "ESTABLISHED"
        THEN IF f = EmptyQueue THEN to("CLOSE_WAIT") ELSE q
        ELSE IF c.tcp.state = "FIN_WAIT1" THEN to("CLOSE") ELSE c
  BY DEF handle_fin
<1>3. /\ counted \in Contexts /\ counted.tcp = t /\ counted.srv = c.srv
      /\ counted.app = c.app /\ counted.writes = c.writes
  <2>1. t \in Session  BY <1>1 DEF Session
  <2>2. counted = [c EXCEPT !.tcp = t]  OBVIOUS
  <2> HIDE DEF t, counted
  <2>3. QED  BY <2>1, <2>2 DEF Contexts
<1>4. t.remote_seq = n + 1 /\ t.forward = f  BY <1>1 DEF Session
<1> HIDE DEF counted, t
<1>5. /\ w \in Contexts /\ w.srv = c.srv /\ Ahead(w.app)
      /\ w.tcp.remote_seq = n + 1 /\ w.tcp.forward = f
      /\ c.writes = 0 => w.tcp.state = "CLOSING"
  <2>1. w \in Contexts /\ w.srv = c.srv /\ Ahead(w.app)
    BY <1>3, WriteAck, WriteAhead, 0 \in Nat DEF Kept
  <2>2. /\ c.writes # 0 => w.tcp = t
        /\ c.writes = 0 => w.tcp = [t EXCEPT !.state = "CLOSING"]
    BY <1>3, WriteAck
  <2>3. t \in Session  BY <1>3, Numbers
  <2> HIDE DEF w
  <2>4. QED  BY <1>4, <2>1, <2>2, <2>3 DEF Session
<1> HIDE DEF w
<1>6. ASSUME NEW s \in {"CLOSE_WAIT", "CLOSE"}, f = EmptyQueue,
             s = "CLOSE_WAIT" => x = n
      PROVE  Kept(to(s))
  <2>1. /\ to(s).srv = c.srv /\ Ahead(to(s).app) /\ to(s).tcp.remote_seq = n + 1
        /\ to(s).tcp.forward = f
        /\ to(s).tcp.state = IF c.writes = 0 THEN "CLOSING" ELSE s
    BY <1>5 DEF Contexts, Session
  <2>2. /\ Tally(s, n + 1, f, x) /\ Tally("CLOSING", n + 1, f, x)
    BY <1>1, <1>6, EmptyDomain DEF Tally, Fresh, SentAt, Live
  <2> HIDE DEF to
  <2>3. QED  BY <1>6, <2>1, <2>2 DEF Kept, Waiting
<1>7. CASE c.tcp.state = "ESTABLISHED"
  <2>1. CASE f = EmptyQueue
    <3>1. x = n  BY <1>1, <1>7, <2>1, EmptyDomain DEF Kept, Tally, SentAt
    <3>2. handle_fin(c) = to("CLOSE_WAIT")  BY <1>2, <1>7, <2>1
    <3> HIDE DEF to
    <3>3. QED  BY <1>6, <2>1, <3>1, <3>2
  <2>2. CASE f # EmptyQueue
    <3>1. handle_fin(c) = q  BY <1>2, <1>7, <2>2
    <3>2. /\ q.tcp.state = "CLOSE_WAIT" /\ q.tcp.remote_seq = n /\ q.tcp.forward = f
          /\ q.srv = c.srv /\ q.app = c.app
      BY <1>1 DEF Contexts, Session
    <3> HIDE DEF q
    <3>3. Tally("CLOSE_WAIT", n, f, x)  BY <1>7, <2>2 DEF Kept, Tally, Live
    <3>4. QED  BY <3>1, <3>2, <3>3 DEF Kept, Waiting
  <2>3. QED  BY <2>1, <2>2
<1>8. CASE c.tcp.state = "FIN_WAIT1"
  <2>1. f = EmptyQueue  BY <1>8 DEF Kept, Tally
  <2>2. handle_fin(c) = to("CLOSE")  BY <1>2, <1>8
  <2> HIDE DEF to
  <2>3. QED  BY <1>6, <2>1, <2>2
<1>9. CASE c.tcp.state \notin {"ESTABLISHED", "FIN_WAIT1"}  BY <1>2, <1>9
<1>10. QED  BY <1>7, <1>8, <1>9

\* An acknowledgment.
LEMMA HandleAckKept ==
    ASSUME NEW c \in Contexts, NEW p \in Packet, Kept(c)
    PROVE  Kept(handle_ack(c, p))
<1> DEFINE d == handle_ack(c, p)
           st == c.tcp.state
<1>1. /\ d.tcp.state = IF st = "SYN_RECV" THEN "ESTABLISHED"
                       ELSE IF st = "LAST_ACK" THEN "CLOSING" ELSE st
      /\ d.tcp.remote_seq = c.tcp.remote_seq /\ d.tcp.forward = c.tcp.forward
      /\ d.tcp.socks5 = c.tcp.socks5 /\ d.srv = c.srv /\ d.app = c.app
  BY Numbers DEF handle_ack, Contexts, Session
<1> HIDE DEF d
<1>2. CASE st = "SYN_RECV"
  <2>1. Tally("ESTABLISHED", c.tcp.remote_seq, c.tcp.forward, c.srv.next)
    BY <1>2 DEF Kept, Tally, Live
  <2>2. Kept(d)  BY <1>1, <1>2, <2>1 DEF Kept, Waiting
  <2>3. QED  BY <2>2 DEF d
<1>3. CASE st = "LAST_ACK"
  <2>1. Tally("CLOSING", c.tcp.remote_seq, c.tcp.forward, c.srv.next)
    BY <1>3, Numbers, TallyCloses DEF Kept, Live
  <2>2. Kept(d)  BY <1>1, <1>3, <2>1 DEF Kept, Waiting
  <2>3. QED  BY <2>2 DEF d
<1>4. CASE st \notin {"SYN_RECV", "LAST_ACK"}
  <2>1. Kept(d)  BY <1>1, <1>4 DEF Kept, Waiting
  <2>2. QED  BY <2>1 DEF d
<1>5. QED  BY <1>2, <1>3, <1>4

\* The flags of a packet for a live session.
LEMMA HandleFlagsKept ==
    ASSUME NEW c \in Contexts, NEW p \in Packet, Kept(c), c.tcp.state \in Live
    PROVE  Kept(handle_flags(c, p))
<1> DEFINE r == [c EXCEPT !.tcp.state = "CLOSING"]
           a == [c EXCEPT !.tcp.acked = IF p.ack <= @ THEN @ ELSE p.ack]
<1>1. handle_flags(c, p) \in {r, c, handle_fin(c), handle_ack(c, p), write_rst(c), a}
  BY DEF handle_flags
<1>2. Kept(r)
  <2>1. r.tcp = [c.tcp EXCEPT !.state = "CLOSING"] /\ r.srv = c.srv /\ r.app = c.app
    BY DEF Contexts
  <2> HIDE DEF r
  <2>2. Ahead(r.app)  BY <2>1 DEF Kept
  <2>3. QED  BY <2>1, <2>2, ClosedKept
<1>3. Kept(a)
  <2>1. /\ a.tcp.state = c.tcp.state /\ a.tcp.remote_seq = c.tcp.remote_seq
        /\ a.tcp.forward = c.tcp.forward /\ a.tcp.socks5 = c.tcp.socks5
        /\ a.srv = c.srv /\ a.app = c.app
    BY Numbers DEF Contexts, Session
  <2> HIDE DEF a
  <2>2. QED  BY <2>1 DEF Kept, Waiting
<1> HIDE DEF r, a
<1>4. QED  BY <1>1, <1>2, <1>3, HandleFinKept, HandleAckKept, RstKept DEF Live

\* A packet for a session that exists.  Data is queued only in the states in
\* which Tally allows it: the others have no socket, or the app has sent its FIN.
LEMMA HandleSessionKept ==
    ASSUME NEW c \in Contexts, NEW p \in Packet, Proper(p), Kept(c), Sound(c.tcp),
           c.tcp.state # "NONE"
    PROVE  Kept(handle_session(c, p))
<1> DEFINE t == [c.tcp EXCEPT !.send_window = p.win, !.unconfirmed = 0]
           d == [c EXCEPT !.tcp.send_window = p.win, !.tcp.unconfirmed = 0]
           e == [d EXCEPT !.tcp = queue_tcp(@, p)]
<1>1. CASE c.tcp.state \in {"CLOSING", "CLOSE"}
  <2>1. handle_session(c, p) = write_rst(c)  BY <1>1 DEF handle_session
  <2>2. QED  BY <1>1, <2>1, RstKept
<1>2. CASE c.tcp.state \notin {"CLOSING", "CLOSE"}
  <2>1. c.tcp \in Session /\ c.tcp.state \in Live  BY <1>2, Numbers DEF States
  <2>2. handle_session(c, p) =
          IF p.len > 0 /\ (~c.tcp.socket \/ c.tcp.state = "CLOSE_WAIT") THEN write_rst(d)
          ELSE IF p.len > 0 THEN handle_flags(e, p) ELSE handle_flags(d, p)
    BY <1>2 DEF handle_session
  <2>3. /\ t \in Session /\ t.state = c.tcp.state /\ t.remote_seq = c.tcp.remote_seq
        /\ t.forward = c.tcp.forward /\ t.socks5 = c.tcp.socks5
    BY <2>1 DEF Session, Packet
  <2>4. d = [c EXCEPT !.tcp = t]  OBVIOUS
  <2> HIDE DEF d, t
  <2>5. d \in Contexts /\ d.tcp = t /\ d.srv = c.srv /\ d.app = c.app
    BY <2>3, <2>4 DEF Contexts
  <2>6. Kept(d)  BY <2>3, <2>5 DEF Kept, Waiting
  <2>7. CASE p.len > 0 /\ (~c.tcp.socket \/ c.tcp.state = "CLOSE_WAIT")
    BY <2>2, <2>3, <2>5, <2>6, <2>7, RstKept
  <2>8. CASE p.len > 0 /\ c.tcp.socket /\ c.tcp.state # "CLOSE_WAIT"
    <3> DEFINE u == queue_tcp(t, p)
    <3>1. c.tcp.state \in {"LISTEN", "SYN_RECV", "ESTABLISHED"}
      BY <2>1, <2>8 DEF Sound, Live
    <3>2. u \in Session /\ u.state = t.state  BY <2>3, <2>8, QueueTcp
    <3>3. e = [d EXCEPT !.tcp = u]  BY <2>5
    <3> HIDE DEF u, e
    <3>4. e \in Contexts /\ e.tcp = u /\ e.srv = d.srv /\ e.app = d.app
      BY <2>5, <3>2, <3>3 DEF Contexts
    <3>5. Kept(e)  BY <2>3, <2>5, <2>6, <2>8, <3>1, <3>4, QueueKept DEF u
    <3>6. handle_session(c, p) = handle_flags(e, p)  BY <2>2, <2>8
    <3>7. QED  BY <2>1, <2>3, <3>2, <3>4, <3>5, <3>6, HandleFlagsKept
  <2>9. CASE ~(p.len > 0)
    <3>1. handle_session(c, p) = handle_flags(d, p)  BY <2>2, <2>9
    <3>2. QED  BY <2>1, <2>3, <2>5, <2>6, <3>1, HandleFlagsKept
  <2>10. QED  BY <2>7, <2>8, <2>9
<1>3. QED  BY <1>1, <1>2

\* handle_tcp: a new session expects the byte behind the SYN.
LEMMA HandleTcpKept ==
    ASSUME NEW c \in Contexts, NEW p \in Packet, NEW open \in BOOLEAN, Proper(p), Kept(c),
           Sound(c.tcp)
    PROVE  Kept(handle_tcp(c, p, open))
<1>1. CASE c.tcp.state # "NONE"  BY <1>1, HandleSessionKept DEF handle_tcp
<1>2. CASE c.tcp.state = "NONE"
  <2> DEFINE t == [c.tcp EXCEPT !.local_seq = p.ack]
             x == [c EXCEPT !.tcp.local_seq = p.ack]
             r == [write_rst(x) EXCEPT !.tcp = c.tcp]
             n == Created(c, p)
             m == n.tcp
  <2>1. /\ handle_tcp(c, p, open) \in {r, n, c}
        /\ handle_tcp(c, p, open) = n \/ handle_tcp(c, p, open) \in {r, c}
        /\ "SYN" \notin p.flags => handle_tcp(c, p, open) = r
    BY <1>2 DEF handle_tcp, handle_unknown, Created
  <2>2. Kept(r)
    <3>1. t \in Session  BY Numbers DEF Session, Packet
    <3>2. x = [c EXCEPT !.tcp = t]  OBVIOUS
    <3> HIDE DEF t, x
    <3>3. x \in Contexts /\ x.srv = c.srv /\ x.app = c.app  BY <3>1, <3>2 DEF Contexts
    <3>4. /\ write_rst(x) \in Contexts /\ write_rst(x).srv = c.srv
          /\ Ahead(write_rst(x).app)
      BY <3>3, WriteRst, RstAhead DEF Kept
    <3>5. r.tcp = c.tcp /\ r.srv = c.srv /\ r.app = write_rst(x).app
      BY <3>4 DEF Contexts
    <3> HIDE DEF r
    <3>6. QED  BY <3>4, <3>5 DEF Kept
  <2>3. CASE "SYN" \in p.flags
    <3>1. p.seq = RemoteStart /\ RemoteStart \in Nat /\ p.len \in Nat
      BY <2>3, TcpAssumption DEF TcpAssumption, Proper, Packet
    <3>2. Plain => p.len = 0  BY <3>1 DEF Proper
    <3> DEFINE f == IF p.len = 0 THEN EmptyQueue
                    ELSE [q \in {p.seq} |-> [len |-> p.len, sent |-> 0]]
    <3>3. /\ m.state = "LISTEN" /\ m.remote_seq = RemoteStart /\ m.socks5 = "NONE"
          /\ m.forward = f
      <4>1. /\ new_session(p).remote_seq = p.seq /\ new_session(p).socks5 = "NONE"
            /\ new_session(p).forward = f
        BY DEF new_session
      <4> HIDE DEF f
      <4>2. /\ m.state = "LISTEN" /\ m.remote_seq = new_session(p).remote_seq
            /\ m.socks5 = new_session(p).socks5 /\ m.forward = new_session(p).forward
        BY CreatedFacts
      <4> HIDE DEF m
      <4>3. QED  BY <3>1, <4>1, <4>2
    <3>4. \A q \in DOMAIN f : f[q].sent = 0  BY EmptyDomain
    <3>5. p.len = 0 => DOMAIN f = {}  BY EmptyDomain
    <3> HIDE DEF f
    <3>6. Tally("LISTEN", RemoteStart, f, RemoteStart + 1)
      BY <3>2, <3>4, <3>5 DEF Tally, Fresh, SentAt
    <3>7. n.srv = NewServer /\ n.app = c.app  BY CreatedFacts
    <3>8. NewServer.next = RemoteStart + 1 /\ NewServer.intact  BY DEF NewServer
    <3> HIDE DEF n
    <3>9. Kept(n)  BY <3>3, <3>6, <3>7, <3>8 DEF Kept, Waiting
    <3> HIDE DEF r
    <3>10. QED  BY <2>1, <2>2, <3>9
  <2>4. CASE "SYN" \notin p.flags
    <3> HIDE DEF r, n
    <3>1. QED  BY <2>1, <2>2, <2>4
  <2>5. QED  BY <2>3, <2>4
<1>3. QED  BY <1>1, <1>2

-----------------------------------------------------------------------------
(* The loop *)

\* The probe one below remote_seq is gone when it returns.
LEMMA KeepAliveKept ==
    ASSUME NEW c \in Contexts, Kept(c), c.tcp.state \in Live
    PROVE  Kept(keep_alive(c))
<1> DEFINE t == [c.tcp EXCEPT !.remote_seq = @ - 1]
           d == [c EXCEPT !.tcp.remote_seq = @ - 1]
           w == write_ack(d)
           r == [w EXCEPT !.tcp.remote_seq = @ + 1]
<1>1. keep_alive(c) = r  BY DEF keep_alive
<1>2. c.tcp \in Session /\ c.tcp.remote_seq \in Int  BY Numbers
<1>3. /\ t \in Session /\ t.remote_seq = c.tcp.remote_seq - 1 /\ t.state = c.tcp.state
      /\ t.forward = c.tcp.forward /\ t.socks5 = c.tcp.socks5
  BY <1>2 DEF Session
<1>4. d = [c EXCEPT !.tcp = t]  OBVIOUS
<1> HIDE DEF t, d
<1>5. d \in Contexts /\ d.tcp = t /\ d.srv = c.srv /\ d.app = c.app
  BY <1>3, <1>4 DEF Contexts
<1>6. /\ w \in Contexts /\ w.srv = c.srv /\ Ahead(w.app)
      /\ w.tcp \in {t, [t EXCEPT !.state = "CLOSING"]}
  BY <1>5, WriteAck, WriteAhead, 0 \in Nat DEF Kept
<1> HIDE DEF w
<1>7. /\ w.tcp.state \in {c.tcp.state, "CLOSING"} /\ w.tcp.forward = c.tcp.forward
      /\ w.tcp.remote_seq = c.tcp.remote_seq - 1 /\ w.tcp.socks5 = c.tcp.socks5
  BY <1>3, <1>6 DEF Session
<1>8. w.tcp \in Session  BY <1>6, Numbers
<1>9. /\ r.tcp.state = w.tcp.state /\ r.tcp.forward = w.tcp.forward
      /\ r.tcp.remote_seq = w.tcp.remote_seq + 1 /\ r.tcp.socks5 = w.tcp.socks5
      /\ r.srv = c.srv /\ r.app = w.app
  BY <1>6, <1>8 DEF Contexts, Session
<1> HIDE DEF r
<1>10. r.tcp.remote_seq = c.tcp.remote_seq  BY <1>2, <1>7, <1>9
<1>11. Tally("CLOSING", c.tcp.remote_seq, c.tcp.forward, c.srv.next)
  BY Numbers, TallyCloses DEF Kept
<1>12. Kept(r)  BY <1>6, <1>7, <1>9, <1>10, <1>11 DEF Kept, Waiting
<1>13. QED  BY <1>1, <1>12

\* monitor_tcp_session, also if epoll_ctl fails.
LEMMA MonitorKept ==
    ASSUME NEW c \in Contexts, NEW probe \in BOOLEAN, Kept(c), Sound(c.tcp)
    PROVE  Kept(monitor_tcp_session(c, probe))
<1> DEFINE t == c.tcp
           evs == interest(c)
           d == IF /\ probe /\ t.state \in {"ESTABLISHED", "CLOSE_WAIT"}
                   /\ get_send_window(t) = 0
                THEN keep_alive(c) ELSE c
           s == IF t.registered THEN d.tcp.state ELSE "CLOSING"
           r == [d EXCEPT !.tcp.events = evs,
                          !.tcp.state = IF t.registered THEN @ ELSE "CLOSING"]
<1>1. monitor_tcp_session(c, probe) = IF ~t.socket THEN c ELSE IF evs = t.events THEN d ELSE r
  BY DEF monitor_tcp_session
<1>2. d \in Contexts /\ Kept(d) /\ Stays(t, d.tcp)
  <2>1. Stays(t, t)  BY DEF Stays
  <2>2. QED  BY <2>1, KeepAlive, KeepAliveKept DEF Live
<1> HIDE DEF d, evs
<1>3. d.tcp \in Session  BY <1>2, Numbers
<1>4. /\ r.tcp.state = s /\ r.tcp.remote_seq = d.tcp.remote_seq
      /\ r.tcp.forward = d.tcp.forward /\ r.tcp.socks5 = d.tcp.socks5
      /\ r.srv = d.srv /\ r.app = d.app
  BY <1>2, <1>3 DEF Contexts, Session
<1>5. t.socket => Kept(r)
  <2> SUFFICES ASSUME t.socket PROVE Kept(r)  OBVIOUS
  <2>1. d.tcp.state \in Live \union {"CLOSING"}
    BY <1>2, Numbers DEF Stays, Sound, States, Live
  <2>2. Tally("CLOSING", d.tcp.remote_seq, d.tcp.forward, d.srv.next)
    BY <1>2, <2>1, Numbers, TallyCloses DEF Kept
  <2> HIDE DEF r
  <2>3. QED  BY <1>2, <1>4, <2>2 DEF Kept, Waiting
<1> HIDE DEF r
<1>6. QED  BY <1>1, <1>2, <1>5

\* check_tcp_session.
LEMMA CheckSessionKept ==
    ASSUME NEW c \in Contexts, NEW idle \in BOOLEAN, NEW gone \in BOOLEAN, Kept(c)
    PROVE  Kept(check_tcp_session(c, idle, gone))
<1> DEFINE l == [c EXCEPT !.tcp.state = "CLOSING"]
           d == IF idle /\ c.tcp.state \in Live
                THEN IF c.tcp.state = "LISTEN" THEN l ELSE write_rst(c)
                ELSE c
           z == [d EXCEPT !.tcp.socket = FALSE, !.tcp.registered = FALSE,
                          !.tcp.state = "CLOSE"]
           n == [c EXCEPT !.tcp = NoSession]
<1>1. check_tcp_session(c, idle, gone) =
        IF c.tcp.state = "CLOSE" /\ gone THEN n
        ELSE IF d.tcp.state # "CLOSING" THEN d ELSE z
  BY DEF check_tcp_session
<1>2. Kept(n)
  <2>1. n.tcp.state = "NONE" /\ n.srv = c.srv /\ n.app = c.app
    BY DEF Contexts, NoSession
  <2> HIDE DEF n
  <2>2. QED  BY <2>1 DEF Kept, Tally, Waiting, Live
<1>3. d \in Contexts /\ Kept(d)
  <2>1. l \in Contexts /\ l.tcp = [c.tcp EXCEPT !.state = "CLOSING"] /\ l.srv = c.srv /\ l.app = c.app
    <3>1. [c.tcp EXCEPT !.state = "CLOSING"] \in Session  BY Numbers DEF Session, States
    <3>2. QED  BY <3>1 DEF Contexts
  <2> HIDE DEF l
  <2>2. c.tcp.state \in Live => Kept(l)
    <3>1. Ahead(l.app)  BY <2>1 DEF Kept
    <3>2. QED  BY <2>1, <3>1, ClosedKept
  <2>3. c.tcp.state \in Live => write_rst(c) \in Contexts /\ Kept(write_rst(c))
    BY WriteRst, RstKept DEF Live
  <2>4. QED  BY <2>1, <2>2, <2>3
<1> HIDE DEF d
<1>4. Kept(z)
  <2>1. d.tcp \in Session  BY <1>3, Numbers
  <2>2. z.tcp.state = "CLOSE" /\ z.srv = d.srv /\ z.app = d.app
    BY <1>3, <2>1 DEF Contexts, Session
  <2> HIDE DEF z
  <2>3. QED  BY <1>3, <2>2 DEF Kept, Tally, Waiting, Live
<1> HIDE DEF n, z
<1>5. QED  BY <1>1, <1>2, <1>3, <1>4

-----------------------------------------------------------------------------
(* The specification *)

\* The inductive invariant, next to Inv.
StreamInv ==
    /\ Tally(tcp.state, tcp.remote_seq, tcp.forward, srv.next)
    /\ Plain => srv.intact
    /\ Ahead(app) /\ Waiting(tcp)
    /\ \A i \in 1..Len(up) : Proper(up[i])

\* It implies the properties that the runs check.
LEMMA StreamImplies ==
    StreamInv => RemoteSeqCounts /\ (Plain => ServerStreamIntact)
<1>1. StreamInv => RemoteSeqCounts
  BY DEF StreamInv, Tally, SentAt, RemoteSeqCounts
<1>2. QED  BY <1>1 DEF StreamInv, ServerStreamIntact

\* It holds before the first packet.
LEMMA StreamInit == Init => StreamInv
<1> SUFFICES ASSUME Init PROVE StreamInv  OBVIOUS
<1>1. tcp.state = "NONE"  BY DEF Init, NoSession
<1>2. /\ srv.intact /\ app.st = "CLOSED" /\ up = <<>>
      /\ app.snd_nxt = RemoteStart /\ RemoteStart \in Nat
  BY TcpAssumption DEF TcpAssumption, Init, NewServer, NoApp
<1>3. Len(up) = 0  BY <1>2
<1>4. QED  BY <1>1, <1>2, <1>3 DEF StreamInv, Tally, Live, Ahead, Waiting

\* A handler starts from a context that is kept ...
LEMMA ContextKept ==
    ASSUME Inv, StreamInv, NEW w \in Writes
    PROVE  Kept(Context(w))
BY ContextType DEF StreamInv, Kept

\* ... and what it leaves becomes the next state.
LEMMA BecomesKept ==
    ASSUME NEW c, Kept(c), Becomes(c), \A i \in 1..Len(up') : Proper(up'[i])
    PROVE  StreamInv'
BY DEF Becomes, Kept, StreamInv

\* The top of the loop.
LEMMA MonitorStreams ==
    ASSUME Inv, StreamInv, NEW probe \in BOOLEAN, NEW check \in BOOLEAN, NEW idle \in BOOLEAN,
           NEW gone \in BOOLEAN, Monitor(probe, check, idle, gone)
    PROVE  StreamInv'
<1>1. PICK w \in Writes :
        Becomes(IF check
                THEN check_tcp_session(monitor_tcp_session(Context(w), probe), idle, gone)
                ELSE monitor_tcp_session(Context(w), probe))
  BY DEF Monitor
<1> DEFINE c == Context(w)
           m == monitor_tcp_session(c, probe)
           k == check_tcp_session(m, idle, gone)
<1>2. c \in Contexts /\ c.tcp = tcp /\ Kept(c)  BY ContextType, ContextKept
<1> HIDE DEF c
<1>3. m \in Contexts /\ Kept(m)  BY <1>2, MonitorSession, MonitorKept DEF Inv
<1> HIDE DEF m
<1>4. Kept(k)  BY <1>3, CheckSessionKept
<1> HIDE DEF k
<1>5. Becomes(IF check THEN k ELSE m)  BY <1>1 DEF c, m, k
<1>6. \A i \in 1..Len(up') : Proper(up'[i])  BY DEF Monitor, StreamInv
<1>7. QED  BY <1>3, <1>4, <1>5, <1>6, BecomesKept

\* A packet of the app.
LEMMA TunStreams ==
    ASSUME Inv, StreamInv, NEW open \in BOOLEAN, HandleTun(open) PROVE StreamInv'
<1>1. PICK w \in Writes : Becomes(handle_tcp(Context(w), Head(up), open))
  BY DEF HandleTun
<1> DEFINE c == Context(w)
           r == handle_tcp(c, Head(up), open)
<1>2. up # <<>> /\ up' = Tail(up)  BY DEF HandleTun
<1>3. up \in Seq(Packet) /\ Sound(tcp)  BY DEF Inv
<1>4. Head(up) \in Packet /\ Head(up) = up[1] /\ Len(up) >= 1  BY <1>2, <1>3
<1>5. Proper(Head(up))  BY <1>3, <1>4 DEF StreamInv
<1>6. \A i \in 1..Len(up') : Proper(up'[i])
  <2> SUFFICES ASSUME NEW i \in 1..Len(Tail(up)) PROVE Proper(Tail(up)[i])  BY <1>2
  <2>1. Len(Tail(up)) = Len(up) - 1 /\ Len(up) \in Nat  BY <1>2, <1>3
  <2>2. i + 1 \in 1..Len(up) /\ Tail(up)[i] = up[i + 1]  BY <1>2, <1>3, <2>1
  <2>3. QED  BY <2>2 DEF StreamInv
<1>7. c \in Contexts /\ c.tcp = tcp /\ Kept(c)  BY ContextType, ContextKept
<1> HIDE DEF c
<1>8. Kept(r)  BY <1>3, <1>4, <1>5, <1>7, HandleTcpKept
<1>9. Becomes(r)  BY <1>1 DEF c
<1> HIDE DEF r
<1>10. QED  BY <1>6, <1>8, <1>9, BecomesKept

\* A socket event.
LEMMA SocketStreams == ASSUME Inv, StreamInv, HandleSocket PROVE StreamInv'
<1>1. PICK w \in Writes :
        \E o \in Outcomes(Context(w), loop.evs) :
          Becomes(check_tcp_socket(Context(w), loop.evs, o))
  BY DEF HandleSocket
<1>2. PICK o \in Outcomes(Context(w), loop.evs) :
        Becomes(check_tcp_socket(Context(w), loop.evs, o))
  BY <1>1
<1> DEFINE c == Context(w)
           r == check_tcp_socket(c, loop.evs, o)
<1>3. loop.evs # {} /\ up' = up  BY DEF HandleSocket
<1>4. tcp \in Session /\ Sound(tcp) /\ tcp.socket  BY <1>3 DEF Inv
<1>5. c \in Contexts /\ c.tcp = tcp /\ Kept(c)  BY ContextType, ContextKept
<1>6. /\ o \in Oracles
      /\ /\ "ERR" \notin loop.evs /\ c.tcp.state # "LISTEN" /\ "OUT" \in loop.evs
         => o.run \subseteq DOMAIN c.tcp.forward /\ SendOutcome(c, o)
  BY <1>4, <1>5, OutcomesType
<1> HIDE DEF c
<1>7. Kept(r)  BY <1>4, <1>5, <1>6, CheckTcpSocketKept
<1>8. Becomes(r)  BY <1>2 DEF c
<1> HIDE DEF r
<1>9. QED  BY <1>3, <1>7, <1>8, BecomesKept DEF StreamInv

\* Restarting the tunnel.
LEMMA ReloadStreams ==
    ASSUME Inv, StreamInv, NEW allowed \in BOOLEAN, Reload(allowed) PROVE StreamInv'
<1>1. PICK w \in Writes :
        Becomes([check_allowed(Context(w), allowed) EXCEPT !.tcp.registered = FALSE])
  BY DEF Reload
<1> DEFINE c == Context(w)
           d == check_allowed(c, allowed)
           r == [d EXCEPT !.tcp.registered = FALSE]
<1>2. up' = up  BY DEF Reload
<1>3. c \in Contexts /\ c.tcp = tcp /\ Kept(c)  BY ContextType, ContextKept
<1> HIDE DEF c
<1>4. d \in Contexts /\ Kept(d)  BY <1>3, WriteRst, RstKept DEF check_allowed, Live
<1> HIDE DEF d
<1>5. d.tcp \in Session  BY <1>4, Numbers
<1>6. /\ r.tcp.state = d.tcp.state /\ r.tcp.remote_seq = d.tcp.remote_seq
      /\ r.tcp.forward = d.tcp.forward /\ r.tcp.socks5 = d.tcp.socks5
      /\ r.srv = d.srv /\ r.app = d.app
  BY <1>4, <1>5 DEF Contexts, Session
<1>7. Becomes(r)  BY <1>1 DEF c, d
<1> HIDE DEF r
<1>8. Kept(r)  BY <1>4, <1>6 DEF Kept, Waiting
<1>9. QED  BY <1>2, <1>7, <1>8, BecomesKept DEF StreamInv

\* Freeing the session, and the steps that leave session and tun alone.
LEMMA OtherStreams ==
    ASSUME Inv, StreamInv, clear \/ Wait \/ UNCHANGED vars PROVE StreamInv'
<1>1. CASE clear
  <2>1. tcp'.state = "NONE" /\ srv' = srv /\ app' = app /\ up' = up
    BY <1>1 DEF clear, NoSession
  <2>2. QED  BY <2>1 DEF StreamInv, Tally, Live, Waiting
<1>2. CASE Wait \/ UNCHANGED vars
  <2>1. tcp' = tcp /\ srv' = srv /\ app' = app /\ up' = up  BY <1>2 DEF Wait, vars
  <2>2. QED  BY <2>1 DEF StreamInv
<1>3. QED  BY <1>1, <1>2

\* A packet put in the tun.
LEMMA EmitStreams ==
    ASSUME Inv, StreamInv, NEW a \in AppType, Ahead(a), NEW flags, NEW seq, NEW len,
           Emit(a, flags, seq, len),
           "SYN" \in flags => seq = RemoteStart, Plain /\ len > 0 => seq > RemoteStart
    PROVE  StreamInv'
<1> DEFINE p == [flags |-> flags, seq |-> seq, ack |-> a.rcv_nxt, len |-> len,
                 win |-> AppBuf - a.unread]
<1>1. /\ up' = Append(up, p) /\ app' = [a EXCEPT !.ackDue = FALSE]
      /\ tcp' = tcp /\ srv' = srv
  BY DEF Emit
<1>2. Proper(p)  BY DEF Proper
<1> HIDE DEF p
<1>3. \A i \in 1..Len(up') : Proper(up'[i])
  <2> SUFFICES ASSUME NEW i \in 1..Len(Append(up, p)) PROVE Proper(Append(up, p)[i])
    BY <1>1
  <2>1. up \in Seq(Packet)  BY DEF Inv
  <2>2. Len(Append(up, p)) = Len(up) + 1 /\ Len(up) \in Nat  BY <2>1
  <2>3. CASE i = Len(up) + 1
    <3>1. Append(up, p)[i] = p  BY <2>1, <2>3
    <3>2. QED  BY <1>2, <3>1
  <2>4. CASE i \in 1..Len(up)
    <3>1. Append(up, p)[i] = up[i]  BY <2>1, <2>4
    <3>2. QED  BY <2>4, <3>1 DEF StreamInv
  <2>5. QED  BY <2>2, <2>3, <2>4
<1>4. Ahead(app')  BY <1>1 DEF Ahead, AppType
<1>5. QED  BY <1>1, <1>3, <1>4 DEF StreamInv

\* The app sends its SYN at RemoteStart and data only behind it.
LEMMA AppStreams == ASSUME Inv, StreamInv, App PROVE StreamInv'
<1>1. app \in AppType /\ Ahead(app)  BY DEF Inv, StreamInv
<1>2. RemoteStart \in Nat /\ SegLen \in Nat \ {0}  BY TcpAssumption DEF TcpAssumption
<1>3. app.snd_nxt \in Nat /\ app.snd_una \in Nat  BY <1>1 DEF AppType
<1>4. CASE AppConnect
  <2> DEFINE a == [app EXCEPT !.st = "SYN_SENT", !.snd_nxt = @ + 1]
  <2>1. /\ a \in AppType /\ a.st = "SYN_SENT" /\ a.snd_nxt = app.snd_nxt + 1
        /\ app.snd_nxt + 1 \in Nat
    <3>1. app.snd_nxt + 1 \in Nat  BY <1>3
    <3>2. QED  BY <1>1, <3>1 DEF AppType
  <2>2. PICK len \in {0} \union (IF "syndata" \in Faults THEN {SegLen} ELSE {}) :
          Emit(a, {"SYN"}, RemoteStart, len)
    BY <1>4 DEF AppConnect
  <2>3. Plain => len = 0  BY DEF Plain
  <2> HIDE DEF a
  <2>4. Ahead(a)  BY <1>1, <1>2, <1>3, <2>1 DEF Ahead
  <2>5. QED  BY <2>1, <2>2, <2>3, <2>4, EmitStreams
<1>5. CASE AppResendSyn
  <2>1. Emit(app, {"SYN"}, RemoteStart, 0)  BY <1>5 DEF AppResendSyn
  <2>2. QED  BY <1>1, <2>1, EmitStreams
<1>6. ASSUME NEW fin \in BOOLEAN, AppSend(fin) PROVE StreamInv'
  <2> DEFINE n == app.snd_nxt + SegLen + (IF fin THEN 1 ELSE 0)
             a == [app EXCEPT !.fin = fin, !.snd_nxt = n]
             fl == IF fin THEN {"ACK", "FIN"} ELSE {"ACK"}
  <2>1. n \in Nat /\ n >= app.snd_nxt  BY <1>2, <1>3
  <2>2. Emit(a, fl, app.snd_nxt, SegLen) /\ app.st = "EST"  BY <1>6 DEF AppSend
  <2> HIDE DEF n
  <2>3. a \in AppType /\ a.st = app.st /\ a.snd_nxt = n /\ a.snd_una = app.snd_una
    BY <1>1, <2>1 DEF AppType
  <2>4. "SYN" \notin fl  OBVIOUS
  <2> HIDE DEF a, fl
  <2>5. Ahead(a)  BY <1>1, <1>2, <1>3, <2>1, <2>3 DEF Ahead
  <2>6. app.snd_nxt > RemoteStart  BY <1>1, <2>2 DEF Ahead
  <2>7. QED  BY <2>2, <2>3, <2>4, <2>5, <2>6, EmitStreams
<1>7. CASE AppAck
  <2>1. Emit(app, {"ACK"}, app.snd_nxt, 0)  BY <1>7 DEF AppAck
  <2>2. QED  BY <1>1, <2>1, EmitStreams
<1>8. CASE AppFin
  <2> DEFINE a == [app EXCEPT !.fin = TRUE, !.snd_nxt = @ + 1]
  <2>1. /\ a \in AppType /\ a.st = app.st /\ a.snd_nxt = app.snd_nxt + 1
        /\ a.snd_una = app.snd_una
    <3>1. app.snd_nxt + 1 \in Nat  BY <1>3
    <3>2. QED  BY <1>1, <3>1 DEF AppType
  <2>2. Emit(a, {"ACK", "FIN"}, app.snd_nxt, 0)  BY <1>8 DEF AppFin
  <2> HIDE DEF a
  <2>3. Ahead(a)  BY <1>1, <1>2, <1>3, <2>1 DEF Ahead
  <2>4. QED  BY <2>1, <2>2, <2>3, EmitStreams
<1>9. ASSUME NEW k \in 1..2, AppResend(k) PROVE StreamInv'
  <2> DEFINE fl == IF app.fin /\ app.snd_una + k * SegLen = DataEnd(app)
                   THEN {"ACK", "FIN"} ELSE {"ACK"}
             n == k * SegLen
  <2>1. Emit(app, fl, app.snd_una, n) /\ app.st = "EST"  BY <1>9 DEF AppResend
  <2>2. "SYN" \notin fl  OBVIOUS
  <2>3. app.snd_una > RemoteStart  BY <1>1, <2>1 DEF Ahead
  <2> HIDE DEF fl, n
  <2>4. QED  BY <1>1, <2>1, <2>2, <2>3, EmitStreams
<1>10. CASE AppResendFin
  <2>1. Emit(app, {"ACK", "FIN"}, app.snd_una, 0)  BY <1>10 DEF AppResendFin
  <2>2. QED  BY <1>1, <2>1, EmitStreams
<1>11. CASE AppRead
  <2>1. /\ app' = [app EXCEPT !.unread = 0, !.ackDue = TRUE]
        /\ tcp' = tcp /\ up' = up /\ srv' = srv
    BY <1>11 DEF AppRead
  <2>2. Ahead(app')  BY <1>1, <2>1 DEF Ahead, AppType
  <2>3. QED  BY <2>1, <2>2 DEF StreamInv
<1>12. CASE AppAbort
  <2> DEFINE a == [app EXCEPT !.st = "ABORTED"]
  <2>1. a \in AppType /\ a.st = "ABORTED" /\ a.snd_nxt = app.snd_nxt  BY <1>1 DEF AppType
  <2>2. Emit(a, {"RST", "ACK"}, app.snd_nxt, 0)  BY <1>12 DEF AppAbort
  <2> HIDE DEF a
  <2>3. Ahead(a)  BY <1>1, <2>1 DEF Ahead
  <2>4. QED  BY <2>1, <2>2, <2>3, EmitStreams
<1>13. QED
  BY <1>4, <1>5, <1>6, <1>7, <1>8, <1>9, <1>10, <1>11, <1>12 DEF App

\* The server does not change what it expects.
LEMMA PeerStreams == ASSUME Inv, StreamInv, Peer PROVE StreamInv'
<1>1. srv \in ServerType  BY DEF Inv
<1>2. /\ tcp' = tcp /\ up' = up /\ app' = app
      /\ srv'.next = srv.next /\ srv'.intact = srv.intact
  BY <1>1 DEF Peer, ServerConnect, ServerSend, ServerClose, ServerDrain, ServerFail,
              ProxyReply, Server, ServerType
<1>3. QED  BY <1>2 DEF StreamInv

\* Every step keeps the account of the bytes.
LEMMA NextStreams == Inv /\ StreamInv /\ [Next]_vars => StreamInv'
<1> SUFFICES ASSUME Inv, StreamInv, [Next]_vars PROVE StreamInv'  OBVIOUS
<1>1. CASE MonitorStep
  <2>1. PICK probe \in BOOLEAN, check \in BOOLEAN, idle \in May("idle"), gone \in BOOLEAN :
          Monitor(probe, check, idle, gone)
    BY <1>1 DEF MonitorStep
  <2>2. idle \in BOOLEAN  BY MayType
  <2>3. QED  BY <2>1, <2>2, MonitorStreams
<1>2. ASSUME NEW a \in {TRUE} \union {~x : x \in May("forbid")}
      PROVE  a \in BOOLEAN
  OBVIOUS
<1>3. CASE TunStep  BY <1>2, <1>3, TunStreams DEF TunStep
<1>4. CASE \E a \in {TRUE} \union {~x : x \in May("forbid")} : Reload(a)
  BY <1>2, <1>4, ReloadStreams
<1>5. QED
  BY <1>1, <1>3, <1>4, SocketStreams, OtherStreams, AppStreams, PeerStreams
     DEF Next, Engine

\* The account of the bytes holds in every state of every instance of the model.
THEOREM StreamHolds == Spec => []StreamInv
<1>1. QED  BY StreamInit, NextStreams, InvHolds, PTL DEF Spec

\* remote_seq counts the SYN, every byte that send() took and, behind all of
\* them, the FIN, once: for every size of segments and buffers, every split of
\* the data into sends, and all retransmissions, failures and restarts.
THEOREM RemoteSeqAlwaysCounts == Spec => []RemoteSeqCounts
BY StreamHolds, StreamImplies, PTL

\* What check_tcp_socket sends to the server is the stream of the app, if no SYN
\* carries data: retransmissions, merged segments, partial sends, data that
\* arrives before the connection and the bytes that a closing session still
\* forwards never make it skip, repeat or reorder a byte.
THEOREM ServerStreamAlwaysIntact == Plain => (Spec => []ServerStreamIntact)
<1> SUFFICES ASSUME Plain PROVE Spec => []ServerStreamIntact  OBVIOUS
<1>1. StreamInv => ServerStreamIntact  BY StreamImplies
<1>2. QED  BY <1>1, StreamHolds, PTL

=============================================================================
