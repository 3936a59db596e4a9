------------------------ MODULE NetGuardTcpAppProofs ------------------------
(***************************************************************************)
(* Proofs about the side of a session of NetGuardTcp that faces the app:   *)
(* what the app receives is what the server sent, within the window that   *)
(* the app announced; a session ends only for a reason, and the app learns *)
(* of its end.                                                             *)
(*                                                                         *)
(* The window that the engine knows is old: it was announced in a packet   *)
(* that waited in the tun.  It is safe because the end of the window, the  *)
(* number behind the last byte that the app has room for, never moves      *)
(* back, and the packets wait in the order of their acknowledgments.       *)
(***************************************************************************)
EXTENDS NetGuardTcpQueueProofs

\* Every write to the tun succeeds, and no restart takes a session out of epoll.
Heard == Faults \intersect {"tunwrite", "reload"} = {}

\* Besides, no session times out, no data is sent twice, and no proxy refuses.
Calm == Heard /\ Faults \intersect {"idle", "retransmit"} = {} /\ ~Socks5

\* The number behind the last byte that the app has room for.
Edge(a) == a.rcv_nxt + AppBuf - a.unread

\* A session belongs to the app's attempt to connect, and both are connected at
\* the same time.
Met(t, a, u) ==
    /\ a.st = "CLOSED" => t.state = "NONE" /\ u = <<>> /\ a.snd_nxt = RemoteStart
    /\ a.st \in {"CLOSED", "SYN_SENT"} => a.rcv_nxt = 0 /\ a.unread = 0 /\ ~a.fin
    /\ a.st = "SYN_SENT" => /\ t.state \notin Joined /\ a.snd_nxt = RemoteStart + 1
                            /\ \A i \in 1..Len(u) : u[i].flags = {"SYN"}
    /\ t.state = "NONE" /\ HasSyn(u) => a.st \in {"SYN_SENT", "ABORTED"}
    /\ t.state = "LISTEN" => a.st \in {"SYN_SENT", "ABORTED"}
    /\ t.state \in Joined => a.st \in {"EST", "ABORTED"}

\* What a packet tells of the app that has sent it.
Honest(a, p) ==
    /\ p.ack <= a.rcv_nxt /\ p.ack + p.win <= Edge(a)
    /\ "RST" \in p.flags => a.st = "ABORTED"
    /\ "FIN" \in p.flags => a.fin

\* The packets in the tun, in the order of their acknowledgments.
InFlight(a, u) ==
    /\ a.unread <= AppBuf
    /\ \A i \in 1..Len(u) : /\ Honest(a, u[i])
                            /\ \A j \in 1..i : u[j].ack <= u[i].ack

\* The window that the session knows ends where that of the app ends, or before.
Credit(t, a, u) ==
    t.state \in Live =>
       /\ t.acked <= a.rcv_nxt /\ t.acked + t.send_window <= Edge(a)
       /\ \A i \in 1..Len(u) : t.acked <= u[i].ack

\* local_seq counts what was read from the server and the FIN, and the app has
\* received all of it.
InSync(t, a, s) ==
    /\ t.state = "LISTEN" => t.local_seq = LocalStart /\ s.sent = 0 /\ s.toRead = 0
    /\ t.state \in Joined =>
         t.local_seq = LocalStart + 1 + s.sent - s.toRead
                       + (IF t.state \in {"FIN_WAIT1", "LAST_ACK"} THEN 1 ELSE 0)
    /\ t.state \in Joined /\ a.st = "EST" => a.rcv_nxt = t.local_seq
    /\ t.state \in {"CLOSE_WAIT", "LAST_ACK"} => a.fin
    /\ t.state \in {"FIN_WAIT1", "LAST_ACK"} => s.eof

\* An app whose session is closing knows of it.
Parted(t, a, s) ==
    /\ t.socket => t.registered
    /\ t.state = "CLOSING" => \/ a.st \in {"RESET", "ABORTED"}
                              \/ a.fin /\ a.rcv_nxt = t.local_seq /\ s.eof

\* Who has ended or broken the connection.
Reason(a, s) == s.eof \/ s.err \/ a.st = "ABORTED"

\* A session that ends has a reason.  Data behind a FIN would be answered by a
\* reset; there is none.
Blameless(t, a, s, u) ==
    /\ t.state \in {"CLOSING", "CLOSE"} => Reason(a, s)
    /\ t.state = "LISTEN" => t.socks5 \in {"NONE", "CONNECTED"}
    /\ t.state = "CLOSE_WAIT" => \A i \in 1..Len(u) : u[i].len = 0
    /\ \A i \in 1..Len(u) :
         "FIN" \in u[i].flags => \A j \in (i + 1)..Len(u) : u[j].len = 0

\* The invariant of a session, its peers and the packets in the tun.
Bound(t, a, s, u) ==
    /\ Met(t, a, u) /\ InFlight(a, u) /\ Credit(t, a, u) /\ InSync(t, a, s)
    /\ Heard => Parted(t, a, s)
    /\ Calm => Blameless(t, a, s, u)

-----------------------------------------------------------------------------
(* Writing to the tun *)

\* An acknowledgment leaves alone what the invariant is about ...
Idles(a, b) ==
    /\ b.st = a.st /\ b.snd_nxt = a.snd_nxt /\ b.fin = a.fin
    /\ b.rcv_nxt = a.rcv_nxt /\ b.unread = a.unread

\* ... and a reset changes the state of the app only.
Shuts(a, b) ==
    /\ b.st = a.st \/ (a.st \in {"SYN_SENT", "EST"} /\ b.st = "RESET")
    /\ b.snd_nxt = a.snd_nxt /\ b.fin = a.fin
    /\ b.rcv_nxt = a.rcv_nxt /\ b.unread = a.unread

\* A packet with n numbers, of which len are bytes.
Receives(a, b, n, len) ==
    /\ b.st = a.st /\ b.snd_nxt = a.snd_nxt /\ b.fin = a.fin
    /\ b.rcv_nxt = IF a.st = "EST" THEN a.rcv_nxt + n ELSE a.rcv_nxt
    /\ b.unread = IF a.st = "EST" THEN a.unread + len ELSE a.unread

\* What the app makes of a packet.
LEMMA AppGets ==
    ASSUME NEW a \in AppType, NEW p \in Reply
    PROVE  LET b == AppRecv(a, p)
               n == p.len + (IF "FIN" \in p.flags THEN 1 ELSE 0)
           IN  /\ "RST" \in p.flags =>
                    /\ Shuts(a, b)
                    /\ \/ a.st = "SYN_SENT" /\ "ACK" \in p.flags /\ p.ack = a.snd_nxt
                       \/ a.st = "EST" /\ p.seq >= a.rcv_nxt
                       => b.st = "RESET"
               /\ "RST" \notin p.flags /\ "SYN" \notin p.flags =>
                    /\ n = 0 => Idles(a, b)
                    /\ n > 0 /\ (a.st = "EST" => p.seq = a.rcv_nxt) => Receives(a, b, n, p.len)
               /\ "RST" \notin p.flags /\ "SYN" \in p.flags =>
                    IF a.st = "SYN_SENT" /\ p.ack = a.snd_nxt
                    THEN /\ b.st = "EST" /\ b.snd_nxt = a.snd_nxt /\ b.fin = a.fin
                         /\ b.rcv_nxt = p.seq + 1 /\ b.unread = a.unread
                    ELSE b = a
<1> DEFINE n == p.len + (IF "FIN" \in p.flags THEN 1 ELSE 0)
<1>1. CASE "RST" \in p.flags
  <2> DEFINE r == [a EXCEPT !.st = "RESET", !.ackDue = FALSE]
             k == \/ a.st = "SYN_SENT" /\ "ACK" \in p.flags /\ p.ack = a.snd_nxt
                  \/ a.st = "EST" /\ p.seq >= a.rcv_nxt
  <2>1. AppRecv(a, p) = IF k THEN r ELSE a  BY <1>1, Zenon DEF AppRecv
  <2>2. /\ r.st = "RESET" /\ r.snd_nxt = a.snd_nxt /\ r.fin = a.fin
        /\ r.rcv_nxt = a.rcv_nxt /\ r.unread = a.unread
    BY DEF AppType
  <2>3. k => a.st \in {"SYN_SENT", "EST"}  OBVIOUS
  <2> HIDE DEF r
  <2>4. Shuts(a, AppRecv(a, p))
    <3>1. CASE k  BY <2>1, <2>2, <2>3, <3>1 DEF Shuts
    <3>2. CASE ~k  BY <2>1, <3>2 DEF Shuts
    <3>3. QED  BY <3>1, <3>2
  <2>5. k => AppRecv(a, p).st = "RESET"  BY <2>1, <2>2
  <2>6. QED  BY <1>1, <2>4, <2>5
<1>2. CASE "RST" \notin p.flags /\ "SYN" \in p.flags
  <2>1. CASE a.st = "SYN_SENT" /\ p.ack = a.snd_nxt
    <3>1. AppRecv(a, p) = [a EXCEPT !.st = "EST", !.snd_una = p.ack,
                          !.rcv_nxt = p.seq + 1, !.wnd = p.win,
                          !.ackDue = TRUE]
      BY <1>2, <2>1, Zenon DEF AppRecv
    <3>2. QED  BY <1>2, <2>1, <3>1 DEF AppType
  <2>2. CASE ~(a.st = "SYN_SENT" /\ p.ack = a.snd_nxt)
    <3>1. AppRecv(a, p) = a  BY <1>2, <2>2, Zenon DEF AppRecv
    <3>2. QED  BY <1>2, <2>2, <3>1
  <2>3. QED  BY <2>1, <2>2
<1>3. CASE "RST" \notin p.flags /\ "SYN" \notin p.flags
  <2> DEFINE m == [a EXCEPT !.rcv_nxt = @ + n,
                            !.unread = @ + p.len, !.ackDue = TRUE]
             b == IF p.seq = a.rcv_nxt /\ n > 0 THEN m ELSE a
             z == [b EXCEPT !.snd_una = p.ack, !.wnd = p.win * WindowUnit]
  <2>1. AppRecv(a, p) = IF a.st # "EST" THEN a
                        ELSE IF p.ack < a.snd_una THEN b ELSE z
    BY <1>3, Zenon DEF AppRecv
  <2>2. n \in Nat /\ p.len \in Nat /\ ~(0 > 0)  BY DEF Reply
  <2> HIDE DEF n
  <2>3. /\ m.st = a.st /\ m.snd_nxt = a.snd_nxt /\ m.fin = a.fin
        /\ m.rcv_nxt = a.rcv_nxt + n /\ m.unread = a.unread + p.len
    BY DEF AppType
  <2>4. /\ z.st = b.st /\ z.snd_nxt = b.snd_nxt /\ z.fin = b.fin
        /\ z.rcv_nxt = b.rcv_nxt /\ z.unread = b.unread
    BY DEF AppType
  <2> HIDE DEF m, z
  <2>5. n = 0 => Idles(a, AppRecv(a, p))  BY <2>1, <2>2, <2>4 DEF Idles
  <2>6. n > 0 /\ (a.st = "EST" => p.seq = a.rcv_nxt) => Receives(a, AppRecv(a, p), n, p.len)
    <3>1. CASE a.st # "EST"  BY <2>1, <3>1 DEF Receives
    <3>2. CASE a.st = "EST" /\ p.seq = a.rcv_nxt /\ n > 0
      <4>1. b = m  BY <3>2
      <4> HIDE DEF b
      <4>2. QED  BY <2>1, <2>3, <2>4, <3>2, <4>1 DEF Receives
    <3>3. QED  BY <3>1, <3>2
  <2>7. QED  BY <1>3, <2>5, <2>6 DEF n
<1>4. QED  BY <1>1, <1>2, <1>3

\* The packet that write_tcp builds.
Written(c, flags, len) == [flags |-> flags, len |-> len, seq |-> c.tcp.local_seq,
                           ack |-> c.tcp.remote_seq, win |-> c.tcp.recv_window \div WindowUnit]

\* The writes left after one.
Fewer(n) == IF n = 0 THEN 0 ELSE n - 1

\* What write_tcp and the functions that close when it fails leave to the app.
LEMMA WriteGets ==
    ASSUME NEW c \in Contexts, NEW flags \in Flags, NEW len \in Nat
    PROVE  LET p == Written(c, flags, len)
               w == write_tcp(c, flags, len)
               v == write_or_close(c, flags, len)
           IN  /\ p \in Reply /\ p.flags = flags /\ p.len = len
               /\ p.seq = c.tcp.local_seq /\ p.ack = c.tcp.remote_seq
               /\ w.app = (IF c.writes = 0 THEN c.app ELSE AppRecv(c.app, p))
               /\ v.app = (IF c.writes = 0 THEN c.app ELSE AppRecv(c.app, p))
               /\ w.writes = Fewer(c.writes) /\ v.writes = Fewer(c.writes)
<1> DEFINE p == Written(c, flags, len)
           b == AppRecv(c.app, p)
<1>1. /\ p \in Reply /\ p.flags = flags /\ p.len = len
      /\ p.seq = c.tcp.local_seq /\ p.ack = c.tcp.remote_seq
  BY UnitFacts DEF Contexts, Session, Reply, Written
<1>2. write_tcp(c, flags, len) =
        IF c.writes = 0 THEN c ELSE [c EXCEPT !.writes = c.writes - 1, !.app = b]
  BY Zenon DEF write_tcp, Written
<1>3. write_or_close(c, flags, len) =
        IF c.writes = 0 THEN [c EXCEPT !.tcp.state = "CLOSING"]
        ELSE [c EXCEPT !.writes = c.writes - 1, !.app = b]
  BY <1>2, Zenon DEF write_or_close
<1> HIDE DEF p, b
<1>4. QED  BY <1>1, <1>2, <1>3 DEF Contexts, Fewer, b, p

\* write_ack.
LEMMA AckIdles ==
    ASSUME NEW c \in Contexts
    PROVE  Idles(c.app, write_ack(c).app) /\ write_ack(c).writes = Fewer(c.writes)
<1> DEFINE p == Written(c, {"ACK"}, 0)
           b == AppRecv(c.app, p)
<1>1. /\ p \in Reply /\ p.flags = {"ACK"} /\ p.len = 0
      /\ write_ack(c).app = (IF c.writes = 0 THEN c.app ELSE b)
      /\ write_ack(c).writes = Fewer(c.writes)
  BY WriteGets DEF Flags, write_ack
<1> HIDE DEF p
<1>2. c.app \in AppType  BY Numbers
<1>3. p.len + (IF "FIN" \in p.flags THEN 1 ELSE 0) = 0  BY <1>1
<1>4. Idles(c.app, b)  BY <1>1, <1>2, <1>3, AppGets
<1> HIDE DEF b
<1>5. QED  BY <1>1, <1>4 DEF Idles

\* write_fin_ack, with the number that the app expects.
LEMMA FinGets ==
    ASSUME NEW c \in Contexts, c.app.st = "EST" => c.app.rcv_nxt = c.tcp.local_seq
    PROVE  LET w == write_fin_ack(c)
           IN  /\ IF c.writes = 0 THEN w.app = c.app ELSE Receives(c.app, w.app, 1, 0)
               /\ w.writes = Fewer(c.writes)
<1> DEFINE p == Written(c, {"FIN", "ACK"}, 0)
           b == AppRecv(c.app, p)
<1>1. /\ p \in Reply /\ p.flags = {"FIN", "ACK"} /\ p.len = 0 /\ p.seq = c.tcp.local_seq
      /\ write_fin_ack(c).app = (IF c.writes = 0 THEN c.app ELSE b)
      /\ write_fin_ack(c).writes = Fewer(c.writes)
  BY WriteGets DEF Flags, write_fin_ack
<1> HIDE DEF p
<1>2. c.app \in AppType  BY Numbers
<1>3. p.len + (IF "FIN" \in p.flags THEN 1 ELSE 0) = 1 /\ 1 > 0  BY <1>1
<1>4. "RST" \notin p.flags /\ "SYN" \notin p.flags  BY <1>1
<1>5. Receives(c.app, b, 1, 0)  BY <1>1, <1>2, <1>3, <1>4, AppGets
<1> HIDE DEF b
<1>6. QED  BY <1>1, <1>5

\* write_data, with the number that the app expects.
LEMMA DataGets ==
    ASSUME NEW c \in Contexts, c.app.st = "EST" => c.app.rcv_nxt = c.tcp.local_seq,
           NEW n \in Nat, n > 0
    PROVE  LET w == write_data(c, n)
           IN  /\ IF c.writes = 0 THEN w.app = c.app ELSE Receives(c.app, w.app, n, n)
               /\ w.writes = Fewer(c.writes)
<1> DEFINE p == Written(c, {"ACK"}, n)
           b == AppRecv(c.app, p)
<1>1. /\ p \in Reply /\ p.flags = {"ACK"} /\ p.len = n /\ p.seq = c.tcp.local_seq
      /\ write_data(c, n).app = (IF c.writes = 0 THEN c.app ELSE b)
      /\ write_data(c, n).writes = Fewer(c.writes)
  BY WriteGets DEF Flags, write_data
<1> HIDE DEF p
<1>2. c.app \in AppType  BY Numbers
<1>3. p.len + (IF "FIN" \in p.flags THEN 1 ELSE 0) = n  BY <1>1
<1>4. "RST" \notin p.flags /\ "SYN" \notin p.flags  BY <1>1
<1>5. Receives(c.app, b, n, n)  BY <1>1, <1>2, <1>3, <1>4, AppGets
<1> HIDE DEF b
<1>6. QED  BY <1>1, <1>5

\* write_syn_ack.
LEMMA SynAckGets ==
    ASSUME NEW c \in Contexts
    PROVE  LET b == write_syn_ack(c).app
           IN  IF c.writes # 0 /\ c.app.st = "SYN_SENT" /\ c.tcp.remote_seq = c.app.snd_nxt
               THEN /\ b.st = "EST" /\ b.snd_nxt = c.app.snd_nxt /\ b.fin = c.app.fin
                    /\ b.rcv_nxt = c.tcp.local_seq + 1 /\ b.unread = c.app.unread
               ELSE b = c.app
<1> DEFINE p == Written(c, {"SYN", "ACK"}, 0)
           b == AppRecv(c.app, p)
<1>1. /\ p \in Reply /\ p.flags = {"SYN", "ACK"} /\ p.len = 0 /\ p.seq = c.tcp.local_seq
      /\ p.ack = c.tcp.remote_seq
      /\ write_syn_ack(c).app = (IF c.writes = 0 THEN c.app ELSE b)
  BY WriteGets DEF Flags, write_syn_ack
<1> HIDE DEF p
<1>2. c.app \in AppType  BY Numbers
<1>3. "RST" \notin p.flags /\ "SYN" \in p.flags  BY <1>1
<1>4. IF c.app.st = "SYN_SENT" /\ p.ack = c.app.snd_nxt
      THEN /\ b.st = "EST" /\ b.snd_nxt = c.app.snd_nxt /\ b.fin = c.app.fin
           /\ b.rcv_nxt = p.seq + 1 /\ b.unread = c.app.unread
      ELSE b = c.app
  BY <1>2, <1>1, <1>3, AppGets
<1> HIDE DEF b
<1>5. QED  BY <1>1, <1>4

\* write_rst: a connected app takes a reset with the number that it expects or a
\* later one, and one that waits for the SYN-ACK takes one that acknowledges its SYN.
LEMMA RstShuts ==
    ASSUME NEW c \in Contexts
    PROVE  LET b == write_rst(c).app
           IN  /\ Shuts(c.app, b) /\ write_rst(c).writes = Fewer(c.writes)
               /\ c.writes # 0 =>
                    /\ c.app.st = "EST" /\ c.tcp.local_seq >= c.app.rcv_nxt => b.st = "RESET"
                    /\ /\ c.tcp.state = "LISTEN" /\ c.app.st = "SYN_SENT"
                       /\ c.tcp.remote_seq + 1 = c.app.snd_nxt
                       => b.st = "RESET"
<1> DEFINE t == [c.tcp EXCEPT !.remote_seq = @ + 1]
           d == IF c.tcp.state = "LISTEN" THEN [c EXCEPT !.tcp.remote_seq = @ + 1] ELSE c
           fl == IF c.tcp.state = "LISTEN" THEN {"RST", "ACK"} ELSE {"RST"}
           p == Written(d, fl, 0)
           b == AppRecv(d.app, p)
           w == write_tcp(d, fl, 0)
<1>1. write_rst(c) = [w EXCEPT !.tcp.state = IF @ = "CLOSE" THEN @ ELSE "CLOSING"]
  BY Zenon DEF write_rst
<1>2. t \in Session /\ t.local_seq = c.tcp.local_seq /\ t.remote_seq = c.tcp.remote_seq + 1
  BY DEF Contexts, Session
<1>3. d = IF c.tcp.state = "LISTEN" THEN [c EXCEPT !.tcp = t] ELSE c  OBVIOUS
<1> HIDE DEF t, d
<1>4. /\ d \in Contexts /\ d.app = c.app /\ d.writes = c.writes
      /\ d.tcp.local_seq = c.tcp.local_seq
      /\ c.tcp.state = "LISTEN" => d.tcp.remote_seq = c.tcp.remote_seq + 1
  BY <1>2, <1>3 DEF Contexts
<1>5. fl \in Flags /\ "RST" \in fl /\ (c.tcp.state = "LISTEN" => "ACK" \in fl)
  BY DEF Flags
<1> HIDE DEF fl
<1>6. /\ p \in Reply /\ p.flags = fl /\ p.seq = c.tcp.local_seq
      /\ c.tcp.state = "LISTEN" => p.ack = c.tcp.remote_seq + 1
      /\ w.app = (IF c.writes = 0 THEN c.app ELSE b) /\ w.writes = Fewer(c.writes)
  BY <1>4, <1>5, WriteGets, 0 \in Nat
<1> HIDE DEF p
<1>7. c.app \in AppType  BY Numbers
<1>8. /\ Shuts(c.app, b)
      /\ \/ c.app.st = "SYN_SENT" /\ "ACK" \in p.flags /\ p.ack = c.app.snd_nxt
         \/ c.app.st = "EST" /\ p.seq >= c.app.rcv_nxt
         => b.st = "RESET"
  BY <1>4, <1>5, <1>6, <1>7, AppGets
<1> HIDE DEF b
<1>9. w \in Contexts  BY <1>4, <1>5, WriteTcp, 0 \in Nat
<1> HIDE DEF w
<1>10. write_rst(c).app = w.app /\ write_rst(c).writes = w.writes  BY <1>1, <1>9 DEF Contexts
<1>11. Shuts(c.app, c.app)  BY DEF Shuts
<1>12. QED  BY <1>5, <1>6, <1>8, <1>10, <1>11

-----------------------------------------------------------------------------
(* The invariant *)

\* Two sessions that the invariant hardly tells apart.
Similar(t, v) ==
    /\ v.state = t.state /\ v.local_seq = t.local_seq
    /\ v.acked = t.acked /\ v.send_window = t.send_window

\* What a packet tells stays true while the app does not change.
LEMMA IdlesInFlight ==
    ASSUME NEW a, NEW b, NEW u, InFlight(a, u), Shuts(a, b)
    PROVE  InFlight(b, u) /\ Edge(b) = Edge(a)
<1>1. Edge(b) = Edge(a)  BY DEF Edge, Shuts
<1>2. \A i \in 1..Len(u) : Honest(b, u[i])
  <2> SUFFICES ASSUME NEW i \in 1..Len(u) PROVE Honest(b, u[i])  OBVIOUS
  <2>1. Honest(a, u[i])  BY DEF InFlight
  <2>2. a.st = "ABORTED" => b.st = "ABORTED"  BY DEF Shuts
  <2>3. QED  BY <1>1, <2>1, <2>2 DEF Honest, Shuts
<1>3. QED  BY <1>1, <1>2 DEF InFlight, Shuts

\* An app that idles is not reset.
LEMMA IdlesShuts == ASSUME NEW a, NEW b, Idles(a, b) PROVE Shuts(a, b)
BY DEF Idles, Shuts

\* What an app has not noticed adds up.
LEMMA ShutsTwice ==
    ASSUME NEW a, NEW b, NEW d, Shuts(a, b), Shuts(b, d)
    PROVE  Shuts(a, d)
BY DEF Shuts

\* A step that changes nothing that the invariant is about.
LEMMA QuietBound ==
    ASSUME NEW t, NEW a, NEW s, NEW u, Bound(t, a, s, u),
           NEW v, NEW b, NEW z, Similar(t, v), Idles(a, b),
           Heard => (v.socket => v.registered),
           Calm /\ v.state = "LISTEN" => v.socks5 \in {"NONE", "CONNECTED"},
           z.sent = s.sent, z.toRead = s.toRead, z.eof = s.eof, s.err => z.err
    PROVE  Bound(v, b, z, u)
<1>1. /\ Met(t, a, u) /\ InFlight(a, u) /\ Credit(t, a, u) /\ InSync(t, a, s)
      /\ Heard => Parted(t, a, s)
      /\ Calm => Blameless(t, a, s, u)
  BY DEF Bound
<1>2. /\ v.state = t.state /\ v.local_seq = t.local_seq
      /\ v.acked = t.acked /\ v.send_window = t.send_window
  BY DEF Similar
<1>3. /\ b.st = a.st /\ b.snd_nxt = a.snd_nxt /\ b.fin = a.fin
      /\ b.rcv_nxt = a.rcv_nxt /\ b.unread = a.unread
  BY DEF Idles
<1>4. Met(v, b, u)  BY <1>1, <1>2, <1>3 DEF Met
<1>5. InFlight(b, u) /\ Edge(b) = Edge(a)  BY <1>1, IdlesShuts, IdlesInFlight
<1>6. Credit(v, b, u)  BY <1>1, <1>2, <1>3, <1>5 DEF Credit
<1>7. InSync(v, b, z)  BY <1>1, <1>2, <1>3 DEF InSync
<1>8. Heard => Parted(v, b, z)  BY <1>1, <1>2, <1>3 DEF Parted
<1>9. Calm => Blameless(v, b, z, u)  BY <1>1, <1>2, <1>3 DEF Blameless, Reason
<1>10. QED  BY <1>4, <1>5, <1>6, <1>7, <1>8, <1>9 DEF Bound

\* A session that ends.
LEMMA EndedBound ==
    ASSUME NEW t, NEW a, NEW s, NEW u, Bound(t, a, s, u), t.state # "NONE",
           NEW v, NEW b, NEW z, v.state \in {"CLOSING", "CLOSE"}, Shuts(a, b),
           Heard => Parted(v, b, z), Calm => Reason(b, z)
    PROVE  Bound(v, b, z, u)
<1>1. Met(t, a, u) /\ InFlight(a, u) /\ (Calm => Blameless(t, a, s, u))  BY DEF Bound
<1>2. Met(v, b, u)
  <2>1. b.st # "CLOSED"  BY <1>1 DEF Met, Shuts
  <2>2. b.st = "SYN_SENT" => a.st = "SYN_SENT"  BY DEF Shuts
  <2>3. QED  BY <1>1, <2>1, <2>2 DEF Met, Joined, Taking, Shuts
<1>3. InFlight(b, u)  BY <1>1, IdlesInFlight
<1>4. Credit(v, b, u) /\ InSync(v, b, z)  BY DEF Credit, InSync, Live, Joined, Taking
<1>5. Calm => Blameless(v, b, z, u)  BY <1>1 DEF Blameless
<1>6. QED  BY <1>2, <1>3, <1>4, <1>5 DEF Bound

\* The invariant of a context and the packets in the tun.
Tied(c, u) == Bound(c.tcp, c.app, c.srv, u)

\* A reset.
LEMMA RstTied ==
    ASSUME NEW c \in Contexts, NEW u, Tied(c, u), c.tcp.state # "NONE",
           c.tcp.state = "LISTEN" => c.tcp.remote_seq = RemoteStart,
           Heard => c.writes # 0, Calm /\ c.tcp.state \in Live => Reason(c.app, c.srv)
    PROVE  Tied(write_rst(c), u)
<1> DEFINE r == write_rst(c)
           a == c.app
<1>1. r.srv = c.srv /\ r.tcp = Reset(c.tcp)  BY WriteRst
<1>2. /\ Shuts(a, r.app)
      /\ c.writes # 0 =>
           /\ a.st = "EST" /\ c.tcp.local_seq >= a.rcv_nxt => r.app.st = "RESET"
           /\ /\ c.tcp.state = "LISTEN" /\ a.st = "SYN_SENT"
              /\ c.tcp.remote_seq + 1 = a.snd_nxt
              => r.app.st = "RESET"
  BY RstShuts
<1> HIDE DEF r
<1>3. /\ r.tcp.state = (IF c.tcp.state = "CLOSE" THEN c.tcp.state ELSE "CLOSING")
      /\ r.tcp.local_seq = c.tcp.local_seq
      /\ r.tcp.socket = c.tcp.socket /\ r.tcp.registered = c.tcp.registered
      /\ c.tcp.state \in States /\ c.tcp.local_seq \in Nat
  BY <1>1, Numbers DEF Reset, Session
<1>4. /\ Met(c.tcp, a, u) /\ InSync(c.tcp, a, c.srv)
      /\ Heard => Parted(c.tcp, a, c.srv)
      /\ Calm => Blameless(c.tcp, a, c.srv, u)
  BY DEF Tied, Bound
<1>5. ASSUME Heard, c.tcp.state # "CLOSE"
      PROVE  \/ r.app.st \in {"RESET", "ABORTED"}
             \/ r.app.fin /\ r.app.rcv_nxt = c.tcp.local_seq /\ c.srv.eof
  <2>1. a.st = "ABORTED" => r.app.st = "ABORTED"  BY <1>2 DEF Shuts
  <2>2. CASE c.tcp.state = "LISTEN"
    <3>1. a.st \in {"SYN_SENT", "ABORTED"}  BY <1>4, <2>2 DEF Met
    <3>2. a.st = "SYN_SENT" => c.tcp.remote_seq + 1 = a.snd_nxt
      BY <1>4, <2>2 DEF Met
    <3>3. QED  BY <1>2, <1>5, <2>1, <2>2, <3>1, <3>2
  <2>3. CASE c.tcp.state \in Joined
    <3>1. a.st \in {"EST", "ABORTED"}  BY <1>4, <2>3 DEF Met
    <3>2. a.st = "EST" => c.tcp.local_seq >= a.rcv_nxt
      BY <1>3, <1>4, <2>3 DEF InSync
    <3>3. QED  BY <1>2, <1>5, <2>1, <3>1, <3>2
  <2>4. CASE c.tcp.state = "CLOSING"
    BY <1>2, <1>4, <1>5, <2>4 DEF Parted, Shuts
  <2>5. QED  BY <1>3, <1>5, <2>2, <2>3, <2>4 DEF States, Live, Joined, Taking
<1>6. Heard => Parted(r.tcp, r.app, r.srv)  BY <1>1, <1>3, <1>4, <1>5 DEF Parted
<1>7. Calm => Reason(r.app, r.srv)
  <2> SUFFICES ASSUME Calm PROVE Reason(r.app, r.srv)  OBVIOUS
  <2>1. Reason(a, c.srv)  BY <1>3, <1>4 DEF Blameless, States
  <2>2. QED  BY <1>1, <1>2, <2>1 DEF Reason, Shuts
<1>8. r.tcp.state \in {"CLOSING", "CLOSE"}  BY <1>3
<1>9. Bound(r.tcp, r.app, r.srv, u)
  BY <1>2, <1>6, <1>7, <1>8, EndedBound DEF Tied
<1>10. QED  BY <1>9 DEF Tied, r

\* A write that fails.
LEMMA FailedTied ==
    ASSUME NEW c, NEW u, Tied(c, u), c.tcp.state # "NONE", ~Heard,
           NEW d, d.tcp.state = "CLOSING", Shuts(c.app, d.app)
    PROVE  Tied(d, u)
<1>1. ~Calm  BY DEF Calm
<1>2. Bound(d.tcp, d.app, d.srv, u)  BY <1>1, EndedBound DEF Tied
<1>3. QED  BY <1>2 DEF Tied

\* An acknowledgment.
LEMMA AckTied ==
    ASSUME NEW c \in Contexts, NEW u, Tied(c, u), c.tcp.state # "NONE", Heard => c.writes # 0
    PROVE  Tied(write_ack(c), u)
<1> DEFINE r == write_ack(c)
<1>1. /\ r.srv = c.srv
      /\ c.writes # 0 => r.tcp = c.tcp
      /\ c.writes = 0 => r.tcp = [c.tcp EXCEPT !.state = "CLOSING"]
  BY WriteAck
<1>2. Idles(c.app, r.app)  BY AckIdles
<1> HIDE DEF r
<1>3. CASE c.writes # 0
  <2>1. Heard => (r.tcp.socket => r.tcp.registered)  BY <1>1, <1>3 DEF Tied, Bound, Parted
  <2>2. Calm /\ r.tcp.state = "LISTEN" => r.tcp.socks5 \in {"NONE", "CONNECTED"}
    BY <1>1, <1>3 DEF Tied, Bound, Blameless
  <2>3. Similar(c.tcp, r.tcp)  BY <1>1, <1>3 DEF Similar
  <2>4. Bound(r.tcp, r.app, r.srv, u)
    BY <1>1, <1>2, <2>1, <2>2, <2>3, QuietBound DEF Tied
  <2>5. QED  BY <2>4 DEF Tied, r
<1>4. CASE c.writes = 0
  <2>1. r.tcp.state = "CLOSING"  BY <1>1, <1>4, Numbers DEF Session
  <2>2. Shuts(c.app, r.app)  BY <1>2, IdlesShuts
  <2>3. Tied(r, u)  BY <1>4, <2>1, <2>2, FailedTied
  <2>4. QED  BY <2>3 DEF r
<1>5. QED  BY <1>3, <1>4

-----------------------------------------------------------------------------
(* check_tcp_socket *)

\* The numbers of the app and of the packets.
LEMMA AppNumbers ==
    ASSUME NEW a \in AppType, NEW u \in Seq(Packet)
    PROVE  /\ a.rcv_nxt \in Nat /\ a.unread \in Nat /\ AppBuf \in Nat /\ Edge(a) \in Int
           /\ Edge(a) = a.rcv_nxt + AppBuf - a.unread
           /\ \A i \in 1..Len(u) : u[i].ack \in Nat /\ u[i].win \in Int /\ u[i].len \in Nat
<1>1. AppBuf \in Nat  BY TcpAssumption DEF TcpAssumption
<1>2. a.rcv_nxt \in Nat /\ a.unread \in Nat  BY DEF AppType
<1>3. \A i \in 1..Len(u) : u[i] \in Packet  OBVIOUS
<1>4. \A i \in 1..Len(u) : u[i].ack \in Nat /\ u[i].win \in Int /\ u[i].len \in Nat
  BY <1>3 DEF Packet
<1>5. Edge(a) = a.rcv_nxt + AppBuf - a.unread  BY DEF Edge
<1>6. Edge(a) \in Int  BY <1>1, <1>2, <1>5
<1>7. QED  BY <1>1, <1>2, <1>4, <1>5, <1>6

\* The app has received more: its window has not moved back.
LEMMA GrowsInFlight ==
    ASSUME NEW a \in AppType, NEW b \in AppType, NEW u \in Seq(Packet), InFlight(a, u),
           a.st = "ABORTED" => b.st = "ABORTED", a.fin => b.fin,
           a.rcv_nxt <= b.rcv_nxt, Edge(a) <= Edge(b), b.unread <= AppBuf
    PROVE  InFlight(b, u)
<1>1. \A i \in 1..Len(u) : Honest(b, u[i])
  <2> SUFFICES ASSUME NEW i \in 1..Len(u) PROVE Honest(b, u[i])  OBVIOUS
  <2> DEFINE k == u[i].ack
             m == u[i].win
  <2>1. Honest(a, u[i])  BY DEF InFlight
  <2>2. k \in Nat /\ m \in Int  BY AppNumbers
  <2>3. k <= a.rcv_nxt /\ k + m <= Edge(a)  BY <2>1 DEF Honest
  <2>4. a.rcv_nxt \in Nat /\ b.rcv_nxt \in Nat /\ Edge(a) \in Int /\ Edge(b) \in Int
    BY AppNumbers
  <2> HIDE DEF k, m
  <2>5. k <= b.rcv_nxt /\ k + m <= Edge(b)  BY <2>2, <2>3, <2>4
  <2>6. QED  BY <2>1, <2>5 DEF Honest, k, m
<1>2. QED  BY <1>1 DEF InFlight

\* The same for the window that the session knows.
LEMMA GrowsCredit ==
    ASSUME NEW t \in Session, NEW a \in AppType, NEW b \in AppType, NEW u \in Seq(Packet),
           Credit(t, a, u), t.state \in Live, a.rcv_nxt <= b.rcv_nxt, Edge(a) <= Edge(b),
           NEW v, v.acked = t.acked, v.send_window = t.send_window
    PROVE  Credit(v, b, u)
<1> DEFINE k == t.acked
           m == t.send_window
<1>1. k \in Nat /\ m \in Int  BY DEF Session
<1>2. k <= a.rcv_nxt /\ k + m <= Edge(a) /\ \A i \in 1..Len(u) : k <= u[i].ack
  BY DEF Credit
<1>3. a.rcv_nxt \in Nat /\ b.rcv_nxt \in Nat /\ Edge(a) \in Int /\ Edge(b) \in Int
  BY AppNumbers
<1>4. v.acked = k /\ v.send_window = m  OBVIOUS
<1> HIDE DEF k, m
<1>5. k <= b.rcv_nxt /\ k + m <= Edge(b)  BY <1>1, <1>2, <1>3
<1>6. QED  BY <1>2, <1>4, <1>5 DEF Credit

\* Data or the FIN of the server that the app has received.
LEMMA ReceivedBound ==
    ASSUME NEW t \in Session, NEW a \in AppType, NEW s \in ServerType, NEW u \in Seq(Packet),
           Bound(t, a, s, u), t.state \in {"ESTABLISHED", "CLOSE_WAIT"},
           NEW b \in AppType, NEW n \in Nat, NEW len \in Nat, Receives(a, b, n, len), len <= n,
           a.st = "EST" => a.unread + len <= AppBuf,
           NEW v, v.acked = t.acked, v.send_window = t.send_window,
           v.local_seq = t.local_seq + n, Heard => (v.socket => v.registered),
           NEW z \in ServerType, z.eof = s.eof,
           \/ v.state = t.state /\ z.sent = s.sent /\ z.toRead = s.toRead - n
           \/ /\ v.state = (IF t.state = "ESTABLISHED" THEN "FIN_WAIT1" ELSE "LAST_ACK")
              /\ s.eof /\ n = 1 /\ z = s
    PROVE  Bound(v, b, z, u)
<1>1. /\ Met(t, a, u) /\ InFlight(a, u) /\ Credit(t, a, u) /\ InSync(t, a, s)
      /\ Calm => Blameless(t, a, s, u)
  BY DEF Bound
<1>2. t.state \in Joined /\ t.state \in Live  BY DEF Joined, Taking, Live
<1>3. /\ b.st = a.st /\ b.snd_nxt = a.snd_nxt /\ b.fin = a.fin
      /\ b.rcv_nxt = IF a.st = "EST" THEN a.rcv_nxt + n ELSE a.rcv_nxt
      /\ b.unread = IF a.st = "EST" THEN a.unread + len ELSE a.unread
  BY DEF Receives
<1>4. a.st \in {"EST", "ABORTED"}  BY <1>1, <1>2 DEF Met
<1>5. v.state \in Joined /\ v.state \in Live /\ v.state # "CLOSING"
  BY DEF Joined, Taking, Live
<1>6. Met(v, b, u)  BY <1>3, <1>4, <1>5 DEF Met, Joined, Taking
<1>7. a.rcv_nxt <= b.rcv_nxt /\ Edge(a) <= Edge(b) /\ b.unread <= AppBuf
  <2>1. /\ a.rcv_nxt \in Nat /\ a.unread \in Nat /\ AppBuf \in Nat
        /\ Edge(a) = a.rcv_nxt + AppBuf - a.unread /\ Edge(b) = b.rcv_nxt + AppBuf - b.unread
    BY AppNumbers
  <2>2. a.unread <= AppBuf  BY <1>1 DEF InFlight
  <2>3. CASE a.st = "EST"
    <3>1. b.rcv_nxt = a.rcv_nxt + n /\ b.unread = a.unread + len  BY <1>3, <2>3
    <3>2. QED  BY <2>1, <2>3, <3>1
  <2>4. CASE a.st # "EST"
    <3>1. b.rcv_nxt = a.rcv_nxt /\ b.unread = a.unread  BY <1>3, <2>4
    <3>2. QED  BY <2>1, <2>2, <3>1
  <2>5. QED  BY <2>3, <2>4
<1>8. InFlight(b, u)  BY <1>1, <1>3, <1>7, GrowsInFlight
<1>9. Credit(v, b, u)  BY <1>1, <1>2, <1>7, GrowsCredit
<1>10. InSync(v, b, z)
  <2>1. /\ s.sent \in Nat /\ s.toRead \in Int /\ t.local_seq \in Nat /\ LocalStart \in Nat
    BY TcpAssumption DEF TcpAssumption, ServerType, Session
  <2>2. t.local_seq = LocalStart + 1 + s.sent - s.toRead
    <3>1. t.local_seq = LocalStart + 1 + s.sent - s.toRead + 0  BY <1>1, <1>2 DEF InSync
    <3>2. QED  BY <2>1, <3>1
  <2>3. v.local_seq = LocalStart + 1 + z.sent - z.toRead
                      + (IF v.state \in {"FIN_WAIT1", "LAST_ACK"} THEN 1 ELSE 0)
    <3>1. CASE v.state = t.state /\ z.sent = s.sent /\ z.toRead = s.toRead - n
      <4>1. v.local_seq = LocalStart + 1 + z.sent - z.toRead + 0  BY <2>1, <2>2, <3>1
      <4>2. v.state \notin {"FIN_WAIT1", "LAST_ACK"}  BY <3>1
      <4>3. QED  BY <4>1, <4>2
    <3>2. CASE v.state # t.state
      <4>1. n = 1 /\ z = s /\ v.state \in {"FIN_WAIT1", "LAST_ACK"}  BY <3>2
      <4>2. v.local_seq = LocalStart + 1 + z.sent - z.toRead + 1  BY <2>1, <2>2, <4>1
      <4>3. QED  BY <4>1, <4>2
    <3>3. QED  BY <3>1, <3>2
  <2>4. b.st = "EST" => b.rcv_nxt = v.local_seq
    BY <1>1, <1>2, <1>3 DEF InSync
  <2>5. v.state \in {"CLOSE_WAIT", "LAST_ACK"} => b.fin
    <3>1. v.state \in {"CLOSE_WAIT", "LAST_ACK"} => t.state = "CLOSE_WAIT"  OBVIOUS
    <3>2. QED  BY <1>1, <1>3, <3>1 DEF InSync
  <2>6. v.state \in {"FIN_WAIT1", "LAST_ACK"} => z.eof  OBVIOUS
  <2>7. QED  BY <1>5, <2>3, <2>4, <2>5, <2>6 DEF InSync, Joined, Taking
<1>11. Heard => Parted(v, b, z)  BY <1>5 DEF Parted
<1>12. Calm => Blameless(v, b, z, u)
  <2>1. v.state \notin {"CLOSING", "CLOSE", "LISTEN"} /\ (v.state = "CLOSE_WAIT" => t.state = "CLOSE_WAIT")
    OBVIOUS
  <2>2. QED  BY <1>1, <2>1 DEF Blameless
<1>13. QED  BY <1>6, <1>8, <1>9, <1>10, <1>11, <1>12 DEF Bound

\* Two sessions and two servers that the invariant does not tell apart.
Matches(t, v) ==
    /\ Similar(t, v)
    /\ v.socket = t.socket /\ v.registered = t.registered /\ v.socks5 = t.socks5

Steady(s, z) == z.sent = s.sent /\ z.toRead = s.toRead /\ z.eof = s.eof /\ (s.err => z.err)

\* A context that the invariant does not tell from another one.
LEMMA QuietTied ==
    ASSUME NEW c, NEW u, Tied(c, u), NEW d, Matches(c.tcp, d.tcp), Idles(c.app, d.app),
           Steady(c.srv, d.srv)
    PROVE  Tied(d, u)
<1>1. Similar(c.tcp, d.tcp) /\ d.tcp.state = c.tcp.state  BY DEF Matches, Similar
<1>2. Heard => (d.tcp.socket => d.tcp.registered)  BY DEF Tied, Bound, Parted, Matches
<1>3. Calm /\ d.tcp.state = "LISTEN" => d.tcp.socks5 \in {"NONE", "CONNECTED"}
  BY <1>1 DEF Tied, Bound, Blameless, Matches
<1>4. Bound(d.tcp, d.app, d.srv, u)
  BY <1>1, <1>2, <1>3, QuietBound DEF Tied, Steady
<1>5. QED  BY <1>4 DEF Tied

\* Nothing happens to the app.
LEMMA IdlesSelf == ASSUME NEW a PROVE Idles(a, a)
BY DEF Idles

\* The forwarding loop: a failed send is the server's doing.
LEMMA ForwardTied ==
    ASSUME NEW c \in Contexts, NEW o \in Oracles, o.run \subseteq DOMAIN c.tcp.forward,
           SendOutcome(c, o), c.tcp.state \in Connected, NEW u, Tied(c, u), Heard => c.writes # 0
    PROVE  /\ Tied(forward_data(c, o), u)
           /\ forward_data(c, o).writes \in {c.writes, Fewer(c.writes)}
<1> DEFINE v == forwarded(c.tcp, o)
           s == delivered(c, o)
           d == [c EXCEPT !.tcp = v, !.srv = s]
           b == [s EXCEPT !.err = TRUE]
           x == [d EXCEPT !.srv = b]
<1>1. forward_data(c, o) = IF o.serr THEN write_rst(x) ELSE d
  BY DEF forward_data
<1>2. v \in Session /\ s \in ServerType  BY ForwardParts
<1>3. Steady(c.srv, s)
  <2>1. c.srv \in ServerType  BY Numbers
  <2>2. QED  BY <2>1 DEF delivered, Steady, ServerType
<1>4. Matches(c.tcp, v)
  <2>1. c.tcp \in Session  BY Numbers
  <2>2. QED  BY <2>1 DEF forwarded, Session, Matches, Similar
<1> HIDE DEF v, s
<1>5. b \in ServerType /\ b.err /\ Steady(s, b)  BY <1>2 DEF ServerType, Steady
<1>6. d \in Contexts /\ d.tcp = v /\ d.srv = s /\ d.app = c.app /\ d.writes = c.writes
  BY <1>2 DEF Contexts
<1> HIDE DEF b, d
<1>7. x \in Contexts /\ x.tcp = v /\ x.srv = b /\ x.app = c.app /\ x.writes = c.writes
  BY <1>5, <1>6 DEF Contexts
<1> HIDE DEF x
<1>8. Tied(d, u)  BY <1>3, <1>4, <1>6, IdlesSelf, QuietTied
<1>9. Tied(x, u)
  <2>1. Steady(c.srv, b)  BY <1>3, <1>5 DEF Steady
  <2>2. QED  BY <1>4, <1>7, <2>1, IdlesSelf, QuietTied
<1>10. CASE ~o.serr  BY <1>1, <1>6, <1>8, <1>10
<1>11. CASE o.serr
  <2>1. x.tcp.state \notin {"NONE", "LISTEN"}  BY <1>4, <1>7 DEF Matches, Similar, Connected
  <2>2. Reason(x.app, x.srv)  BY <1>5, <1>7 DEF Reason
  <2>3. Tied(write_rst(x), u)  BY <1>7, <1>9, <2>1, <2>2, RstTied
  <2>4. write_rst(x).writes = Fewer(c.writes)  BY <1>7, RstShuts
  <2>5. QED  BY <1>1, <1>11, <2>3, <2>4
<1>12. QED  BY <1>10, <1>11

\* Forwarding and its acknowledgment leave a write for the data of the server.
LEMMA ForwardAndAckTied ==
    ASSUME NEW c \in Contexts, NEW evs, NEW o \in Oracles, c.tcp.state \in Connected,
           NEW u, Tied(c, u), Heard => c.writes >= 3,
           "OUT" \in evs => o.run \subseteq DOMAIN c.tcp.forward /\ SendOutcome(c, o)
    PROVE  LET r == forward_and_ack(c, evs, o) IN Tied(r, u) /\ (Heard => r.writes # 0)
<1> DEFINE fwd == "OUT" \in evs /\ Moved(o)
           d == IF "OUT" \in evs THEN forward_data(c, o) ELSE c
           e == [d EXCEPT !.tcp.recv_window = get_receive_window(d)]
           confirm == fwd /\ e.tcp.forward = EmptyQueue /\ e.tcp.state = "CLOSE_WAIT"
           x == [e EXCEPT !.tcp.remote_seq = @ + (IF confirm THEN 1 ELSE 0)]
           t == [d.tcp EXCEPT !.recv_window = get_receive_window(d)]
           v == [t EXCEPT !.remote_seq = @ + (IF confirm THEN 1 ELSE 0)]
           ack == fwd \/ (c.tcp.recv_window = 0 /\ e.tcp.recv_window > 0)
           r == forward_and_ack(c, evs, o)
<1>1. r = IF ack THEN write_ack(x) ELSE e
  BY DEF forward_and_ack, Moved
<1>2. c.writes \in Nat /\ (Heard => c.writes # 0)  BY DEF Contexts
<1>3. d \in Contexts /\ Stays(c.tcp, d.tcp)  BY ForwardData DEF Stays
<1>4. Tied(d, u) /\ d.writes \in {c.writes, Fewer(c.writes)}  BY <1>2, ForwardTied
<1> HIDE DEF d
<1>5. Heard => d.writes >= 2  BY <1>2, <1>4 DEF Fewer
<1>6. t \in Session /\ Matches(d.tcp, t)
  <2>1. get_receive_window(d) \in Nat  BY <1>3, WindowType
  <2>2. d.tcp \in Session  BY <1>3, Numbers
  <2>3. QED  BY <2>1, <2>2 DEF Session, Matches, Similar
<1>7. e \in Contexts /\ e.tcp = t /\ e.srv = d.srv /\ e.app = d.app /\ e.writes = d.writes
  <2>1. e = [d EXCEPT !.tcp = t]  OBVIOUS
  <2> HIDE DEF e, t
  <2>2. QED  BY <1>3, <1>6, <2>1 DEF Contexts
<1> HIDE DEF e, t
<1>8. v \in Session /\ Matches(t, v)
  BY <1>6 DEF Session, Matches, Similar
<1>9. x \in Contexts /\ x.tcp = v /\ x.srv = d.srv /\ x.app = d.app /\ x.writes = d.writes
  <2>1. x = [e EXCEPT !.tcp = v]  BY <1>7
  <2> HIDE DEF x, v
  <2>2. QED  BY <1>7, <1>8, <2>1 DEF Contexts
<1> HIDE DEF x, v, ack
<1>10. \A s : Steady(s, s)  BY DEF Steady
<1>11. Tied(e, u)  BY <1>4, <1>6, <1>7, <1>10, IdlesSelf, QuietTied
<1>12. Tied(x, u)
  <2>1. Matches(d.tcp, v)  BY <1>6, <1>8 DEF Matches, Similar
  <2>2. QED  BY <1>4, <1>9, <1>10, <2>1, IdlesSelf, QuietTied
<1>13. d.writes \in Nat /\ (Heard => d.writes # 0 /\ Fewer(d.writes) # 0)
  <2>1. d.writes \in Nat  BY <1>3 DEF Contexts
  <2>2. QED  BY <1>5, <2>1 DEF Fewer
<1>14. Tied(write_ack(x), u) /\ write_ack(x).writes = Fewer(d.writes)
  <2>1. x.tcp.state # "NONE"
    BY <1>3, <1>6, <1>8, <1>9 DEF Stays, Connected, Matches, Similar
  <2>2. QED  BY <1>9, <1>12, <1>13, <2>1, AckTied, AckIdles
<1>15. QED  BY <1>1, <1>7, <1>11, <1>13, <1>14

\* The answer of recv() that an outcome holds is one for the context that the
\* forwarding leaves.
LEMMA ReadAnswer ==
    ASSUME tcp \in Session, NEW c \in Contexts, c.tcp = tcp, NEW evs, NEW o \in Outcomes(c, evs),
           "ERR" \notin evs, c.tcp.state # "LISTEN", reads(forward_and_ack(c, evs, o), evs)
    PROVE  ReadOutcome(forward_and_ack(c, evs, o), o)
<1>1. PICK o1 \in SendOutcomes(c, evs) : o \in ReadOutcomes(c, evs, o1)
  BY DEF Outcomes
<1>2. o.run = o1.run /\ o.end = o1.end /\ o.part = o1.part /\ o.serr = o1.serr
  <2>1. \/ o = o1
        \/ o \in [run : {o1.run}, end : {o1.end}, part : {o1.part}, serr : {o1.serr},
                  rd : {"data", "eof", "err"}, n : 1..Mss, rep : {"ok"}, sok : {TRUE}]
    BY <1>1 DEF ReadOutcomes
  <2>2. QED  BY <2>1
<1>3. forwarded(c.tcp, o) = forwarded(c.tcp, o1)  BY <1>2 DEF forwarded
<1>4. delivered(c, o) = delivered(c, o1)  BY <1>2 DEF delivered
<1>5. forward_data(c, o) = forward_data(c, o1)  BY <1>2, <1>3, <1>4 DEF forward_data
<1>6. forward_and_ack(c, evs, o) = forward_and_ack(c, evs, o1)
  BY <1>2, <1>5 DEF forward_and_ack
<1> DEFINE d == forward_and_ack(c, evs, o1)
<1>7. ReadOutcomes(c, evs, o1) =
        IF ~reads(d, evs) THEN {o1}
        ELSE {x \in [run : {o1.run}, end : {o1.end}, part : {o1.part}, serr : {o1.serr},
                     rd : {"data", "eof", "err"}, n : 1..Mss, rep : {"ok"}, sok : {TRUE}] :
                ReadOutcome(d, x)}
  BY Zenon DEF ReadOutcomes
<1>8. d = forward_and_ack(c, evs, o)  BY <1>6
<1> HIDE DEF d
<1>9. reads(d, evs)  BY <1>8
<1>10. ReadOutcome(d, o)  BY <1>1, <1>7, <1>9
<1>11. QED  BY <1>8, <1>10

\* get_send_window lets no more through than the app has room for.
LEMMA WindowFits ==
    ASSUME NEW t \in Session, NEW a \in AppType, NEW u \in Seq(Packet), Credit(t, a, u),
           t.state \in Live, a.rcv_nxt = t.local_seq,
           NEW n \in Nat, n > 0, n <= get_send_window(t)
    PROVE  a.unread + n <= AppBuf
<1> DEFINE k == (t.unconfirmed + 1) * MaxHeader
           l == t.local_seq
           m == t.acked
           w == t.send_window
<1>1. k \in Nat
  <2>1. t.unconfirmed + 1 \in Nat /\ MaxHeader \in Nat
    BY TcpAssumption DEF TcpAssumption, Session
  <2>2. QED  BY <2>1
<1>2. l \in Nat /\ m \in Nat /\ w \in Int  BY DEF Session
<1>3. /\ a.rcv_nxt \in Nat /\ a.unread \in Nat /\ AppBuf \in Nat
      /\ Edge(a) = a.rcv_nxt + AppBuf - a.unread
  BY AppNumbers
<1>4. m + w <= Edge(a)  BY DEF Credit
<1>5. get_send_window(t) = IF l - m + k < w THEN w - (l - m + k) ELSE 0
  BY DEF get_send_window
<1>6. a.rcv_nxt = l  OBVIOUS
<1> HIDE DEF k, l, m, w
<1>7. n <= w - (l - m + k)  BY <1>1, <1>2, <1>5
<1>8. QED  BY <1>1, <1>2, <1>3, <1>4, <1>6, <1>7

\* recv(): the app is in time for all that it gets, and has room for it.
LEMMA ReadTied ==
    ASSUME NEW c \in Contexts, NEW o \in Oracles, c.tcp.state \in {"ESTABLISHED", "CLOSE_WAIT"},
           ReadOutcome(c, o), NEW u \in Seq(Packet), Tied(c, u), Heard => c.writes # 0
    PROVE  Tied(read_socket(c, o), u)
<1> DEFINE a == c.app
<1>1. c.tcp.state \in Joined /\ c.tcp.state \in Live /\ c.tcp.state \notin {"NONE", "LISTEN"}
  BY DEF Joined, Taking, Live
<1>2. a \in AppType /\ c.tcp \in Session /\ c.srv \in ServerType  BY Numbers
<1>3. Bound(c.tcp, a, c.srv, u) /\ Credit(c.tcp, a, u)
  BY DEF Tied, Bound
<1>4. c.app.st = "EST" => c.app.rcv_nxt = c.tcp.local_seq  BY <1>1 DEF Tied, Bound, InSync
<1>5. Heard => (c.tcp.socket => c.tcp.registered)  BY DEF Tied, Bound, Parted
<1>6. CASE o.rd = "err"
  <2>1. read_socket(c, o) = write_rst(c)  BY <1>6 DEF read_socket
  <2>2. c.srv.err  BY <1>6 DEF ReadOutcome
  <2>3. Reason(c.app, c.srv)  BY <2>2 DEF Reason
  <2>4. QED  BY <1>1, <2>1, <2>3, RstTied
<1>7. CASE o.rd = "eof"
  <2> DEFINE s == IF c.tcp.state = "ESTABLISHED" THEN "FIN_WAIT1" ELSE "LAST_ACK"
             w == write_fin_ack(c)
             x == [w EXCEPT !.tcp.local_seq = @ + 1, !.tcp.state = s]
             d == IF c.tcp.forward # EmptyQueue THEN write_rst(c)
                  ELSE IF c.writes = 0 THEN w ELSE x
             r == [d EXCEPT !.tcp.socket = FALSE, !.tcp.registered = FALSE]
  <2>1. read_socket(c, o) = r  BY <1>7, Zenon DEF read_socket
  <2>2. c.srv.eof
    <3>1. ~c.srv.err /\ c.srv.toRead = 0 /\ c.srv.eof  BY <1>7 DEF ReadOutcome
    <3>2. QED  BY <3>1
  <2>3. /\ w \in Contexts /\ w.srv = c.srv
        /\ IF c.writes = 0 THEN w.app = a ELSE Receives(a, w.app, 1, 0)
    BY <1>4, WriteFinAck, FinGets
  <2>4. CASE c.tcp.forward # EmptyQueue
    <3>1. d = write_rst(c)  BY <2>4
    <3> HIDE DEF d
    <3>2. d \in Contexts /\ d.tcp = Reset(c.tcp) /\ d.srv = c.srv /\ Tied(d, u)
      <4>1. Reason(c.app, c.srv)  BY <2>2 DEF Reason
      <4>2. QED  BY <1>1, <3>1, <4>1, WriteRst, RstTied
    <3>3. d.tcp.state = "CLOSING" /\ d.tcp \in Session
      BY <1>2, <3>2, Numbers DEF Reset, Session
    <3>4. /\ r.tcp.state = "CLOSING" /\ r.app = d.app /\ r.srv = d.srv /\ ~r.tcp.socket
          /\ r.tcp.local_seq = d.tcp.local_seq
      BY <3>2, <3>3 DEF Contexts, Session
    <3> HIDE DEF r
    <3>5. Shuts(d.app, r.app)  BY <3>4, IdlesSelf, IdlesShuts
    <3>6. Heard => Parted(r.tcp, r.app, r.srv)  BY <3>2, <3>3, <3>4 DEF Tied, Bound, Parted
    <3>7. Reason(r.app, r.srv)  BY <2>2, <3>2, <3>4 DEF Reason
    <3>8. Bound(d.tcp, d.app, d.srv, u) /\ d.tcp.state # "NONE"  BY <3>2, <3>3 DEF Tied
    <3>9. Bound(r.tcp, r.app, r.srv, u)  BY <3>4, <3>5, <3>6, <3>7, <3>8, EndedBound
    <3>10. QED  BY <2>1, <3>9 DEF Tied
  <2>5. CASE c.tcp.forward = EmptyQueue /\ c.writes = 0
    <3>1. d = w  BY <2>5
    <3>2. w.tcp = [c.tcp EXCEPT !.state = "CLOSING"]  BY <2>5, WriteFinAck
    <3> HIDE DEF d, w
    <3>3. d \in Contexts /\ d.tcp \in Session /\ d.tcp.state = "CLOSING" /\ d.app = a
      BY <1>2, <2>3, <2>5, <3>1, <3>2 DEF Contexts, Session
    <3>4. r.tcp.state = "CLOSING" /\ r.app = a
      BY <3>3 DEF Contexts, Session
    <3> HIDE DEF r
    <3>5. Shuts(c.app, r.app)  BY <3>4, IdlesSelf, IdlesShuts
    <3>6. Tied(r, u)  BY <1>1, <2>5, <3>4, <3>5, FailedTied
    <3>7. QED  BY <2>1, <3>6
  <2>6. CASE c.tcp.forward = EmptyQueue /\ c.writes # 0
    <3>1. d = x  BY <2>6
    <3>2. w.tcp = c.tcp  BY <2>6, WriteFinAck
    <3> HIDE DEF w
    <3>3. /\ r.tcp.state = s /\ r.tcp.local_seq = c.tcp.local_seq + 1 /\ ~r.tcp.socket
          /\ r.tcp.acked = c.tcp.acked /\ r.tcp.send_window = c.tcp.send_window
          /\ r.srv = c.srv /\ r.app = w.app
      BY <1>2, <2>3, <2>6, <3>2 DEF Contexts, Session
    <3>4. w.app \in AppType  BY <2>3, Numbers
    <3> HIDE DEF r, x, d
    <3>5. Receives(a, r.app, 1, 0)  BY <2>3, <2>6, <3>3
    <3>6. a.st = "EST" => a.unread + 0 <= AppBuf
      <4>1. a.unread <= AppBuf /\ a.unread \in Nat  BY <1>2, <1>3 DEF Bound, InFlight, AppType
      <4>2. QED  BY <4>1
    <3>7. /\ r.tcp.state = (IF c.tcp.state = "ESTABLISHED" THEN "FIN_WAIT1" ELSE "LAST_ACK")
          /\ c.srv.eof /\ r.srv = c.srv /\ r.srv.eof = c.srv.eof
      BY <2>2, <3>3
    <3>8. r.srv \in ServerType /\ r.app \in AppType /\ 1 \in Nat /\ 0 \in Nat /\ 0 <= 1
      BY <1>2, <3>3, <3>4
    <3> HIDE DEF a, s
    <3>9. Bound(r.tcp, r.app, r.srv, u)
      BY <1>2, <1>3, <3>3, <3>5, <3>6, <3>7, <3>8, ReceivedBound
    <3>10. QED  BY <2>1, <3>9 DEF Tied
  <2>7. QED  BY <2>4, <2>5, <2>6
<1>8. CASE o.rd = "data"
  <2> DEFINE d == [c EXCEPT !.srv.toRead = @ - o.n]
             w == write_data(d, o.n)
             x == [w EXCEPT !.tcp.local_seq = @ + o.n, !.tcp.unconfirmed = @ + 1]
  <2>1. read_socket(c, o) = IF c.writes = 0 THEN w ELSE x
    BY <1>8, Zenon DEF read_socket
  <2>2. o.n \in 1..c.srv.toRead /\ o.n <= get_send_window(c.tcp)
    <3>1. /\ ~c.srv.err /\ o.n \in 1..c.srv.toRead
          /\ o.n <= get_send_window(c.tcp) /\ o.n <= Mss
      BY <1>8 DEF ReadOutcome
    <3>2. QED  BY <3>1
  <2>3. o.n \in Nat /\ o.n > 0  BY <2>2 DEF Oracles
  <2>4. /\ d \in Contexts /\ d.tcp = c.tcp /\ d.app = c.app /\ d.writes = c.writes
        /\ d.srv \in ServerType /\ d.srv.sent = c.srv.sent /\ d.srv.eof = c.srv.eof
        /\ d.srv.toRead = c.srv.toRead - o.n
    <3> DEFINE k == c.srv.toRead - o.n
               z == [c.srv EXCEPT !.toRead = k]
    <3>1. k \in Int  BY <1>2, <2>3 DEF ServerType
    <3>2. d = [c EXCEPT !.srv = z]  OBVIOUS
    <3> HIDE DEF k, d
    <3>3. /\ z \in ServerType /\ z.sent = c.srv.sent /\ z.eof = c.srv.eof
          /\ z.toRead = k
      BY <1>2, <3>1 DEF ServerType
    <3> HIDE DEF z
    <3>4. /\ d \in Contexts /\ d.tcp = c.tcp /\ d.app = c.app
          /\ d.writes = c.writes /\ d.srv = z
      BY <3>2, <3>3 DEF Contexts
    <3>5. QED  BY <3>3, <3>4 DEF k
  <2> HIDE DEF d
  <2>5. /\ w \in Contexts /\ w.srv = d.srv
        /\ IF c.writes = 0 THEN w.app = a ELSE Receives(a, w.app, o.n, o.n)
    <3>1. w \in Contexts /\ w.srv = d.srv  BY <2>3, <2>4, WriteData
    <3>2. d.app.st = "EST" => d.app.rcv_nxt = d.tcp.local_seq  BY <1>4, <2>4
    <3>3. IF d.writes = 0 THEN w.app = d.app ELSE Receives(d.app, w.app, o.n, o.n)
      BY <2>3, <2>4, <3>2, DataGets
    <3>4. QED  BY <2>4, <3>1, <3>3
  <2>6. CASE c.writes = 0
    <3>1. w.tcp = [c.tcp EXCEPT !.state = "CLOSING"]  BY <2>3, <2>4, <2>6, WriteData
    <3> HIDE DEF w
    <3>2. w.tcp.state = "CLOSING" /\ w.app = a  BY <1>2, <2>5, <2>6, <3>1 DEF Session
    <3>3. Shuts(c.app, w.app)  BY <3>2, IdlesSelf, IdlesShuts
    <3>4. Tied(w, u)  BY <1>1, <2>6, <3>2, <3>3, FailedTied
    <3>5. QED  BY <2>1, <2>6, <3>4
  <2>7. CASE c.writes # 0
    <3>1. w.tcp = c.tcp  BY <2>3, <2>4, <2>7, WriteData
    <3>2. w.app \in AppType  BY <2>5, Numbers
    <3> HIDE DEF w
    <3>3. /\ x.tcp.state = c.tcp.state /\ x.tcp.local_seq = c.tcp.local_seq + o.n
          /\ x.tcp.socket = c.tcp.socket /\ x.tcp.registered = c.tcp.registered
          /\ x.tcp.acked = c.tcp.acked /\ x.tcp.send_window = c.tcp.send_window
          /\ x.srv = w.srv /\ x.app = w.app
      BY <1>2, <2>5, <3>1 DEF Contexts, Session
    <3> HIDE DEF x
    <3>4. Receives(a, x.app, o.n, o.n)  BY <2>5, <2>7, <3>3
    <3>5. a.st = "EST" => a.unread + o.n <= AppBuf
      BY <1>1, <1>2, <1>3, <1>4, <2>2, <2>3, WindowFits
    <3>6. o.n <= o.n  BY <2>3
    <3>7. Heard => (x.tcp.socket => x.tcp.registered)  BY <1>5, <3>3
    <3>8. /\ x.srv \in ServerType /\ x.app \in AppType /\ x.srv.eof = c.srv.eof
          /\ x.srv.sent = c.srv.sent /\ x.srv.toRead = c.srv.toRead - o.n
      BY <2>4, <2>5, <3>2, <3>3
    <3> HIDE DEF a
    <3>9. Bound(x.tcp, x.app, x.srv, u)
      BY <1>2, <1>3, <2>3, <3>3, <3>4, <3>5, <3>6, <3>7, <3>8, ReceivedBound
    <3>10. QED  BY <2>1, <2>7, <3>9 DEF Tied
  <2>8. QED  BY <2>6, <2>7
<1>9. QED  BY <1>6, <1>7, <1>8 DEF Oracles

\* A reply of the proxy.
LEMMA SocksReplyTied ==
    ASSUME NEW c \in Contexts, NEW o \in Oracles, c.tcp.state = "LISTEN",
           c.tcp.remote_seq = RemoteStart, ~Calm, NEW u, Tied(c, u), Heard => c.writes >= 3
    PROVE  Tied(socks_reply(c, o), u) /\ (Heard => socks_reply(c, o).writes # 0)
<1> DEFINE to(s) == [c EXCEPT !.tcp.socks5 = s]
           fail == write_rst(to("FAILED"))
           Good(r) == Tied(r, u) /\ (Heard => r.writes # 0)
<1>1. c.tcp \in Session /\ c.writes \in Nat  BY DEF Contexts
<1>2. Heard => c.writes # 0 /\ Fewer(c.writes) # 0  BY <1>1 DEF Fewer
<1>3. ASSUME NEW s \in Socks
      PROVE  /\ to(s) \in Contexts /\ to(s).tcp.state = "LISTEN" /\ Good(to(s))
             /\ to(s).tcp.remote_seq = RemoteStart /\ to(s).writes = c.writes
  <2>1. to(s) \in Contexts  BY WithSocks
  <2>2. /\ Similar(c.tcp, to(s).tcp) /\ to(s).srv = c.srv /\ to(s).app = c.app
        /\ to(s).tcp.socket = c.tcp.socket /\ to(s).tcp.registered = c.tcp.registered
        /\ to(s).tcp.state = "LISTEN" /\ to(s).tcp.remote_seq = RemoteStart
        /\ to(s).writes = c.writes
    BY <1>1, <2>1 DEF Contexts, Session, Similar
  <2> HIDE DEF to
  <2>3. Heard => (to(s).tcp.socket => to(s).tcp.registered)  BY <2>2 DEF Tied, Bound, Parted
  <2>4. Bound(to(s).tcp, to(s).app, to(s).srv, u)
    BY <2>2, <2>3, IdlesSelf, QuietBound DEF Tied
  <2>5. QED  BY <1>2, <2>1, <2>2, <2>4 DEF Tied
<1>4. Good(fail)
  <2>1. "FAILED" \in Socks  BY DEF Socks
  <2> HIDE DEF to
  <2>2. write_rst(to("FAILED")).writes = Fewer(c.writes)  BY <1>3, <2>1, RstShuts
  <2>3. QED  BY <1>2, <1>3, <2>1, <2>2, RstTied
<1>5. Good(write_rst(c))  BY <1>2, RstTied, RstShuts
<1>6. socks_reply(c, o) \in {write_rst(c), fail, to("AUTH"), to("CONNECTED"), to("CONNECT")}
  BY DEF socks_reply, Oracles
<1> HIDE DEF fail, to, Good
<1>7. Good(socks_reply(c, o))  BY <1>3, <1>4, <1>5, <1>6 DEF Socks
<1>8. QED  BY <1>7 DEF Good

\* The app and the session are connected in one step.
LEMMA StartBound ==
    ASSUME NEW t \in Session, NEW a \in AppType, NEW s \in ServerType, NEW u \in Seq(Packet),
           Bound(t, a, s, u), t.state = "LISTEN",
           NEW b \in AppType, b.snd_nxt = a.snd_nxt, b.fin = a.fin, b.unread = a.unread,
           NEW v, v.state = "SYN_RECV", v.local_seq = t.local_seq + 1,
           v.acked = t.acked, v.send_window = t.send_window, Heard => (v.socket => v.registered),
           IF a.st = "SYN_SENT" THEN b.st = "EST" /\ b.rcv_nxt = v.local_seq
           ELSE b.st = a.st /\ b.rcv_nxt = a.rcv_nxt
    PROVE  Bound(v, b, s, u)
<1>1. /\ Met(t, a, u) /\ InFlight(a, u) /\ Credit(t, a, u) /\ InSync(t, a, s)
      /\ Calm => Blameless(t, a, s, u)
  BY DEF Bound
<1>2. a.st \in {"SYN_SENT", "ABORTED"} /\ b.st \in {"EST", "ABORTED"}  BY <1>1 DEF Met
<1>3. Met(v, b, u)  BY <1>2 DEF Met, Joined, Taking
<1>4. a.rcv_nxt <= b.rcv_nxt /\ Edge(a) <= Edge(b) /\ b.unread <= AppBuf
  <2>1. /\ a.rcv_nxt \in Nat /\ a.unread \in Nat /\ AppBuf \in Nat /\ b.rcv_nxt \in Nat
        /\ Edge(a) = a.rcv_nxt + AppBuf - a.unread /\ Edge(b) = b.rcv_nxt + AppBuf - b.unread
    BY AppNumbers
  <2>2. b.unread <= AppBuf  BY <1>1 DEF InFlight
  <2>3. a.rcv_nxt <= b.rcv_nxt
    <3>1. CASE a.st = "SYN_SENT"
      <4>1. a.rcv_nxt = 0  BY <1>1, <3>1 DEF Met
      <4>2. QED  BY <2>1, <4>1
    <3>2. CASE a.st # "SYN_SENT"  BY <2>1, <3>2
    <3>3. QED  BY <3>1, <3>2
  <2>4. QED  BY <2>1, <2>2, <2>3
<1>5. InFlight(b, u)  BY <1>1, <1>2, <1>4, GrowsInFlight
<1>6. Credit(v, b, u)  BY <1>1, <1>4, GrowsCredit DEF Live
<1>7. InSync(v, b, s)
  <2>1. LocalStart \in Nat  BY TcpAssumption DEF TcpAssumption
  <2>2. t.local_seq = LocalStart /\ s.sent = 0 /\ s.toRead = 0  BY <1>1 DEF InSync
  <2>3. v.local_seq = LocalStart + 1 + s.sent - s.toRead + 0  BY <2>1, <2>2
  <2>4. b.st = "EST" => b.rcv_nxt = v.local_seq  BY <1>2
  <2>5. QED  BY <2>3, <2>4 DEF InSync, Joined, Taking
<1>8. Heard => Parted(v, b, s)  BY DEF Parted
<1>9. Calm => Blameless(v, b, s, u)  BY <1>1 DEF Blameless
<1>10. QED  BY <1>3, <1>5, <1>6, <1>7, <1>8, <1>9 DEF Bound

\* Connecting.
LEMMA ConnectTied ==
    ASSUME NEW c \in Contexts, NEW evs, NEW o \in Oracles, Kept(c), c.tcp.state = "LISTEN",
           NEW u \in Seq(Packet), Tied(c, u), Heard => c.writes >= 3
    PROVE  Tied(connect(c, evs, o), u)
<1> DEFINE s1 == IF Socks5 THEN "HELLO" ELSE "CONNECTED"
           h == [c EXCEPT !.tcp.socks5 = s1]
           a == [c EXCEPT !.srv.socks = "idle"]
           d == IF c.tcp.socks5 = "NONE"
                THEN IF "OUT" \in evs THEN h ELSE c
                ELSE IF "IN" \in evs THEN socks_reply(a, o) ELSE c
           syn == [d EXCEPT !.tcp.remote_seq = @ + 1]
           asked == [d EXCEPT !.srv.socks = "asked"]
           broken == [d EXCEPT !.srv.err = TRUE]
           w == write_syn_ack(syn)
           x == [w EXCEPT !.tcp.local_seq = @ + 1, !.tcp.state = "SYN_RECV"]
           r == connect(c, evs, o)
           Good(e) == /\ Tied(e, u) /\ (Heard => e.writes # 0)
                      /\ e.tcp.state \in {"LISTEN", "CLOSING"}
                      /\ e.tcp.state = "LISTEN" => e.tcp.remote_seq = RemoteStart
                      /\ e.tcp.state = "CLOSING" => e.tcp.socks5 # "CONNECTED"
<1>1. \/ d.tcp.socks5 # "CONNECTED" /\ r \in {asked, write_rst(broken), d}
      \/ d.tcp.socks5 = "CONNECTED" /\ r = IF d.writes = 0 THEN w ELSE x
  <2>1. r = CASE d.tcp.socks5 \in {"HELLO", "AUTH", "CONNECT"} ->
                   IF o.sok THEN asked ELSE write_rst(broken)
              [] d.tcp.socks5 = "CONNECTED" -> IF d.writes = 0 THEN w ELSE x
              [] OTHER -> d
    BY Zenon DEF connect
  <2> HIDE DEF d, asked, broken, w, x, r
  <2>2. QED  BY <2>1
<1>2. d \in Contexts /\ Good(d)
  <2>1. c.tcp.remote_seq = RemoteStart /\ c.tcp.socks5 # "CONNECTED"
    BY DEF Kept, Tally, Waiting
  <2>2. c.writes \in Nat /\ (Heard => c.writes # 0)  BY DEF Contexts
  <2>3. h \in Contexts /\ Good(h)
    <3>1. s1 \in Socks /\ (Calm => s1 = "CONNECTED")  BY DEF Socks, Calm
    <3> HIDE DEF s1
    <3>2. h \in Contexts  BY <3>1, WithSocks
    <3>3. /\ Similar(c.tcp, h.tcp) /\ h.srv = c.srv /\ h.app = c.app /\ h.tcp.socks5 = s1
          /\ h.tcp.socket = c.tcp.socket /\ h.tcp.registered = c.tcp.registered
          /\ h.tcp.state = "LISTEN" /\ h.tcp.remote_seq = RemoteStart /\ h.writes = c.writes
      BY <2>1, Numbers DEF Contexts, Session, Similar
    <3> HIDE DEF h
    <3>4. Heard => (h.tcp.socket => h.tcp.registered)  BY <3>3 DEF Tied, Bound, Parted
    <3>5. Bound(h.tcp, h.app, h.srv, u)
      BY <3>1, <3>3, <3>4, IdlesSelf, QuietBound DEF Tied
    <3>6. QED  BY <2>2, <3>2, <3>3, <3>5 DEF Tied
  <2>4. c.tcp.socks5 # "NONE" => socks_reply(a, o) \in Contexts /\ Good(socks_reply(a, o))
    <3> SUFFICES ASSUME c.tcp.socks5 # "NONE"
                 PROVE  socks_reply(a, o) \in Contexts /\ Good(socks_reply(a, o))
      OBVIOUS
    <3>1. ~Calm  BY <2>1 DEF Tied, Bound, Blameless
    <3>2. [c.srv EXCEPT !.socks = "idle"] \in ServerType  BY DEF Contexts, ServerType
    <3>3. /\ a \in Contexts /\ a.tcp = c.tcp /\ a.app = c.app /\ Steady(c.srv, a.srv)
          /\ a.srv.next = c.srv.next /\ a.srv.intact = c.srv.intact /\ a.writes = c.writes
      BY <3>2, Numbers DEF Contexts, ServerType, Steady
    <3> HIDE DEF a
    <3>4. Kept(a)  BY <3>3 DEF Kept
    <3>5. Matches(c.tcp, a.tcp)  BY <3>3 DEF Matches, Similar
    <3>6. Tied(a, u)  BY <3>3, <3>5, IdlesSelf, QuietTied
    <3> DEFINE y == socks_reply(a, o)
    <3>7. y \in Contexts /\ Tied(y, u) /\ (Heard => y.writes # 0)
      BY <2>1, <3>1, <3>3, <3>6, SocksReply, SocksReplyTied
    <3>8. /\ Tally(y.tcp.state, y.tcp.remote_seq, y.tcp.forward, y.srv.next)
          /\ y.tcp.state \in {"LISTEN", "CLOSING"}
          /\ y.tcp.state = "CLOSING" => y.tcp.socks5 # "CONNECTED"
      BY <3>3, <3>4, SocksReplyKept
    <3> HIDE DEF y
    <3>9. QED  BY <3>7, <3>8 DEF Tally, y
  <2>5. Good(c)  BY <2>1, <2>2
  <2> HIDE DEF Good, a, h
  <2>6. QED  BY <2>3, <2>4, <2>5
<1> HIDE DEF d
<1>3. d.tcp \in Session /\ d.srv \in ServerType /\ d.tcp.remote_seq \in Int /\ d.app \in AppType
  BY <1>2, Numbers
<1>4. CASE d.tcp.socks5 # "CONNECTED"
  <2>1. asked.tcp = d.tcp /\ asked.app = d.app /\ Steady(d.srv, asked.srv)
    BY <1>2, <1>3 DEF Contexts, ServerType, Steady
  <2>2. /\ broken \in Contexts /\ broken.tcp = d.tcp /\ broken.app = d.app
        /\ broken.srv.err /\ Steady(d.srv, broken.srv) /\ broken.writes = d.writes
    <3>1. [d.srv EXCEPT !.err = TRUE] \in ServerType  BY <1>3 DEF ServerType
    <3>2. QED  BY <1>2, <1>3, <3>1 DEF Contexts, ServerType, Steady
  <2> HIDE DEF broken, asked
  <2>3. Matches(d.tcp, d.tcp)  BY DEF Matches, Similar
  <2>4. Tied(asked, u) /\ Tied(broken, u)  BY <1>2, <2>1, <2>2, <2>3, IdlesSelf, QuietTied
  <2> DEFINE z == write_rst(broken)
  <2>5. Tied(z, u)
    <3>1. Reason(broken.app, broken.srv)  BY <2>2 DEF Reason
    <3>2. QED  BY <1>2, <2>2, <2>4, <3>1, RstTied
  <2> HIDE DEF z
  <2>6. r \in {asked, z, d}  BY <1>1, <1>4 DEF z
  <2>7. QED  BY <1>2, <2>4, <2>5, <2>6
<1>5. CASE d.tcp.socks5 = "CONNECTED"
  <2>1. /\ d.tcp.state = "LISTEN" /\ d.tcp.remote_seq = RemoteStart
        /\ Bound(d.tcp, d.app, d.srv, u)
        /\ d.app.st = "SYN_SENT" => d.app.snd_nxt = RemoteStart + 1
    BY <1>2, <1>5 DEF Tied, Bound, Met
  <2> DEFINE t == [d.tcp EXCEPT !.remote_seq = @ + 1]
  <2>2. /\ t \in Session /\ t.local_seq = d.tcp.local_seq /\ Matches(d.tcp, t)
        /\ t.remote_seq = RemoteStart + 1
    <3>1. t \in Session
      <4>1. d.tcp.remote_seq + 1 \in Int  BY <1>3 DEF Session
      <4>2. QED  BY <1>3, <4>1 DEF Session
    <3>2. t.remote_seq = RemoteStart + 1  BY <1>3, <2>1 DEF Session
    <3>3. t.local_seq = d.tcp.local_seq /\ Matches(d.tcp, t)
      BY <1>3 DEF Session, Matches, Similar
    <3>4. QED  BY <3>1, <3>2, <3>3
  <2> HIDE DEF t
  <2>3. syn \in Contexts /\ syn.tcp = t /\ syn.srv = d.srv /\ syn.app = d.app /\ syn.writes = d.writes
    <3>1. syn = [d EXCEPT !.tcp = t]  BY DEF t
    <3> HIDE DEF syn
    <3>2. QED  BY <1>2, <2>2, <3>1 DEF Contexts
  <2> HIDE DEF syn
  <2>4. w \in Contexts /\ w.srv = d.srv  BY <2>3, WriteSynAck
  <2>5. IF d.writes # 0 /\ d.app.st = "SYN_SENT" /\ t.remote_seq = d.app.snd_nxt
        THEN /\ w.app.st = "EST" /\ w.app.snd_nxt = d.app.snd_nxt /\ w.app.fin = d.app.fin
             /\ w.app.rcv_nxt = t.local_seq + 1 /\ w.app.unread = d.app.unread
        ELSE w.app = d.app
    BY <2>3, SynAckGets
  <2>6. CASE d.writes = 0
    <3>1. w.tcp = [t EXCEPT !.state = "CLOSING"]  BY <2>3, <2>6, WriteSynAck
    <3> HIDE DEF w
    <3>2. w.tcp.state = "CLOSING" /\ w.app = d.app  BY <2>2, <2>5, <2>6, <3>1 DEF Session
    <3>3. Shuts(d.app, w.app)  BY <3>2, IdlesSelf, IdlesShuts
    <3>4. r = w  BY <1>1, <1>5, <2>6
    <3>5. QED  BY <1>2, <2>1, <2>6, <3>2, <3>3, <3>4, FailedTied
  <2>7. CASE d.writes # 0
    <3>1. w.tcp = t  BY <2>3, <2>7, WriteSynAck
    <3>2. w.app \in AppType  BY <2>4, Numbers
    <3> HIDE DEF w
    <3>3. /\ x.tcp.state = "SYN_RECV" /\ x.tcp.local_seq = d.tcp.local_seq + 1
          /\ x.tcp.acked = d.tcp.acked /\ x.tcp.send_window = d.tcp.send_window
          /\ x.tcp.socket = d.tcp.socket /\ x.tcp.registered = d.tcp.registered
          /\ x.srv = d.srv /\ x.app = w.app
      <4>1. /\ t.acked = d.tcp.acked /\ t.send_window = d.tcp.send_window
            /\ t.socket = d.tcp.socket /\ t.registered = d.tcp.registered
        BY <2>2 DEF Matches, Similar
      <4>2. QED  BY <2>2, <2>4, <3>1, <4>1 DEF Contexts, Session
    <3> HIDE DEF x
    <3>4. /\ x.app.snd_nxt = d.app.snd_nxt /\ x.app.fin = d.app.fin
          /\ x.app.unread = d.app.unread
          /\ IF d.app.st = "SYN_SENT" THEN x.app.st = "EST" /\ x.app.rcv_nxt = x.tcp.local_seq
             ELSE x.app.st = d.app.st /\ x.app.rcv_nxt = d.app.rcv_nxt
      BY <2>1, <2>2, <2>5, <2>7, <3>3
    <3>5. Heard => (x.tcp.socket => x.tcp.registered)
      BY <2>1, <3>3 DEF Bound, Parted
    <3>6. x.app \in AppType  BY <3>2, <3>3
    <3>7. Bound(x.tcp, x.app, d.srv, u)
      BY <1>3, <2>1, <3>3, <3>4, <3>5, <3>6, StartBound
    <3>8. r = x  BY <1>1, <1>5, <2>7
    <3>9. QED  BY <3>3, <3>7, <3>8 DEF Tied
  <2>8. QED  BY <2>6, <2>7
<1>6. QED  BY <1>4, <1>5

\* check_tcp_socket, for an outcome that the kernel can produce.
LEMMA CheckTcpSocketTied ==
    ASSUME tcp \in Session, NEW c \in Contexts, c.tcp = tcp, NEW evs, NEW o \in Outcomes(c, evs),
           Kept(c), Sound(c.tcp), c.tcp.socket, NEW u \in Seq(Packet), Tied(c, u),
           Heard => c.writes >= 3, "ERR" \in evs => c.srv.err
    PROVE  Tied(check_tcp_socket(c, evs, o), u)
<1>1. c.tcp.state \in Connected \union {"LISTEN"} /\ c.writes \in Nat
  BY Numbers DEF Sound, States, Live, Connected, Contexts
<1>2. /\ o \in Oracles
      /\ /\ "ERR" \notin evs /\ c.tcp.state # "LISTEN" /\ "OUT" \in evs
         => o.run \subseteq DOMAIN c.tcp.forward /\ SendOutcome(c, o)
  BY OutcomesType
<1>3. CASE "ERR" \in evs
  <2>1. check_tcp_socket(c, evs, o) = write_rst(c)  BY <1>3 DEF check_tcp_socket
  <2>2. Reason(c.app, c.srv)  BY <1>3 DEF Reason
  <2>3. c.tcp.state = "LISTEN" => c.tcp.remote_seq = RemoteStart  BY DEF Kept, Tally
  <2>4. c.tcp.state # "NONE" /\ (Heard => c.writes # 0)  BY <1>1 DEF Connected
  <2>5. QED  BY <2>1, <2>2, <2>3, <2>4, RstTied
<1>4. CASE "ERR" \notin evs /\ c.tcp.state = "LISTEN"
  BY <1>2, <1>4, ConnectTied DEF check_tcp_socket
<1>5. CASE "ERR" \notin evs /\ c.tcp.state # "LISTEN"
  <2> DEFINE d == forward_and_ack(c, evs, o)
  <2>1. check_tcp_socket(c, evs, o) = IF reads(d, evs) THEN read_socket(d, o) ELSE d
    BY <1>5 DEF check_tcp_socket
  <2>2. d \in Contexts /\ Tied(d, u) /\ (Heard => d.writes # 0)
    BY <1>1, <1>2, <1>5, ForwardAndAck, ForwardAndAckTied
  <2>3. reads(d, evs) => ReadOutcome(d, o)  BY <1>5, ReadAnswer
  <2> HIDE DEF d
  <2>4. reads(d, evs) => d.tcp.state \in {"ESTABLISHED", "CLOSE_WAIT"}  BY DEF reads
  <2>5. QED  BY <1>2, <2>1, <2>2, <2>3, <2>4, ReadTied
<1>6. QED  BY <1>3, <1>4, <1>5

-----------------------------------------------------------------------------
(* handle_tcp *)

\* What the session that receives a packet knows of it and of those behind it.
First(t, a, p, w) ==
    /\ Honest(a, p)
    /\ t.state \in Live => t.acked <= p.ack
    /\ \A i \in 1..Len(w) : p.ack <= w[i].ack
    /\ a.st = "SYN_SENT" => p.flags = {"SYN"}
    /\ Calm => /\ "FIN" \in p.flags => \A i \in 1..Len(w) : w[i].len = 0
               /\ t.state = "CLOSE_WAIT" => p.len = 0

\* The first packet.
LEMMA HeadFirst ==
    ASSUME NEW t, NEW a, NEW s, NEW u \in Seq(Packet), u # <<>>, Bound(t, a, s, u)
    PROVE  First(t, a, Head(u), Tail(u)) /\ a.st # "CLOSED"
<1> DEFINE w == Tail(u)
<1>1. /\ Len(u) \in Nat \ {0} /\ Len(w) = Len(u) - 1 /\ Head(u) = u[1]
      /\ \A i \in 1..Len(w) : i + 1 \in 1..Len(u) /\ w[i] = u[i + 1]
  BY TailFacts
<1> HIDE DEF w
<1>2. /\ Met(t, a, u) /\ InFlight(a, u) /\ Credit(t, a, u)
      /\ Calm => Blameless(t, a, s, u)
  BY DEF Bound
<1>3. 1 \in 1..Len(u)  BY <1>1
<1>4. Honest(a, u[1]) /\ (t.state \in Live => t.acked <= u[1].ack)
  BY <1>2, <1>3 DEF InFlight, Credit
<1>5. ASSUME NEW i \in 1..Len(w) PROVE u[1].ack <= w[i].ack /\ i + 1 \in (1 + 1)..Len(u)
  <2>1. i + 1 \in 1..Len(u) /\ w[i] = u[i + 1] /\ i \in Nat /\ i >= 1  BY <1>1, <1>5
  <2>2. 1 \in 1..(i + 1) /\ i + 1 \in (1 + 1)..Len(u)  BY <1>1, <2>1
  <2>3. u[1].ack <= u[i + 1].ack  BY <1>2, <2>1, <2>2 DEF InFlight
  <2>4. QED  BY <2>1, <2>2, <2>3
<1>6. a.st = "SYN_SENT" => u[1].flags = {"SYN"}  BY <1>2, <1>3 DEF Met
<1>7. ASSUME Calm
      PROVE  /\ "FIN" \in u[1].flags => \A i \in 1..Len(w) : w[i].len = 0
             /\ t.state = "CLOSE_WAIT" => u[1].len = 0
  <2>1. Blameless(t, a, s, u)  BY <1>2, <1>7
  <2>2. "FIN" \in u[1].flags => \A j \in (1 + 1)..Len(u) : u[j].len = 0
    BY <1>3, <2>1 DEF Blameless
  <2>3. "FIN" \in u[1].flags => \A i \in 1..Len(w) : w[i].len = 0
    BY <1>1, <1>5, <2>2
  <2>4. t.state = "CLOSE_WAIT" => u[1].len = 0  BY <1>3, <2>1 DEF Blameless
  <2>5. QED  BY <2>3, <2>4
<1>8. a.st # "CLOSED"  BY <1>2 DEF Met
<1>9. First(t, a, u[1], w)  BY <1>4, <1>5, <1>6, <1>7 DEF First
<1>10. QED  BY <1>1, <1>8, <1>9 DEF w

\* The packets behind the first one, and the session that has taken the window
\* from it.
LEMMA TailBound ==
    ASSUME NEW t \in Session, NEW a \in AppType, NEW s, NEW u \in Seq(Packet), u # <<>>,
           Bound(t, a, s, u),
           NEW v, v.state = t.state, v.local_seq = t.local_seq, v.acked = t.acked,
           v.send_window \in {t.send_window, Head(u).win},
           v.socket = t.socket, v.registered = t.registered, v.socks5 = t.socks5
    PROVE  Bound(v, a, s, Tail(u))
<1> DEFINE w == Tail(u)
           p == Head(u)
<1>1. /\ Len(u) \in Nat \ {0} /\ Len(w) = Len(u) - 1 /\ p \in Packet
      /\ \A i \in 1..Len(w) : i + 1 \in 1..Len(u) /\ w[i] = u[i + 1]
  BY TailFacts
<1>2. First(t, a, p, w) /\ a.st # "CLOSED"  BY HeadFirst
<1> HIDE DEF w, p
<1>3. /\ Met(t, a, u) /\ InFlight(a, u) /\ Credit(t, a, u) /\ InSync(t, a, s)
      /\ Heard => Parted(t, a, s)
      /\ Calm => Blameless(t, a, s, u)
  BY DEF Bound
<1>4. Met(v, a, w)
  <2>1. HasSyn(w) => HasSyn(u)  BY <1>1 DEF HasSyn
  <2>2. a.st = "SYN_SENT" => \A i \in 1..Len(w) : w[i].flags = {"SYN"}
    BY <1>1, <1>3 DEF Met
  <2>3. QED  BY <1>2, <1>3, <2>1, <2>2 DEF Met
<1>5. InFlight(a, w)
  <2>1. a.unread <= AppBuf  BY <1>3 DEF InFlight
  <2>2. ASSUME NEW i \in 1..Len(w), NEW j \in 1..i PROVE w[j].ack <= w[i].ack
    <3>1. i + 1 \in 1..Len(u) /\ w[i] = u[i + 1]  BY <1>1
    <3>2. j \in 1..Len(w) /\ j + 1 \in 1..(i + 1)  BY <1>1
    <3>3. w[j] = u[j + 1]  BY <1>1, <3>2
    <3>4. u[j + 1].ack <= u[i + 1].ack  BY <1>3, <3>1, <3>2 DEF InFlight
    <3>5. QED  BY <3>1, <3>3, <3>4
  <2>3. \A i \in 1..Len(w) : Honest(a, w[i])  BY <1>1, <1>3 DEF InFlight
  <2>4. QED  BY <2>1, <2>2, <2>3 DEF InFlight
<1>6. Credit(v, a, w)
  <2> SUFFICES ASSUME v.state \in Live PROVE Credit(v, a, w)  BY DEF Credit
  <2> DEFINE k == t.acked
             m == v.send_window
  <2>1. k <= a.rcv_nxt /\ k + t.send_window <= Edge(a) /\ k <= p.ack
    BY <1>2, <1>3 DEF Credit, First
  <2>2. p.ack + p.win <= Edge(a)  BY <1>2 DEF First, Honest
  <2>3. k \in Nat /\ t.send_window \in Int /\ p.ack \in Nat /\ p.win \in Int
    BY <1>1 DEF Session, Packet
  <2>4. Edge(a) \in Int  BY AppNumbers
  <2>5. m = t.send_window \/ m = p.win  BY DEF p
  <2>6. \A i \in 1..Len(w) : k <= w[i].ack  BY <1>1, <1>3 DEF Credit
  <2> HIDE DEF k, m
  <2>7. k + m <= Edge(a)  BY <2>1, <2>2, <2>3, <2>4, <2>5
  <2>8. QED  BY <2>1, <2>6, <2>7 DEF Credit, k, m
<1>7. InSync(v, a, s)  BY <1>3 DEF InSync
<1>8. Heard => Parted(v, a, s)  BY <1>3 DEF Parted
<1>9. Calm => Blameless(v, a, s, w)
  <2> SUFFICES ASSUME Calm PROVE Blameless(v, a, s, w)  OBVIOUS
  <2>1. Blameless(t, a, s, u)  BY <1>3
  <2>2. v.state = "CLOSE_WAIT" => \A i \in 1..Len(w) : w[i].len = 0
    BY <1>1, <2>1 DEF Blameless
  <2>3. ASSUME NEW i \in 1..Len(w), "FIN" \in w[i].flags, NEW j \in (i + 1)..Len(w)
        PROVE  w[j].len = 0
    <3>1. i + 1 \in 1..Len(u) /\ w[i] = u[i + 1]  BY <1>1
    <3>2. j \in 1..Len(w) /\ j + 1 \in ((i + 1) + 1)..Len(u)  BY <1>1
    <3>3. w[j] = u[j + 1]  BY <1>1, <3>2
    <3>4. u[j + 1].len = 0  BY <2>1, <2>3, <3>1, <3>2 DEF Blameless
    <3>5. QED  BY <3>3, <3>4
  <2>4. QED  BY <2>1, <2>2, <2>3 DEF Blameless
<1>10. Bound(v, a, s, w)  BY <1>4, <1>5, <1>6, <1>7, <1>8, <1>9 DEF Bound
<1>11. QED  BY <1>10 DEF w

\* The session takes the acknowledgment of the packet.
LEMMA AckedBound ==
    ASSUME NEW t, NEW a, NEW s, NEW w, Bound(t, a, s, w),
           NEW p, First(t, a, p, w), t.send_window = p.win,
           NEW v, v.local_seq = t.local_seq, v.acked \in {t.acked, p.ack},
           v.send_window = t.send_window,
           v.socket = t.socket, v.registered = t.registered, v.socks5 = t.socks5,
           v.state = t.state \/ (t.state = "SYN_RECV" /\ v.state = "ESTABLISHED")
    PROVE  Bound(v, a, s, w)
<1>1. /\ Met(t, a, w) /\ InFlight(a, w) /\ Credit(t, a, w) /\ InSync(t, a, s)
      /\ Heard => Parted(t, a, s)
      /\ Calm => Blameless(t, a, s, w)
  BY DEF Bound
<1>2. Met(v, a, w)  BY <1>1 DEF Met, Joined, Taking
<1>3. Credit(v, a, w)
  <2>1. v.state \in Live => t.state \in Live  BY DEF Live
  <2>2. CASE v.acked = t.acked  BY <1>1, <2>1, <2>2 DEF Credit
  <2>3. CASE v.acked = p.ack  BY <2>3 DEF Credit, First, Honest
  <2>4. QED  BY <2>2, <2>3
<1>4. InSync(v, a, s)  BY <1>1 DEF InSync, Joined, Taking
<1>5. Heard => Parted(v, a, s)  BY <1>1 DEF Parted
<1>6. Calm => Blameless(v, a, s, w)  BY <1>1 DEF Blameless
<1>7. QED  BY <1>1, <1>2, <1>3, <1>4, <1>5, <1>6 DEF Bound

\* The session counts the FIN of the app.
LEMMA FinBound ==
    ASSUME NEW t, NEW a, NEW s, NEW w, Bound(t, a, s, w), t.state = "ESTABLISHED", a.fin,
           Calm => \A i \in 1..Len(w) : w[i].len = 0,
           NEW v, v.state = "CLOSE_WAIT", v.local_seq = t.local_seq, v.acked = t.acked,
           v.send_window = t.send_window, v.socket = t.socket, v.registered = t.registered,
           NEW b, Idles(a, b)
    PROVE  Bound(v, b, s, w)
<1>1. /\ Met(t, a, w) /\ InFlight(a, w) /\ Credit(t, a, w) /\ InSync(t, a, s)
      /\ Heard => Parted(t, a, s)
      /\ Calm => Blameless(t, a, s, w)
  BY DEF Bound
<1>2. /\ b.st = a.st /\ b.snd_nxt = a.snd_nxt /\ b.fin = a.fin
      /\ b.rcv_nxt = a.rcv_nxt /\ b.unread = a.unread
  BY DEF Idles
<1>3. Met(v, b, w)  BY <1>1, <1>2 DEF Met, Joined, Taking
<1>4. InFlight(b, w) /\ Edge(b) = Edge(a)  BY <1>1, IdlesShuts, IdlesInFlight
<1>5. Credit(v, b, w)  BY <1>1, <1>2, <1>4 DEF Credit, Live
<1>6. InSync(v, b, s)  BY <1>1, <1>2 DEF InSync, Joined, Taking
<1>7. Heard => Parted(v, b, s)  BY <1>1 DEF Parted
<1>8. Calm => Blameless(v, b, s, w)  BY <1>1 DEF Blameless
<1>9. QED  BY <1>3, <1>4, <1>5, <1>6, <1>7, <1>8 DEF Bound

\* A FIN of the app.
LEMMA HandleFinTied ==
    ASSUME NEW c \in Contexts, NEW w, Tied(c, w), c.app.fin, Heard => c.writes # 0,
           Calm => \A i \in 1..Len(w) : w[i].len = 0
    PROVE  Tied(handle_fin(c), w) /\ handle_fin(c).srv = c.srv
<1> DEFINE t == [c.tcp EXCEPT !.remote_seq = @ + 1]
           counted == [c EXCEPT !.tcp.remote_seq = @ + 1]
           x == write_ack(counted)
           to(s) == IF c.writes = 0 THEN x ELSE [x EXCEPT !.tcp.state = s]
           q == [c EXCEPT !.tcp.state = "CLOSE_WAIT"]
           a == c.app
           r == handle_fin(c)
<1>1. c.tcp \in Session /\ a \in AppType  BY Numbers
<1>2. r = IF c.tcp.state = "ESTABLISHED"
          THEN IF c.tcp.forward = EmptyQueue THEN to("CLOSE_WAIT") ELSE q
          ELSE IF c.tcp.state = "FIN_WAIT1" THEN to("CLOSE") ELSE c
  BY DEF handle_fin
<1>3. t \in Session /\ Matches(c.tcp, t)
  <2> DEFINE k == c.tcp.remote_seq + 1
  <2>1. k \in Int /\ (c.tcp.remote_seq \in Nat => k \in Nat)  BY <1>1 DEF Session
  <2>2. t = [c.tcp EXCEPT !.remote_seq = k]  OBVIOUS
  <2> HIDE DEF k, t
  <2>3. t \in Session  BY <1>1, <2>1, <2>2 DEF Session
  <2>4. Matches(c.tcp, t)  BY <1>1, <2>2 DEF Session, Matches, Similar
  <2>5. QED  BY <2>3, <2>4
<1>4. /\ counted \in Contexts /\ counted.tcp = t /\ counted.srv = c.srv
      /\ counted.app = a /\ counted.writes = c.writes
  <2>1. counted = [c EXCEPT !.tcp = t]  OBVIOUS
  <2> HIDE DEF t, counted
  <2>2. QED  BY <1>3, <2>1 DEF Contexts
<1> HIDE DEF counted, t
<1>5. /\ x \in Contexts /\ x.srv = c.srv /\ Idles(a, x.app)
      /\ c.writes # 0 => x.tcp = t
      /\ c.writes = 0 => x.tcp = [t EXCEPT !.state = "CLOSING"]
  BY <1>4, WriteAck, AckIdles
<1> HIDE DEF x
<1>6. c.writes = 0 => x.tcp.state = "CLOSING"  BY <1>3, <1>5 DEF Session
<1>7. Shuts(a, x.app)  BY <1>5, IdlesShuts
<1>8. ASSUME NEW s \in States, c.writes # 0
      PROVE  /\ to(s).tcp.state = s /\ to(s).tcp.local_seq = t.local_seq
             /\ to(s).tcp.acked = t.acked /\ to(s).tcp.send_window = t.send_window
             /\ to(s).tcp.socket = t.socket /\ to(s).tcp.registered = t.registered
             /\ to(s).srv = c.srv /\ to(s).app = x.app
  <2> DEFINE v == [x.tcp EXCEPT !.state = s]
  <2>1. to(s) = [x EXCEPT !.tcp = v]  BY <1>8
  <2>2. x.tcp = t  BY <1>5, <1>8
  <2> HIDE DEF to
  <2>3. /\ v.state = s /\ v.local_seq = t.local_seq /\ v.acked = t.acked
        /\ v.send_window = t.send_window /\ v.socket = t.socket
        /\ v.registered = t.registered
    BY <1>3, <2>2 DEF Session
  <2> HIDE DEF v
  <2>4. to(s).tcp = v /\ to(s).srv = x.srv /\ to(s).app = x.app
    BY <1>5, <2>1 DEF Contexts
  <2>5. QED  BY <1>5, <2>3, <2>4
<1>9. /\ t.local_seq = c.tcp.local_seq /\ t.acked = c.tcp.acked
      /\ t.send_window = c.tcp.send_window /\ t.socket = c.tcp.socket
      /\ t.registered = c.tcp.registered
  BY <1>3 DEF Matches, Similar
<1>10. Bound(c.tcp, a, c.srv, w)  BY DEF Tied
<1>11. CASE c.tcp.state \in {"ESTABLISHED", "FIN_WAIT1"} /\ c.writes = 0 /\ r = x
  <2>1. Tied(x, w)  BY <1>6, <1>7, <1>11, FailedTied
  <2>2. QED  BY <1>5, <1>11, <2>1
<1>12. CASE c.tcp.state = "ESTABLISHED" /\ c.tcp.forward = EmptyQueue /\ c.writes # 0
  <2> DEFINE z == to("CLOSE_WAIT")
  <2>1. r = z  BY <1>2, <1>12
  <2>2. "CLOSE_WAIT" \in States  BY DEF States, Live
  <2>3. /\ z.tcp.state = "CLOSE_WAIT" /\ z.tcp.local_seq = c.tcp.local_seq
        /\ z.tcp.acked = c.tcp.acked /\ z.tcp.send_window = c.tcp.send_window
        /\ z.tcp.socket = c.tcp.socket /\ z.tcp.registered = c.tcp.registered
        /\ z.srv = c.srv /\ z.app = x.app
    BY <1>8, <1>9, <1>12, <2>2
  <2> HIDE DEF z, r
  <2>4. Bound(z.tcp, z.app, c.srv, w)  BY <1>5, <1>10, <1>12, <2>3, FinBound
  <2>5. QED  BY <2>1, <2>3, <2>4 DEF Tied, r
<1>13. CASE c.tcp.state = "ESTABLISHED" /\ c.tcp.forward # EmptyQueue
  <2>1. r = q  BY <1>2, <1>13
  <2>2. /\ q.tcp.state = "CLOSE_WAIT" /\ q.tcp.local_seq = c.tcp.local_seq
        /\ q.tcp.acked = c.tcp.acked /\ q.tcp.send_window = c.tcp.send_window
        /\ q.tcp.socket = c.tcp.socket /\ q.tcp.registered = c.tcp.registered
        /\ q.srv = c.srv /\ q.app = a
    BY <1>1 DEF Contexts, Session
  <2> HIDE DEF q, r
  <2>3. Bound(q.tcp, q.app, c.srv, w)  BY <1>10, <1>13, <2>2, IdlesSelf, FinBound
  <2>4. QED  BY <2>1, <2>2, <2>3 DEF Tied, r
<1>14. CASE c.tcp.state = "FIN_WAIT1" /\ c.writes # 0
  <2> DEFINE z == to("CLOSE")
  <2>1. r = z  BY <1>2, <1>14
  <2>2. "CLOSE" \in States  BY DEF States
  <2>3. /\ z.tcp.state = "CLOSE" /\ z.srv = c.srv /\ z.app = x.app
        /\ z.tcp.socket = c.tcp.socket /\ z.tcp.registered = c.tcp.registered
    BY <1>8, <1>9, <1>14, <2>2
  <2> HIDE DEF z, r
  <2>4. Heard => Parted(z.tcp, z.app, z.srv)  BY <1>10, <2>3 DEF Bound, Parted
  <2>5. Reason(z.app, z.srv)  BY <1>10, <1>14, <2>3 DEF Bound, InSync, Reason
  <2>6. Bound(z.tcp, z.app, z.srv, w)
    BY <1>7, <1>10, <1>14, <2>3, <2>4, <2>5, EndedBound
  <2>7. QED  BY <2>1, <2>3, <2>6 DEF Tied, r
<1>15. CASE c.tcp.state \notin {"ESTABLISHED", "FIN_WAIT1"}
  <2>1. r = c  BY <1>2, <1>15
  <2>2. QED  BY <2>1
<1>16. QED
  <2>1. c.writes = 0 => to("CLOSE_WAIT") = x /\ to("CLOSE") = x  OBVIOUS
  <2> HIDE DEF to, q, r
  <2>2. c.writes = 0 /\ c.tcp.state \in {"ESTABLISHED", "FIN_WAIT1"} =>
          r = x \/ (c.tcp.state = "ESTABLISHED" /\ c.tcp.forward # EmptyQueue)
    BY <1>2, <2>1
  <2>3. QED  BY <1>11, <1>12, <1>13, <1>14, <1>15, <2>2 DEF r

\* An acknowledgment of everything: the one that answers the FIN ends the session.
LEMMA HandleAckTied ==
    ASSUME NEW c \in Contexts, NEW p \in Packet, NEW w, Tied(c, w),
           First(c.tcp, c.app, p, w), c.tcp.send_window = p.win
    PROVE  Tied(handle_ack(c, p), w) /\ handle_ack(c, p).srv = c.srv
<1> DEFINE d == handle_ack(c, p)
           st == c.tcp.state
           a == c.app
<1>1. /\ d.tcp.state = IF st = "SYN_RECV" THEN "ESTABLISHED"
                       ELSE IF st = "LAST_ACK" THEN "CLOSING" ELSE st
      /\ d.tcp.local_seq = c.tcp.local_seq /\ d.tcp.acked = p.ack
      /\ d.tcp.send_window = c.tcp.send_window
      /\ d.tcp.socket = c.tcp.socket /\ d.tcp.registered = c.tcp.registered
      /\ d.tcp.socks5 = c.tcp.socks5 /\ d.srv = c.srv /\ d.app = a
  BY Numbers DEF handle_ack, Contexts, Session
<1> HIDE DEF d
<1>2. Bound(c.tcp, a, c.srv, w)  BY DEF Tied
<1>3. CASE st # "LAST_ACK"
  <2>1. Bound(d.tcp, a, c.srv, w)  BY <1>1, <1>2, <1>3, AckedBound
  <2>2. QED  BY <1>1, <2>1 DEF Tied, d
<1>4. CASE st = "LAST_ACK"
  <2>1. a.st \in {"EST", "ABORTED"} /\ a.fin /\ c.srv.eof
        /\ (a.st = "EST" => a.rcv_nxt = c.tcp.local_seq)
    BY <1>2, <1>4 DEF Bound, Met, InSync, Joined
  <2>2. Heard => Parted(d.tcp, d.app, d.srv)  BY <1>1, <1>2, <2>1 DEF Bound, Parted
  <2>3. Reason(d.app, d.srv)  BY <1>1, <2>1 DEF Reason
  <2>4. Shuts(a, d.app)  BY <1>1, IdlesSelf, IdlesShuts
  <2>5. d.tcp.state = "CLOSING"  BY <1>1, <1>4
  <2>6. Bound(d.tcp, d.app, d.srv, w)  BY <1>2, <1>4, <2>2, <2>3, <2>4, <2>5, EndedBound
  <2>7. QED  BY <1>1, <2>6 DEF Tied, d
<1>5. QED  BY <1>3, <1>4

\* The flags of a packet for a live session: only an app that has aborted
\* acknowledges what it was not sent.
LEMMA HandleFlagsTied ==
    ASSUME NEW c \in Contexts, NEW p \in Packet, c.tcp.state \in Live, Heard => c.writes # 0,
           c.tcp.state = "LISTEN" => c.tcp.remote_seq = RemoteStart,
           NEW w, Tied(c, w), First(c.tcp, c.app, p, w), c.tcp.send_window = p.win
    PROVE  Tied(handle_flags(c, p), w) /\ handle_flags(c, p).srv = c.srv
<1> DEFINE r == [c EXCEPT !.tcp.state = "CLOSING"]
           m == IF p.ack <= c.tcp.acked THEN c.tcp.acked ELSE p.ack
           a == [c EXCEPT !.tcp.acked = IF p.ack <= @ THEN @ ELSE p.ack]
           Good(d) == Tied(d, w) /\ d.srv = c.srv
<1>1. \/ handle_flags(c, p) \in {c, handle_ack(c, p), a}
      \/ "RST" \in p.flags /\ handle_flags(c, p) = r
      \/ "FIN" \in p.flags /\ handle_flags(c, p) = handle_fin(c)
      \/ "ACK" \in p.flags /\ p.ack > c.tcp.local_seq /\ handle_flags(c, p) = write_rst(c)
  BY DEF handle_flags
<1>2. Bound(c.tcp, c.app, c.srv, w) /\ c.tcp.state # "NONE"  BY DEF Tied, Live
<1>3. Honest(c.app, p)  BY DEF First
<1>4. "RST" \in p.flags => Good(r)
  <2> SUFFICES ASSUME "RST" \in p.flags PROVE Good(r)  OBVIOUS
  <2>1. c.app.st = "ABORTED"  BY <1>3 DEF Honest
  <2>2. /\ r.tcp.state = "CLOSING" /\ r.app = c.app /\ r.srv = c.srv
        /\ r.tcp.socket = c.tcp.socket /\ r.tcp.registered = c.tcp.registered
    BY Numbers DEF Contexts, Session
  <2> HIDE DEF r
  <2>3. Heard => Parted(r.tcp, r.app, r.srv)  BY <1>2, <2>1, <2>2 DEF Bound, Parted
  <2>4. Reason(r.app, r.srv)  BY <2>1, <2>2 DEF Reason
  <2>5. Shuts(c.app, r.app)  BY <2>2, IdlesSelf, IdlesShuts
  <2>6. Bound(r.tcp, r.app, r.srv, w)  BY <1>2, <2>2, <2>3, <2>4, <2>5, EndedBound
  <2>7. QED  BY <2>2, <2>6 DEF Tied
<1>5. Good(a)
  <2>1. m \in {c.tcp.acked, p.ack}  OBVIOUS
  <2>2. a = [c EXCEPT !.tcp.acked = m]  OBVIOUS
  <2> HIDE DEF m, a
  <2>3. /\ a.tcp.state = c.tcp.state /\ a.tcp.local_seq = c.tcp.local_seq /\ a.tcp.acked = m
        /\ a.tcp.send_window = c.tcp.send_window
        /\ a.tcp.socket = c.tcp.socket /\ a.tcp.registered = c.tcp.registered
        /\ a.tcp.socks5 = c.tcp.socks5 /\ a.srv = c.srv /\ a.app = c.app
    BY <2>2, Numbers DEF Contexts, Session
  <2>4. Bound(a.tcp, c.app, c.srv, w)  BY <1>2, <2>1, <2>3, AckedBound
  <2>5. QED  BY <2>3, <2>4 DEF Tied
<1>6. Good(c) /\ Good(handle_ack(c, p))  BY HandleAckTied
<1>7. "FIN" \in p.flags => Good(handle_fin(c))
  <2> SUFFICES ASSUME "FIN" \in p.flags PROVE Good(handle_fin(c))  OBVIOUS
  <2>1. c.app.fin /\ (Calm => \A i \in 1..Len(w) : w[i].len = 0)
    BY <1>3 DEF First, Honest
  <2>2. QED  BY <2>1, HandleFinTied
<1>8. "ACK" \in p.flags /\ p.ack > c.tcp.local_seq => Good(write_rst(c))
  <2> SUFFICES ASSUME "ACK" \in p.flags, p.ack > c.tcp.local_seq PROVE Good(write_rst(c))
    OBVIOUS
  <2>1. c.app.st # "SYN_SENT"  BY DEF First
  <2>2. c.app.st = "EST" => c.tcp.state \notin Joined
    <3> SUFFICES ASSUME c.app.st = "EST", c.tcp.state \in Joined PROVE FALSE  OBVIOUS
    <3>1. c.app.rcv_nxt = c.tcp.local_seq  BY <1>2 DEF Bound, InSync
    <3>2. p.ack <= c.app.rcv_nxt  BY <1>3 DEF Honest
    <3>3. p.ack \in Nat /\ c.tcp.local_seq \in Nat  BY Numbers DEF Packet, Session
    <3>4. QED  BY <3>1, <3>2, <3>3
  <2>3. c.app.st = "ABORTED"
    BY <1>2, <2>1, <2>2 DEF Bound, Met, Live, Joined, Taking
  <2>4. Reason(c.app, c.srv)  BY <2>3 DEF Reason
  <2>5. QED  BY <1>2, <2>4, RstTied, WriteRst
<1> HIDE DEF r, a, Good
<1>9. Good(handle_flags(c, p))  BY <1>1, <1>4, <1>5, <1>6, <1>7, <1>8
<1>10. QED  BY <1>9 DEF Good

\* queue_tcp leaves all but the queue alone.
LEMMA QueueKeeps ==
    ASSUME NEW t \in Session, NEW p
    PROVE  LET v == queue_tcp(t, p)
           IN  /\ v.state = t.state /\ v.local_seq = t.local_seq /\ v.remote_seq = t.remote_seq
               /\ v.acked = t.acked /\ v.send_window = t.send_window /\ v.socks5 = t.socks5
               /\ v.socket = t.socket /\ v.registered = t.registered
<1> DEFINE f == t.forward
           seg == IF p.seq \in DOMAIN f THEN [f[p.seq] EXCEPT !.len = p.len]
                  ELSE [len |-> p.len, sent |-> 0]
           g == [q \in DOMAIN f \union {p.seq} |-> IF q = p.seq THEN seg ELSE f[q]]
<1>1. queue_tcp(t, p) = IF p.seq < t.remote_seq THEN t ELSE [t EXCEPT !.forward = g]
  BY Zenon DEF queue_tcp
<1> HIDE DEF g
<1>2. QED  BY <1>1 DEF Session

\* A packet for a session that exists.
LEMMA HandleSessionTied ==
    ASSUME NEW c \in Contexts, Sound(c.tcp), c.tcp.state # "NONE", Heard => c.writes # 0,
           c.tcp.state = "LISTEN" => c.tcp.remote_seq = RemoteStart,
           NEW u \in Seq(Packet), u # <<>>, Tied(c, u)
    PROVE  LET r == handle_session(c, Head(u)) IN Tied(r, Tail(u)) /\ r.srv = c.srv
<1> DEFINE p == Head(u)
           w == Tail(u)
           t == [c.tcp EXCEPT !.send_window = p.win, !.unconfirmed = 0]
           d == [c EXCEPT !.tcp.send_window = p.win, !.tcp.unconfirmed = 0]
           e == [d EXCEPT !.tcp = queue_tcp(@, p)]
           r == handle_session(c, p)
<1>1. p \in Packet /\ p.len \in Nat /\ p.win \in Int  BY TailFacts DEF Packet
<1>2. c.tcp \in Session /\ c.app \in AppType  BY Numbers
<1>3. Bound(c.tcp, c.app, c.srv, u) /\ First(c.tcp, c.app, p, w)
  BY HeadFirst DEF Tied
<1>4. CASE c.tcp.state \in {"CLOSING", "CLOSE"}
  <2> DEFINE x == write_rst(c)
  <2>1. r = x  BY <1>4 DEF handle_session
  <2>2. c.tcp.state \notin Live  BY <1>4 DEF Live
  <2>3. x \in Contexts /\ x.srv = c.srv /\ Tied(x, u)  BY <2>2, WriteRst, RstTied
  <2> HIDE DEF x
  <2>4. x.tcp \in Session /\ x.app \in AppType  BY <2>3, Numbers
  <2>5. Bound(x.tcp, x.app, x.srv, w)  BY <2>3, <2>4, TailBound DEF Tied
  <2>6. QED  BY <2>1, <2>3, <2>5 DEF Tied
<1>5. CASE c.tcp.state \notin {"CLOSING", "CLOSE"}
  <2>1. c.tcp.state \in Live  BY <1>2, <1>5 DEF Session, States
  <2>2. r = IF p.len > 0 /\ (~c.tcp.socket \/ c.tcp.state = "CLOSE_WAIT") THEN write_rst(d)
            ELSE IF p.len > 0 THEN handle_flags(e, p) ELSE handle_flags(d, p)
    BY <1>5 DEF handle_session
  <2>3. /\ t \in Session /\ t.state = c.tcp.state /\ t.local_seq = c.tcp.local_seq
        /\ t.acked = c.tcp.acked /\ t.send_window = p.win /\ t.remote_seq = c.tcp.remote_seq
        /\ t.socket = c.tcp.socket /\ t.registered = c.tcp.registered
        /\ t.socks5 = c.tcp.socks5
    BY <1>1, <1>2 DEF Session
  <2>4. d = [c EXCEPT !.tcp = t]  OBVIOUS
  <2> HIDE DEF d, t, r
  <2>5. /\ d \in Contexts /\ d.tcp = t /\ d.srv = c.srv /\ d.app = c.app
        /\ d.writes = c.writes
    BY <2>3, <2>4 DEF Contexts
  <2>6. Bound(t, c.app, c.srv, w)  BY <1>2, <1>3, <2>3, TailBound
  <2>7. First(t, c.app, p, w)  BY <1>3, <2>3 DEF First
  <2> HIDE DEF p, w
  <2>8. CASE p.len > 0 /\ (~c.tcp.socket \/ c.tcp.state = "CLOSE_WAIT")
    <3>1. r = write_rst(d)  BY <2>2, <2>8
    <3>2. ASSUME Calm PROVE Reason(d.app, d.srv)
      <4>1. c.tcp.state # "CLOSE_WAIT"  BY <1>1, <1>3, <2>8, <3>2 DEF First
      <4>2. c.tcp.state \in {"FIN_WAIT1", "LAST_ACK"}
        BY <2>1, <2>8, <4>1 DEF Sound, Usable, Live
      <4>3. c.srv.eof  BY <1>3, <4>2 DEF Bound, InSync
      <4>4. QED  BY <2>5, <4>3 DEF Reason
    <3>3. Tied(d, w)  BY <2>5, <2>6 DEF Tied
    <3>4. Tied(write_rst(d), w)  BY <2>3, <2>5, <3>2, <3>3, RstTied
    <3>5. write_rst(d).srv = d.srv  BY <2>5, WriteRst
    <3>6. QED  BY <2>5, <3>1, <3>4, <3>5 DEF r, p, w
  <2>9. CASE p.len > 0 /\ c.tcp.socket /\ c.tcp.state # "CLOSE_WAIT"
    <3> DEFINE v == queue_tcp(t, p)
    <3>1. v \in Session  BY <1>1, <2>3, <2>9, QueueTcp
    <3>2. /\ v.state = t.state /\ v.local_seq = t.local_seq /\ v.remote_seq = t.remote_seq
          /\ v.acked = t.acked /\ v.send_window = t.send_window /\ v.socks5 = t.socks5
          /\ v.socket = t.socket /\ v.registered = t.registered
      BY <2>3, QueueKeeps
    <3>3. e = [d EXCEPT !.tcp = v]  BY <2>5
    <3> HIDE DEF v, e
    <3>4. /\ e \in Contexts /\ e.tcp = v /\ e.srv = c.srv /\ e.app = c.app
          /\ e.writes = c.writes
      BY <2>5, <3>1, <3>3 DEF Contexts
    <3>5. Matches(t, v)  BY <3>2 DEF Matches, Similar
    <3>6. Tied(d, w)  BY <2>5, <2>6 DEF Tied
    <3>7. Tied(e, w)
      <4>1. Matches(d.tcp, e.tcp) /\ d.app = e.app /\ d.srv = e.srv
        BY <2>5, <3>4, <3>5
      <4>2. Idles(d.app, e.app) /\ Steady(d.srv, e.srv)  BY <4>1 DEF Idles, Steady
      <4>3. QED  BY <3>6, <4>1, <4>2, QuietTied
    <3>8. First(e.tcp, e.app, p, w)  BY <2>7, <3>2, <3>4 DEF First
    <3>9. r = handle_flags(e, p)  BY <2>2, <2>9
    <3>10. /\ e.tcp.state \in Live /\ e.tcp.send_window = p.win
           /\ e.tcp.state = "LISTEN" => e.tcp.remote_seq = RemoteStart
      BY <2>1, <2>3, <3>2, <3>4
    <3>11. Tied(handle_flags(e, p), w) /\ handle_flags(e, p).srv = e.srv
      BY <1>1, <3>4, <3>7, <3>8, <3>10, HandleFlagsTied
    <3>12. QED  BY <3>4, <3>9, <3>11 DEF r, p, w
  <2>10. CASE ~(p.len > 0)
    <3>1. r = handle_flags(d, p)  BY <2>2, <2>10
    <3>2. Tied(d, w)  BY <2>5, <2>6 DEF Tied
    <3>3. /\ d.tcp.state \in Live /\ d.tcp.send_window = p.win
          /\ d.tcp.state = "LISTEN" => d.tcp.remote_seq = RemoteStart
      BY <2>1, <2>3, <2>5
    <3>4. First(d.tcp, d.app, p, w)  BY <2>5, <2>7
    <3>5. Tied(handle_flags(d, p), w) /\ handle_flags(d, p).srv = d.srv
      BY <1>1, <2>5, <3>2, <3>3, <3>4, HandleFlagsTied
    <3>6. QED  BY <2>5, <3>1, <3>5 DEF r, p, w
  <2>11. QED  BY <2>8, <2>9, <2>10
<1>6. QED  BY <1>4, <1>5

\* handle_tcp: an app that waits for a session gets one, and what is left of an
\* ended one is reset.
LEMMA HandleTcpTied ==
    ASSUME NEW c \in Contexts, Sound(c.tcp), Heard => c.writes # 0, NEW open \in BOOLEAN,
           c.tcp.state = "LISTEN" => c.tcp.remote_seq = RemoteStart,
           NEW u \in Seq(Packet), u # <<>>, Tied(c, u)
    PROVE  LET r == handle_tcp(c, Head(u), open)
           IN  Tied(r, Tail(u)) /\ (c.tcp.state # "NONE" => r.srv = c.srv)
<1>1. CASE c.tcp.state # "NONE"  BY <1>1, HandleSessionTied DEF handle_tcp
<1>2. CASE c.tcp.state = "NONE"
  <2> DEFINE p == Head(u)
             w == Tail(u)
             t == [c.tcp EXCEPT !.local_seq = p.ack]
             x == [c EXCEPT !.tcp.local_seq = p.ack]
             z == write_rst(x)
             r == [z EXCEPT !.tcp = c.tcp]
             n == Created(c, p)
             m == n.tcp
             y == handle_tcp(c, p, open)
  <2>1. /\ p \in Packet /\ p = u[1] /\ Len(u) \in Nat \ {0} /\ w \in Seq(Packet)
        /\ Len(w) = Len(u) - 1
        /\ \A i \in 1..Len(w) : i + 1 \in 1..Len(u) /\ w[i] = u[i + 1]
    BY TailFacts
  <2>2. c.tcp \in Session /\ c.app \in AppType  BY Numbers
  <2>3. /\ y \in {r, n, c}
        /\ "SYN" \notin p.flags => y = r
        /\ "SYN" \in p.flags => y \in {n, c}
    BY <1>2 DEF handle_tcp, handle_unknown, Created
  <2>4. /\ Bound(c.tcp, c.app, c.srv, u) /\ First(c.tcp, c.app, p, w) /\ c.app.st # "CLOSED"
    BY HeadFirst DEF Tied
  <2>5. Bound(c.tcp, c.app, c.srv, w)  BY <2>2, <2>4, TailBound
  <2>6. HasSyn(w) \/ "SYN" \in p.flags => HasSyn(u)
    <3>1. 1 \in 1..Len(u)  BY <2>1
    <3> HIDE DEF p, w
    <3>2. QED  BY <2>1, <3>1 DEF HasSyn
  <2>7. HasSyn(u) => c.app.st \in {"SYN_SENT", "ABORTED"}
    BY <1>2, <2>4 DEF Bound, Met
  <2>8. /\ Met(c.tcp, c.app, w) /\ InFlight(c.app, w)
        /\ Heard => Parted(c.tcp, c.app, c.srv)
        /\ Calm => Blameless(c.tcp, c.app, c.srv, w)
    BY <2>5 DEF Bound
  <2>9. "SYN" \notin p.flags => Tied(r, w)
    <3> SUFFICES ASSUME "SYN" \notin p.flags PROVE Tied(r, w)  OBVIOUS
    <3>1. t \in Session  BY <2>1, <2>2 DEF Session, Packet
    <3>2. x = [c EXCEPT !.tcp = t]  OBVIOUS
    <3> HIDE DEF t, x
    <3>3. x \in Contexts /\ x.srv = c.srv /\ x.app = c.app  BY <3>1, <3>2 DEF Contexts
    <3>4. z \in Contexts /\ z.srv = c.srv /\ Shuts(c.app, z.app)
      BY <3>3, WriteRst, RstShuts
    <3> HIDE DEF z
    <3>5. r.tcp = c.tcp /\ r.srv = c.srv /\ r.app = z.app  BY <3>4 DEF Contexts
    <3> HIDE DEF r, p, w
    <3>6. c.app.st # "SYN_SENT"  BY <2>4 DEF First
    <3>7. r.app.st \notin {"CLOSED", "SYN_SENT"}  BY <2>4, <3>4, <3>5, <3>6 DEF Shuts
    <3>8. HasSyn(w) => r.app.st = "ABORTED"  BY <2>6, <2>7, <3>4, <3>5, <3>6 DEF Shuts
    <3>9. Met(r.tcp, r.app, w)  BY <1>2, <3>5, <3>7, <3>8 DEF Met, Joined, Taking
    <3>10. InFlight(r.app, w)  BY <2>8, <3>4, <3>5, IdlesInFlight
    <3>11. Credit(r.tcp, r.app, w) /\ InSync(r.tcp, r.app, r.srv)
      BY <1>2, <3>5 DEF Credit, InSync, Live, Joined, Taking
    <3>12. Heard => Parted(r.tcp, r.app, r.srv)  BY <1>2, <2>8, <3>5 DEF Parted
    <3>13. Calm => Blameless(r.tcp, r.app, r.srv, w)  BY <1>2, <2>8, <3>5 DEF Blameless
    <3>14. QED  BY <3>9, <3>10, <3>11, <3>12, <3>13 DEF Tied, Bound
  <2>10. "SYN" \in p.flags => Tied(n, w)
    <3> SUFFICES ASSUME "SYN" \in p.flags PROVE Tied(n, w)  OBVIOUS
    <3>1. c.app.st \in {"SYN_SENT", "ABORTED"}  BY <2>6, <2>7
    <3>2. /\ m.state = "LISTEN" /\ m.socks5 = "NONE" /\ m.socket /\ m.registered
          /\ m.local_seq = LocalStart /\ m.acked = 0 /\ m.send_window = p.win
      <4>1. /\ new_session(p).socks5 = "NONE" /\ new_session(p).socket
            /\ new_session(p).registered /\ new_session(p).local_seq = LocalStart
            /\ new_session(p).acked = 0 /\ new_session(p).send_window = p.win
        BY DEF new_session
      <4> HIDE DEF p
      <4>2. /\ m.state = "LISTEN" /\ m.local_seq = new_session(p).local_seq
            /\ m.acked = new_session(p).acked /\ m.socket = new_session(p).socket
            /\ m.registered = new_session(p).registered /\ m.socks5 = new_session(p).socks5
            /\ m.send_window = new_session(p).send_window
        BY <2>1, CreatedFacts
      <4> HIDE DEF m
      <4>3. QED  BY <4>1, <4>2
    <3>3. n.srv = NewServer /\ n.app = c.app  BY <2>1, CreatedFacts
    <3> HIDE DEF n, p, w
    <3>4. Met(m, c.app, w)  BY <2>4, <2>8, <3>1, <3>2 DEF Met, Joined, Taking
    <3>5. Credit(m, c.app, w)
      <4>1. /\ c.app.rcv_nxt \in Nat /\ Edge(c.app) \in Int
            /\ \A i \in 1..Len(w) : w[i].ack \in Nat
        BY <2>1, <2>2, AppNumbers
      <4>2. p.ack \in Nat /\ p.win \in Int  BY <2>1 DEF Packet
      <4>3. p.ack + p.win <= Edge(c.app)  BY <2>4 DEF First, Honest
      <4>4. 0 <= c.app.rcv_nxt /\ 0 + p.win <= Edge(c.app)  BY <4>1, <4>2, <4>3
      <4>5. \A i \in 1..Len(w) : 0 <= w[i].ack  BY <4>1
      <4>6. QED  BY <3>2, <4>4, <4>5 DEF Credit
    <3>6. InSync(m, c.app, NewServer)
      <4>1. NewServer.sent = 0 /\ NewServer.toRead = 0  BY DEF NewServer
      <4>2. QED  BY <3>2, <4>1 DEF InSync, Joined, Taking
    <3>7. Parted(m, c.app, NewServer)  BY <3>2 DEF Parted
    <3>8. Calm => Blameless(m, c.app, NewServer, w)  BY <2>8, <3>2 DEF Blameless
    <3>9. QED  BY <2>8, <3>3, <3>4, <3>5, <3>6, <3>7, <3>8 DEF Tied, Bound
  <2>11. Tied(c, w)  BY <2>5 DEF Tied
  <2> HIDE DEF r, n, y
  <2>12. Tied(y, w)
    <3>1. CASE "SYN" \in p.flags  BY <2>3, <2>10, <2>11, <3>1
    <3>2. CASE "SYN" \notin p.flags  BY <2>3, <2>9, <3>2
    <3>3. QED  BY <3>1, <3>2
  <2>13. QED  BY <1>2, <2>12 DEF y
<1>3. QED  BY <1>1, <1>2

-----------------------------------------------------------------------------
(* The loop *)

\* The probe tells the app nothing that the invariant is about.
LEMMA KeepAliveTied ==
    ASSUME NEW c \in Contexts, c.tcp.state # "NONE", Heard => c.writes # 0, NEW u, Tied(c, u)
    PROVE  Tied(keep_alive(c), u)
<1> DEFINE t == [c.tcp EXCEPT !.remote_seq = @ - 1]
           d == [c EXCEPT !.tcp.remote_seq = @ - 1]
           w == write_ack(d)
           r == [w EXCEPT !.tcp.remote_seq = @ + 1]
<1>1. keep_alive(c) = r  BY DEF keep_alive
<1>2. c.tcp \in Session  BY Numbers
<1>3. t \in Session /\ Matches(c.tcp, t)  BY <1>2 DEF Session, Matches, Similar
<1>4. d = [c EXCEPT !.tcp = t]  OBVIOUS
<1> HIDE DEF t, d
<1>5. d \in Contexts /\ d.tcp = t /\ d.srv = c.srv /\ d.app = c.app /\ d.writes = c.writes
  BY <1>3, <1>4 DEF Contexts
<1>6. Tied(d, u)
  <2>1. Idles(c.app, d.app) /\ Steady(c.srv, d.srv)  BY <1>5 DEF Idles, Steady
  <2>2. QED  BY <1>3, <1>5, <2>1, QuietTied
<1>7. d.tcp.state # "NONE"  BY <1>3, <1>5 DEF Matches, Similar
<1>8. w \in Contexts /\ Tied(w, u)  BY <1>5, <1>6, <1>7, WriteAck, AckTied
<1> HIDE DEF w
<1>9. w.tcp \in Session  BY <1>8, Numbers
<1>10. Matches(w.tcp, r.tcp) /\ r.app = w.app /\ r.srv = w.srv
  BY <1>8, <1>9 DEF Contexts, Session, Matches, Similar
<1> HIDE DEF r
<1>11. Idles(w.app, r.app) /\ Steady(w.srv, r.srv)  BY <1>10 DEF Idles, Steady
<1>12. QED  BY <1>1, <1>8, <1>10, <1>11, QuietTied

\* monitor_tcp_session: epoll_ctl fails only for a session that a restart has
\* taken out of epoll.
LEMMA MonitorTied ==
    ASSUME NEW c \in Contexts, NEW probe \in BOOLEAN, Sound(c.tcp), Heard => c.writes # 0,
           NEW u, Tied(c, u)
    PROVE  Tied(monitor_tcp_session(c, probe), u)
<1> DEFINE t == c.tcp
           evs == interest(c)
           d == IF /\ probe /\ t.state \in {"ESTABLISHED", "CLOSE_WAIT"}
                   /\ get_send_window(t) = 0
                THEN keep_alive(c) ELSE c
           s == IF t.registered THEN d.tcp.state ELSE "CLOSING"
           r == [d EXCEPT !.tcp.events = evs,
                          !.tcp.state = IF t.registered THEN @ ELSE "CLOSING"]
           m == monitor_tcp_session(c, probe)
<1>1. m = IF ~t.socket THEN c ELSE IF evs = t.events THEN d ELSE r
  BY DEF monitor_tcp_session
<1>2. d \in Contexts /\ Tied(d, u) /\ Stays(t, d.tcp)
  <2>1. Stays(t, t)  BY DEF Stays
  <2>2. t.state \in {"ESTABLISHED", "CLOSE_WAIT"} =>
          keep_alive(c) \in Contexts /\ Tied(keep_alive(c), u) /\ Stays(t, keep_alive(c).tcp)
    BY KeepAlive, KeepAliveTied
  <2>3. QED  BY <2>1, <2>2
<1> HIDE DEF d, evs, m
<1>3. d.tcp \in Session  BY <1>2, Numbers
<1>4. /\ r.tcp.state = s /\ r.tcp.local_seq = d.tcp.local_seq /\ r.tcp.acked = d.tcp.acked
      /\ r.tcp.send_window = d.tcp.send_window /\ r.tcp.socket = d.tcp.socket
      /\ r.tcp.registered = d.tcp.registered /\ r.tcp.socks5 = d.tcp.socks5
      /\ r.srv = d.srv /\ r.app = d.app
  BY <1>2, <1>3 DEF Contexts, Session
<1> HIDE DEF r
<1>5. t.socket => Tied(r, u)
  <2> SUFFICES ASSUME t.socket PROVE Tied(r, u)  OBVIOUS
  <2>1. CASE t.registered
    <3>1. Matches(d.tcp, r.tcp)  BY <1>4, <2>1 DEF Matches, Similar
    <3>2. Idles(d.app, r.app) /\ Steady(d.srv, r.srv)  BY <1>4 DEF Idles, Steady
    <3>3. QED  BY <1>2, <3>1, <3>2, QuietTied
  <2>2. CASE ~t.registered
    <3>1. d.tcp.state # "NONE"  BY <1>2 DEF Stays, Sound
    <3>2. ~Heard  BY <2>2 DEF Tied, Bound, Parted
    <3>3. Shuts(d.app, r.app) /\ r.tcp.state = "CLOSING"  BY <1>4, <2>2 DEF Shuts
    <3>4. QED  BY <1>2, <3>1, <3>2, <3>3, FailedTied
  <2>3. QED  BY <2>1, <2>2
<1>6. QED  BY <1>1, <1>2, <1>5 DEF m

\* check_tcp_session: without timeouts only a session that is closing is closed.
LEMMA CheckSessionTied ==
    ASSUME NEW c \in Contexts, NEW idle \in BOOLEAN, NEW gone \in BOOLEAN,
           NEW u, Tied(c, u), gone => u = <<>>, Calm => ~idle
    PROVE  Tied(check_tcp_session(c, idle, gone), u)
<1> DEFINE l == [c EXCEPT !.tcp.state = "CLOSING"]
           d == IF idle /\ c.tcp.state \in Live
                THEN IF c.tcp.state = "LISTEN" THEN l ELSE write_rst(c)
                ELSE c
           z == [d EXCEPT !.tcp.socket = FALSE, !.tcp.registered = FALSE,
                          !.tcp.state = "CLOSE"]
           n == [c EXCEPT !.tcp = NoSession]
           r == check_tcp_session(c, idle, gone)
<1>1. r = IF c.tcp.state = "CLOSE" /\ gone THEN n
          ELSE IF d.tcp.state # "CLOSING" THEN d ELSE z
  BY DEF check_tcp_session
<1>2. /\ Met(c.tcp, c.app, u) /\ InFlight(c.app, u)
      /\ Heard => Parted(c.tcp, c.app, c.srv)
      /\ Calm => Blameless(c.tcp, c.app, c.srv, u)
  BY DEF Tied, Bound
<1>3. CASE c.tcp.state = "CLOSE" /\ gone
  <2>1. r = n /\ u = <<>>  BY <1>1, <1>3
  <2>2. n.tcp.state = "NONE" /\ ~n.tcp.socket /\ n.app = c.app /\ n.srv = c.srv
    BY DEF Contexts, NoSession
  <2> HIDE DEF n, r
  <2>3. ~HasSyn(u)
    <3>1. Len(u) = 0  BY <2>1
    <3>2. 1..0 = {}  OBVIOUS
    <3>3. QED  BY <3>1, <3>2 DEF HasSyn
  <2>4. Met(n.tcp, n.app, u)  BY <1>2, <1>3, <2>2, <2>3 DEF Met, Joined, Taking
  <2>5. Credit(n.tcp, n.app, u) /\ InSync(n.tcp, n.app, n.srv) /\ Parted(n.tcp, n.app, n.srv)
    BY <2>2 DEF Credit, InSync, Parted, Live, Joined, Taking
  <2>6. Calm => Blameless(n.tcp, n.app, n.srv, u)  BY <1>2, <2>2 DEF Blameless
  <2>7. Tied(n, u)  BY <1>2, <2>2, <2>4, <2>5, <2>6 DEF Tied, Bound
  <2>8. QED  BY <2>1, <2>7 DEF r
<1>4. CASE ~(c.tcp.state = "CLOSE" /\ gone)
  <2>1. /\ d \in Contexts /\ d.srv = c.srv /\ Shuts(c.app, d.app)
        /\ d.tcp.state = "CLOSING" \/ d = c
        /\ c.tcp.state \in Live \/ d = c
        /\ Calm => d = c
    <3>1. l \in Contexts /\ l.tcp.state = "CLOSING" /\ l.app = c.app /\ l.srv = c.srv
      <4>1. [c.tcp EXCEPT !.state = "CLOSING"] \in Session  BY Numbers DEF Session, States
      <4>2. QED  BY <4>1 DEF Contexts, Session
    <3> HIDE DEF l
    <3>2. Shuts(c.app, c.app)  BY DEF Shuts
    <3>3. /\ write_rst(c) \in Contexts /\ write_rst(c).srv = c.srv
          /\ Shuts(c.app, write_rst(c).app) /\ write_rst(c).tcp = Reset(c.tcp)
      BY WriteRst, RstShuts
    <3>4. c.tcp.state \in Live => write_rst(c).tcp.state = "CLOSING"
      BY <3>3, Numbers DEF Reset, Session, Live
    <3>5. QED  BY <3>1, <3>2, <3>3, <3>4
  <2> HIDE DEF d
  <2>2. CASE d.tcp.state # "CLOSING"  BY <1>1, <1>4, <2>1, <2>2
  <2>3. CASE d.tcp.state = "CLOSING"
    <3>1. d.tcp \in Session  BY <2>1, Numbers
    <3>2. z.tcp.state = "CLOSE" /\ ~z.tcp.socket /\ z.app = d.app /\ z.srv = d.srv
      BY <2>1, <3>1 DEF Contexts, Session
    <3>3. r = z  BY <1>1, <1>4, <2>3
    <3> HIDE DEF z, r
    <3>4. c.tcp.state # "NONE"  BY <2>1, <2>3 DEF Live
    <3>5. Shuts(c.app, z.app)  BY <2>1, <3>2
    <3>6. Parted(z.tcp, z.app, z.srv)  BY <3>2 DEF Parted
    <3>7. Calm => Reason(z.app, z.srv)  BY <1>2, <2>1, <2>3, <3>2 DEF Blameless
    <3>8. Tied(z, u)  BY <3>2, <3>4, <3>5, <3>6, <3>7, EndedBound DEF Tied
    <3>9. QED  BY <3>3, <3>8 DEF r
  <2>4. QED  BY <2>2, <2>3
<1>5. QED  BY <1>3, <1>4

\* A restart takes the session out of epoll.
LEMMA ReloadTied ==
    ASSUME NEW c \in Contexts, NEW allowed \in BOOLEAN, ~Heard,
           c.tcp.state = "LISTEN" => c.tcp.remote_seq = RemoteStart,
           NEW u, Tied(c, u)
    PROVE  Tied([check_allowed(c, allowed) EXCEPT !.tcp.registered = FALSE], u)
<1> DEFINE d == check_allowed(c, allowed)
           r == [d EXCEPT !.tcp.registered = FALSE]
<1>1. ~Calm  BY DEF Calm
<1>2. d \in Contexts /\ Tied(d, u)
  <2>1. d = IF c.tcp.state \in Live /\ ~allowed THEN write_rst(c) ELSE c
    BY DEF check_allowed
  <2>2. c.tcp.state \in Live => Tied(write_rst(c), u)  BY <1>1, RstTied DEF Live
  <2>3. write_rst(c) \in Contexts  BY WriteRst
  <2> HIDE DEF d
  <2>4. QED  BY <2>1, <2>2, <2>3
<1> HIDE DEF d
<1>3. d.tcp \in Session  BY <1>2, Numbers
<1>4. Similar(d.tcp, r.tcp) /\ r.app = d.app /\ r.srv = d.srv
  BY <1>2, <1>3 DEF Contexts, Session, Similar
<1> HIDE DEF r
<1>5. Idles(d.app, r.app)  BY <1>4 DEF Idles
<1>6. Bound(d.tcp, d.app, d.srv, u)  BY <1>2 DEF Tied
<1>7. Bound(r.tcp, r.app, r.srv, u)  BY <1>1, <1>4, <1>5, <1>6, QuietBound
<1>8. QED  BY <1>7 DEF Tied, r, d

-----------------------------------------------------------------------------
(* The app and the server *)

\* What the app sends: the packet has its latest acknowledgment and window, so it
\* is behind all others in their order as well.
LEMMA SentBound ==
    ASSUME NEW t \in Session, NEW a \in AppType, NEW s, NEW u \in Seq(Packet),
           Bound(t, a, s, u), a.st \in {"SYN_SENT", "EST"},
           NEW b \in AppType, b.st \in {a.st, "ABORTED"}, b.rcv_nxt = a.rcv_nxt,
           b.unread = a.unread, a.fin => b.fin,
           b.st = "SYN_SENT" => b.snd_nxt = a.snd_nxt /\ b.fin = a.fin,
           NEW p, p.ack = b.rcv_nxt, p.win = AppBuf - b.unread,
           "RST" \in p.flags => b.st = "ABORTED", "FIN" \in p.flags => b.fin,
           "SYN" \in p.flags => b.st = "SYN_SENT", b.st = "SYN_SENT" => p.flags = {"SYN"},
           Calm /\ a.fin => p.len = 0
    PROVE  Bound(t, b, s, Append(u, p))
<1> DEFINE w == Append(u, p)
<1>1. /\ Met(t, a, u) /\ InFlight(a, u) /\ Credit(t, a, u) /\ InSync(t, a, s)
      /\ Heard => Parted(t, a, s)
      /\ Calm => Blameless(t, a, s, u)
  BY DEF Bound
<1>2. /\ Len(u) \in Nat /\ Len(w) = Len(u) + 1 /\ w[Len(u) + 1] = p
      /\ \A i \in 1..Len(u) : w[i] = u[i]
      /\ \A i \in 1..Len(w) : i \in 1..Len(u) \/ i = Len(u) + 1
  BY AppendFacts
<1> HIDE DEF w
<1>3. /\ a.rcv_nxt \in Nat /\ a.unread \in Nat /\ AppBuf \in Nat /\ Edge(a) \in Int
      /\ Edge(a) = a.rcv_nxt + AppBuf - a.unread
      /\ \A i \in 1..Len(u) : u[i].ack \in Nat
  BY AppNumbers
<1>4. Edge(b) = Edge(a)  BY DEF Edge
<1>5. a.unread <= AppBuf  BY <1>1 DEF InFlight
<1>6. a.rcv_nxt <= b.rcv_nxt /\ Edge(a) <= Edge(b) /\ b.unread <= AppBuf
  BY <1>3, <1>4, <1>5
<1>7. InFlight(b, u)  BY <1>1, <1>6, GrowsInFlight
<1>8. Met(t, b, w)
  <2>1. HasSyn(w) => HasSyn(u) \/ b.st = "SYN_SENT"
    <3> SUFFICES ASSUME NEW i \in 1..Len(w), "SYN" \in w[i].flags
                 PROVE  HasSyn(u) \/ b.st = "SYN_SENT"
      BY DEF HasSyn
    <3>1. CASE i \in 1..Len(u)  BY <1>2, <3>1 DEF HasSyn
    <3>2. CASE i = Len(u) + 1  BY <1>2, <3>2
    <3>3. QED  BY <1>2, <3>1, <3>2
  <2>2. ASSUME b.st = "SYN_SENT", NEW i \in 1..Len(w) PROVE w[i].flags = {"SYN"}
    <3>1. a.st = "SYN_SENT"  BY <2>2
    <3>2. CASE i \in 1..Len(u)  BY <1>1, <1>2, <3>1, <3>2 DEF Met
    <3>3. CASE i = Len(u) + 1  BY <1>2, <2>2, <3>3
    <3>4. QED  BY <1>2, <3>2, <3>3
  <2>3. QED  BY <1>1, <2>1, <2>2 DEF Met
<1>9. Honest(b, p)
  <2>1. p.ack <= b.rcv_nxt /\ p.ack + p.win <= Edge(b)  BY <1>3, <1>4
  <2>2. QED  BY <2>1 DEF Honest
<1>10. InFlight(b, w)
  <2> SUFFICES ASSUME NEW i \in 1..Len(w)
               PROVE  Honest(b, w[i]) /\ \A j \in 1..i : w[j].ack <= w[i].ack
    BY <1>6 DEF InFlight
  <2>1. CASE i \in 1..Len(u)
    <3>1. \A j \in 1..i : j \in 1..Len(u)  BY <1>2, <2>1
    <3>2. Honest(b, u[i]) /\ \A j \in 1..i : u[j].ack <= u[i].ack
      BY <1>7, <2>1 DEF InFlight
    <3>3. QED  BY <1>2, <2>1, <3>1, <3>2
  <2>2. CASE i = Len(u) + 1
    <3>1. w[i] = p  BY <1>2, <2>2
    <3>2. ASSUME NEW j \in 1..i PROVE w[j].ack <= p.ack
      <4>1. CASE j \in 1..Len(u)
        <5>1. u[j].ack <= b.rcv_nxt  BY <1>7, <4>1 DEF InFlight, Honest
        <5>2. QED  BY <1>2, <4>1, <5>1
      <4>2. CASE j = Len(u) + 1
        <5>1. p.ack \in Nat /\ w[j] = p  BY <1>2, <1>3, <4>2
        <5>2. QED  BY <5>1
      <4>3. QED  BY <1>2, <2>2, <3>2, <4>1, <4>2
    <3>3. QED  BY <1>9, <3>1, <3>2
  <2>3. QED  BY <1>2, <2>1, <2>2
<1>11. Credit(t, b, w)
  <2> SUFFICES ASSUME t.state \in Live PROVE Credit(t, b, w)  BY DEF Credit
  <2>1. Credit(t, b, u)  BY <1>1, <1>6, GrowsCredit
  <2>2. /\ t.acked <= b.rcv_nxt /\ t.acked + t.send_window <= Edge(b)
        /\ \A i \in 1..Len(u) : t.acked <= u[i].ack
    BY <2>1 DEF Credit
  <2>3. ASSUME NEW i \in 1..Len(w) PROVE t.acked <= w[i].ack
    <3>1. CASE i \in 1..Len(u)  BY <1>2, <2>2, <3>1
    <3>2. CASE i = Len(u) + 1  BY <1>2, <2>2, <3>2
    <3>3. QED  BY <1>2, <3>1, <3>2
  <2>4. QED  BY <2>2, <2>3 DEF Credit
<1>12. InSync(t, b, s)  BY <1>1 DEF InSync
<1>13. Heard => Parted(t, b, s)  BY <1>1 DEF Parted
<1>14. ASSUME Calm PROVE Blameless(t, b, s, w)
  <2>1. Blameless(t, a, s, u)  BY <1>1, <1>14
  <2>2. Reason(a, s) => Reason(b, s)  BY DEF Reason
  <2>3. ASSUME t.state = "CLOSE_WAIT", NEW i \in 1..Len(w) PROVE w[i].len = 0
    <3>1. a.fin  BY <1>1, <2>3 DEF InSync
    <3>2. CASE i \in 1..Len(u)  BY <1>2, <2>1, <2>3, <3>2 DEF Blameless
    <3>3. CASE i = Len(u) + 1  BY <1>2, <1>14, <3>1, <3>3
    <3>4. QED  BY <1>2, <3>2, <3>3
  <2>4. ASSUME NEW i \in 1..Len(w), "FIN" \in w[i].flags, NEW j \in (i + 1)..Len(w)
        PROVE  w[j].len = 0
    <3>1. i \in Nat /\ j \in Nat /\ i < j /\ j <= Len(w) /\ i >= 1  BY <1>2, <2>4
    <3>2. i \in 1..Len(u) /\ j \in 1..Len(w)  BY <1>2, <3>1
    <3>3. w[i] = u[i]  BY <1>2, <3>2
    <3>4. a.fin  BY <1>1, <2>4, <3>2, <3>3 DEF InFlight, Honest
    <3>5. CASE j \in 1..Len(u)
      <4>1. j \in (i + 1)..Len(u)  BY <1>2, <3>1, <3>5
      <4>2. QED  BY <1>2, <2>1, <2>4, <3>2, <3>3, <3>5, <4>1 DEF Blameless
    <3>6. CASE j = Len(u) + 1  BY <1>2, <1>14, <3>4, <3>6
    <3>7. QED  BY <1>2, <3>2, <3>5, <3>6
  <2>5. QED  BY <2>1, <2>2, <2>3, <2>4 DEF Blameless
<1>15. QED  BY <1>8, <1>10, <1>11, <1>12, <1>13, <1>14 DEF Bound, w

\* The app reads, and has room for more.
LEMMA RoomBound ==
    ASSUME NEW t \in Session, NEW a \in AppType, NEW s, NEW u \in Seq(Packet),
           Bound(t, a, s, u),
           NEW b \in AppType, b.st = a.st, b.snd_nxt = a.snd_nxt, b.fin = a.fin,
           b.rcv_nxt = a.rcv_nxt, b.unread = 0
    PROVE  Bound(t, b, s, u)
<1>1. /\ Met(t, a, u) /\ InFlight(a, u) /\ Credit(t, a, u) /\ InSync(t, a, s)
      /\ Heard => Parted(t, a, s)
      /\ Calm => Blameless(t, a, s, u)
  BY DEF Bound
<1>2. a.rcv_nxt \in Nat /\ a.unread \in Nat /\ AppBuf \in Nat  BY AppNumbers
<1>3. a.rcv_nxt <= b.rcv_nxt /\ b.unread <= AppBuf  BY <1>2
<1>4. Edge(a) <= Edge(b)
  <2>1. Edge(a) = a.rcv_nxt + AppBuf - a.unread /\ Edge(b) = a.rcv_nxt + AppBuf - 0
    BY DEF Edge
  <2>2. QED  BY <1>2, <2>1
<1>5. InFlight(b, u)  BY <1>1, <1>3, <1>4, GrowsInFlight
<1>6. Credit(t, b, u)
  <2>1. CASE t.state \in Live  BY <1>1, <1>3, <1>4, <2>1, GrowsCredit
  <2>2. CASE t.state \notin Live  BY <2>2 DEF Credit
  <2>3. QED  BY <2>1, <2>2
<1>7. Met(t, b, u)  BY <1>1 DEF Met
<1>8. InSync(t, b, s) /\ (Heard => Parted(t, b, s))  BY <1>1 DEF InSync, Parted
<1>9. Calm => Blameless(t, b, s, u)  BY <1>1 DEF Blameless, Reason
<1>10. QED  BY <1>5, <1>6, <1>7, <1>8, <1>9 DEF Bound

\* The server sends, closes or fails.
LEMMA ServerBound ==
    ASSUME NEW t, NEW a, NEW s \in ServerType, NEW u, Bound(t, a, s, u),
           NEW z \in ServerType, s.eof => z.eof, s.err => z.err,
           \/ z.sent = s.sent /\ z.toRead = s.toRead
           \/ t.state # "LISTEN" /\ z.sent = s.sent + 1 /\ z.toRead = s.toRead + 1
    PROVE  Bound(t, a, z, u)
<1>1. /\ Met(t, a, u) /\ InFlight(a, u) /\ Credit(t, a, u) /\ InSync(t, a, s)
      /\ Heard => Parted(t, a, s)
      /\ Calm => Blameless(t, a, s, u)
  BY DEF Bound
<1>2. s.sent \in Nat /\ s.toRead \in Int /\ LocalStart \in Nat
  BY TcpAssumption DEF TcpAssumption, ServerType
<1>3. LocalStart + 1 + z.sent - z.toRead = LocalStart + 1 + s.sent - s.toRead  BY <1>2
<1>4. InSync(t, a, z)
  <2>1. t.state = "LISTEN" => z.sent = s.sent /\ z.toRead = s.toRead  OBVIOUS
  <2>2. t.state \in Joined =>
          t.local_seq = LocalStart + 1 + z.sent - z.toRead
                        + (IF t.state \in {"FIN_WAIT1", "LAST_ACK"} THEN 1 ELSE 0)
    BY <1>1, <1>3 DEF InSync
  <2>3. QED  BY <1>1, <2>1, <2>2 DEF InSync
<1>5. Heard => Parted(t, a, z)  BY <1>1 DEF Parted
<1>6. Calm => Blameless(t, a, z, u)  BY <1>1 DEF Blameless, Reason
<1>7. QED  BY <1>1, <1>4, <1>5, <1>6 DEF Bound

-----------------------------------------------------------------------------
(* The specification *)

\* The inductive invariant, next to Inv and StreamInv.  epoll reports an error only
\* of a socket that has one.
AppInv == Bound(tcp, app, srv, up) /\ ("ERR" \in loop.evs => srv.err)

\* It holds before the first packet.
LEMMA AppInit == Init => AppInv
<1> SUFFICES ASSUME Init PROVE AppInv  OBVIOUS
<1>1. tcp.state = "NONE" /\ ~tcp.socket  BY DEF Init, NoSession
<1>2. /\ app.st = "CLOSED" /\ app.snd_nxt = RemoteStart /\ ~app.fin
      /\ app.rcv_nxt = 0 /\ app.unread = 0
  BY DEF Init, NoApp
<1>3. up = <<>> /\ loop.evs = {}  BY DEF Init, Idle
<1>4. 0 <= AppBuf  BY TcpAssumption DEF TcpAssumption
<1>5. \A i : i \notin 1..Len(up)
  <2>1. Len(up) = 0  BY <1>3
  <2>2. 1..0 = {}  OBVIOUS
  <2>3. QED  BY <2>1, <2>2
<1>6. Met(tcp, app, up)  BY <1>1, <1>2, <1>3, <1>5 DEF Met, HasSyn, Joined, Taking
<1>7. InFlight(app, up)  BY <1>2, <1>4, <1>5 DEF InFlight
<1>8. Credit(tcp, app, up) /\ InSync(tcp, app, srv) /\ Parted(tcp, app, srv)
  BY <1>1 DEF Credit, InSync, Parted, Live, Joined, Taking
<1>9. Blameless(tcp, app, srv, up)  BY <1>1, <1>5 DEF Blameless
<1>10. QED  BY <1>3, <1>6, <1>7, <1>8, <1>9 DEF AppInv, Bound

\* Without failures a handler has all the writes that it needs.
LEMMA HeardWrites == ASSUME NEW w \in Writes PROVE Heard => w >= 3 /\ w # 0
<1>1. Heard => "tunwrite" \notin Faults  BY DEF Heard
<1>2. Heard => w = 3  BY <1>1 DEF Writes, MaxWrites
<1>3. 3 >= 3 /\ 3 # 0  OBVIOUS
<1>4. QED  BY <1>2, <1>3

\* What a handler starts from.
LEMMA ContextTied ==
    ASSUME Inv, StreamInv, AppInv, NEW w \in Writes
    PROVE  LET c == Context(w)
           IN  /\ c \in Contexts /\ c.tcp = tcp /\ c.srv = srv /\ c.writes = w
               /\ Tied(c, up) /\ Kept(c) /\ Sound(c.tcp)
               /\ c.tcp.state = "LISTEN" => c.tcp.remote_seq = RemoteStart
               /\ Heard => c.writes >= 3 /\ c.writes # 0
<1> DEFINE c == Context(w)
<1>1. c \in Contexts /\ c.tcp = tcp /\ c.app = app /\ c.srv = srv  BY ContextType
<1>2. c.writes = w  BY DEF Context
<1>3. Kept(c)  BY ContextKept
<1> HIDE DEF c
<1>4. Tied(c, up)  BY <1>1 DEF AppInv, Tied
<1>5. Sound(c.tcp)  BY <1>1 DEF Inv
<1>6. c.tcp.state = "LISTEN" => c.tcp.remote_seq = RemoteStart  BY <1>3 DEF Kept, Tally
<1>7. QED  BY <1>1, <1>2, <1>3, <1>4, <1>5, <1>6, HeardWrites DEF c

\* The top of the loop.
LEMMA MonitorTies ==
    ASSUME Inv, StreamInv, AppInv, NEW probe \in BOOLEAN, NEW check \in BOOLEAN,
           NEW idle \in BOOLEAN, Calm => ~idle, NEW gone \in BOOLEAN,
           Monitor(probe, check, idle, gone)
    PROVE  AppInv'
<1>1. PICK w \in Writes :
        Becomes(IF check
                THEN check_tcp_session(monitor_tcp_session(Context(w), probe), idle, gone)
                ELSE monitor_tcp_session(Context(w), probe))
  BY DEF Monitor
<1> DEFINE c == Context(w)
           m == monitor_tcp_session(c, probe)
           k == check_tcp_session(m, idle, gone)
<1>2. c \in Contexts /\ Tied(c, up) /\ Sound(c.tcp) /\ (Heard => c.writes # 0)
  BY ContextTied
<1>3. (gone => up = <<>>) /\ up' = up  BY DEF Monitor
<1>4. loop'.evs = {}
  <2>1. loop.pc = "top" /\ loop' = [loop EXCEPT !.pc = "wait"]  BY DEF Monitor
  <2>2. loop.evs = {} /\ loop \in LoopType  BY <2>1 DEF Inv, LoopIdle
  <2>3. QED  BY <2>1, <2>2 DEF LoopType
<1> HIDE DEF c
<1>5. m \in Contexts /\ Tied(m, up)  BY <1>2, MonitorSession, MonitorTied
<1> HIDE DEF m
<1>6. Tied(k, up)  BY <1>3, <1>5, CheckSessionTied
<1> HIDE DEF k
<1>7. Becomes(IF check THEN k ELSE m)  BY <1>1 DEF c, m, k
<1>8. QED  BY <1>3, <1>4, <1>5, <1>6, <1>7 DEF Becomes, AppInv, Tied

\* epoll_wait.
LEMMA WaitTies == ASSUME Inv, AppInv, Wait PROVE AppInv'
<1> DEFINE evs == IF tcp.socket /\ tcp.registered THEN tcp.events \intersect Ready ELSE {}
           l == [pc |-> "batch", tun |-> IF up = <<>> THEN 0 ELSE TunYield, evs |-> evs]
<1>1. tcp' = tcp /\ srv' = srv /\ app' = app /\ up' = up /\ loop' = AfterBatch(l)
  BY DEF Wait
<1>2. "ERR" \in Ready => srv.err  BY DEF Ready
<1>3. "ERR" \in evs => srv.err  BY <1>2
<1>4. l \in LoopType
  <2>1. evs \subseteq Events  BY DEF Inv, Session
  <2>2. TunYield \in Nat  BY TcpAssumption DEF TcpAssumption
  <2>3. (IF up = <<>> THEN 0 ELSE TunYield) \in 0..TunYield  BY <2>2
  <2> HIDE DEF evs
  <2>4. QED  BY <2>1, <2>3 DEF LoopType
<1>5. l.evs = evs  OBVIOUS
<1> HIDE DEF l, evs
<1>6. loop'.evs = evs  BY <1>1, <1>4, <1>5, AfterBatchType
<1>7. QED  BY <1>1, <1>3, <1>6 DEF AppInv

\* A packet of the app.
LEMMA TunTies ==
    ASSUME Inv, StreamInv, AppInv, NEW open \in BOOLEAN, HandleTun(open) PROVE AppInv'
<1>1. PICK w \in Writes : Becomes(handle_tcp(Context(w), Head(up), open))
  BY DEF HandleTun
<1> DEFINE c == Context(w)
           r == handle_tcp(c, Head(up), open)
           n == IF Len(up) = 1 THEN 0 ELSE loop.tun - 1
           l == [loop EXCEPT !.tun = IF Len(up) = 1 THEN 0 ELSE @ - 1]
<1>2. up # <<>> /\ up' = Tail(up) /\ loop.tun > 0 /\ loop' = AfterBatch(l)
  BY DEF HandleTun
<1>3. up \in Seq(Packet) /\ loop \in LoopType /\ (loop.evs # {} => tcp.socket) /\ Sound(tcp)
  BY DEF Inv
<1>4. l \in LoopType /\ l.evs = loop.evs
  <2>1. TunYield \in Nat  BY TcpAssumption DEF TcpAssumption
  <2>2. loop.tun \in 0..TunYield  BY <1>3 DEF LoopType
  <2>3. n \in 0..TunYield  BY <1>2, <2>1, <2>2
  <2>4. l = [loop EXCEPT !.tun = n]  OBVIOUS
  <2> HIDE DEF n, l
  <2>5. QED  BY <1>3, <2>3, <2>4 DEF LoopType
<1> HIDE DEF l
<1>5. loop'.evs = loop.evs  BY <1>2, <1>4, AfterBatchType
<1>6. /\ c \in Contexts /\ c.tcp = tcp /\ c.srv = srv /\ Tied(c, up) /\ Sound(c.tcp)
      /\ c.tcp.state = "LISTEN" => c.tcp.remote_seq = RemoteStart
      /\ Heard => c.writes # 0
  BY ContextTied
<1> HIDE DEF c
<1>7. Tied(r, Tail(up)) /\ (c.tcp.state # "NONE" => r.srv = c.srv)
  BY <1>2, <1>3, <1>6, HandleTcpTied
<1>8. Becomes(r)  BY <1>1 DEF c
<1> HIDE DEF r
<1>9. "ERR" \in loop'.evs => srv'.err
  <2> SUFFICES ASSUME "ERR" \in loop.evs PROVE srv'.err  BY <1>5
  <2>1. tcp.socket  BY <1>3
  <2>2. tcp.state # "NONE"  BY <1>3, <2>1 DEF Sound
  <2>3. srv' = srv  BY <1>6, <1>7, <1>8, <2>2 DEF Becomes
  <2>4. QED  BY <2>3 DEF AppInv
<1>10. QED  BY <1>2, <1>7, <1>8, <1>9 DEF Becomes, AppInv, Tied

\* A socket event.
LEMMA SocketTies == ASSUME Inv, StreamInv, AppInv, HandleSocket PROVE AppInv'
<1>1. PICK w \in Writes :
        \E o \in Outcomes(Context(w), loop.evs) :
          Becomes(check_tcp_socket(Context(w), loop.evs, o))
  BY DEF HandleSocket
<1>2. PICK o \in Outcomes(Context(w), loop.evs) :
        Becomes(check_tcp_socket(Context(w), loop.evs, o))
  BY <1>1
<1> DEFINE c == Context(w)
           r == check_tcp_socket(c, loop.evs, o)
           l == [loop EXCEPT !.evs = {}]
<1>3. loop.evs # {} /\ up' = up /\ loop' = AfterBatch(l)  BY DEF HandleSocket
<1>4. /\ tcp \in Session /\ tcp.socket /\ up \in Seq(Packet) /\ loop \in LoopType
      /\ "ERR" \in loop.evs => srv.err
  BY <1>3 DEF Inv, AppInv
<1>5. l \in LoopType /\ l.evs = {}  BY <1>4 DEF LoopType
<1> HIDE DEF l
<1>6. loop'.evs = {}  BY <1>3, <1>5, AfterBatchType
<1>7. /\ c \in Contexts /\ c.tcp = tcp /\ c.srv = srv /\ Tied(c, up) /\ Kept(c)
      /\ Sound(c.tcp) /\ (Heard => c.writes >= 3)
  BY ContextTied
<1>8. o \in Outcomes(c, loop.evs)  OBVIOUS
<1> HIDE DEF c
<1>9. Tied(r, up)  BY <1>4, <1>7, <1>8, CheckTcpSocketTied
<1>10. Becomes(r)  BY <1>2 DEF c
<1> HIDE DEF r
<1>11. QED  BY <1>3, <1>6, <1>9, <1>10 DEF Becomes, AppInv, Tied

\* Restarting the tunnel.
LEMMA ReloadTies ==
    ASSUME Inv, StreamInv, AppInv, NEW allowed \in BOOLEAN, Reload(allowed) PROVE AppInv'
<1>1. PICK w \in Writes :
        Becomes([check_allowed(Context(w), allowed) EXCEPT !.tcp.registered = FALSE])
  BY DEF Reload
<1> DEFINE c == Context(w)
           r == [check_allowed(c, allowed) EXCEPT !.tcp.registered = FALSE]
<1>2. up' = up /\ loop' = loop /\ loop.pc = "top" /\ "reload" \in Faults  BY DEF Reload
<1>3. ~Heard  BY <1>2 DEF Heard
<1>4. loop'.evs = {}  BY <1>2 DEF Inv, LoopIdle
<1>5. /\ c \in Contexts /\ Tied(c, up)
      /\ c.tcp.state = "LISTEN" => c.tcp.remote_seq = RemoteStart
  BY ContextTied
<1> HIDE DEF c
<1>6. Tied(r, up)  BY <1>3, <1>5, ReloadTied
<1>7. Becomes(r)  BY <1>1 DEF c
<1> HIDE DEF r
<1>8. QED  BY <1>2, <1>4, <1>6, <1>7 DEF Becomes, AppInv, Tied

\* A packet of the app b that comes from the app a.
LEMMA EmitTies ==
    ASSUME Inv, AppInv, NEW a \in AppType, Bound(tcp, a, srv, up), a.st \in {"SYN_SENT", "EST"},
           NEW b \in AppType, b.st \in {a.st, "ABORTED"}, b.rcv_nxt = a.rcv_nxt,
           b.unread = a.unread, a.fin => b.fin,
           b.st = "SYN_SENT" => b.snd_nxt = a.snd_nxt /\ b.fin = a.fin,
           NEW flags, NEW seq, NEW len, Emit(b, flags, seq, len),
           "RST" \in flags => b.st = "ABORTED", "FIN" \in flags => b.fin,
           "SYN" \in flags => b.st = "SYN_SENT", b.st = "SYN_SENT" => flags = {"SYN"},
           Calm /\ a.fin => len = 0
    PROVE  AppInv'
<1> DEFINE p == [flags |-> flags, seq |-> seq, ack |-> b.rcv_nxt, len |-> len,
                 win |-> AppBuf - b.unread]
           d == [b EXCEPT !.ackDue = FALSE]
<1>1. p.flags = flags /\ p.len = len /\ p.ack = b.rcv_nxt /\ p.win = AppBuf - b.unread
  OBVIOUS
<1>2. up' = Append(up, p) /\ app' = d /\ tcp' = tcp /\ srv' = srv /\ loop' = loop
  BY DEF Emit
<1>3. /\ d \in AppType /\ d.st = b.st /\ d.rcv_nxt = b.rcv_nxt /\ d.unread = b.unread
      /\ d.fin = b.fin /\ d.snd_nxt = b.snd_nxt
  BY DEF AppType
<1>4. tcp \in Session /\ up \in Seq(Packet)  BY DEF Inv
<1> HIDE DEF p, d
<1>5. Bound(tcp, d, srv, Append(up, p))  BY <1>1, <1>3, <1>4, SentBound
<1>6. QED  BY <1>2, <1>5 DEF AppInv

\* The SYN of the app is the first packet of all.
LEMMA ConnectTies == ASSUME Inv, AppInv, AppConnect PROVE AppInv'
<1> DEFINE a == [app EXCEPT !.st = "SYN_SENT", !.snd_nxt = @ + 1]
<1>1. app \in AppType /\ app.st = "CLOSED"  BY DEF Inv, AppConnect
<1>2. /\ Met(tcp, app, up) /\ InFlight(app, up) /\ Credit(tcp, app, up)
      /\ InSync(tcp, app, srv)
      /\ Heard => Parted(tcp, app, srv)
      /\ Calm => Blameless(tcp, app, srv, up)
  BY DEF AppInv, Bound
<1>3. /\ tcp.state = "NONE" /\ up = <<>> /\ app.snd_nxt = RemoteStart /\ ~app.fin
      /\ app.rcv_nxt = 0 /\ app.unread = 0
  BY <1>1, <1>2 DEF Met
<1>4. /\ a \in AppType /\ a.st = "SYN_SENT" /\ a.snd_nxt = RemoteStart + 1 /\ ~a.fin
      /\ a.rcv_nxt = 0 /\ a.unread = 0
  <2>1. app.snd_nxt + 1 \in Nat /\ app.snd_nxt + 1 = RemoteStart + 1
    BY <1>1, <1>3 DEF AppType
  <2>2. QED  BY <1>1, <1>3, <2>1 DEF AppType
<1>5. PICK len \in {0} \union (IF "syndata" \in Faults THEN {SegLen} ELSE {}) :
        Emit(a, {"SYN"}, RemoteStart, len)
  BY DEF AppConnect
<1> HIDE DEF a
<1>6. \A i : i \notin 1..Len(up)
  <2>1. Len(up) = 0  BY <1>3
  <2>2. 1..0 = {}  OBVIOUS
  <2>3. QED  BY <2>1, <2>2
<1>7. Met(tcp, a, up)  BY <1>3, <1>4, <1>6 DEF Met, HasSyn, Joined, Taking
<1>8. InFlight(a, up)  BY <1>2, <1>3, <1>4, <1>6 DEF InFlight
<1>9. Credit(tcp, a, up) /\ InSync(tcp, a, srv) /\ (Heard => Parted(tcp, a, srv))
  BY <1>2, <1>3 DEF Credit, InSync, Parted, Live, Joined, Taking
<1>10. Calm => Blameless(tcp, a, srv, up)  BY <1>2, <1>3 DEF Blameless
<1>11. Bound(tcp, a, srv, up)  BY <1>7, <1>8, <1>9, <1>10 DEF Bound
<1>12. "RST" \notin {"SYN"} /\ "FIN" \notin {"SYN"}  OBVIOUS
<1>13. QED  BY <1>4, <1>5, <1>11, <1>12, EmitTies

\* The data and the FIN of a connected app, and what it sends again.
LEMMA SendTies ==
    ASSUME Inv, AppInv,
           \/ \E fin \in BOOLEAN : AppSend(fin)
           \/ AppAck \/ AppFin \/ (\E k \in 1..2 : AppResend(k)) \/ AppResendFin
    PROVE  AppInv'
<1>1. app \in AppType /\ app.st = "EST"
  BY DEF Inv, AppSend, AppAck, AppFin, AppResend, AppResendFin
<1>2. Bound(tcp, app, srv, up)  BY DEF AppInv
<1>3. /\ "SYN" \notin {"ACK"} /\ "RST" \notin {"ACK"} /\ "FIN" \notin {"ACK"}
      /\ "SYN" \notin {"ACK", "FIN"} /\ "RST" \notin {"ACK", "FIN"}
  OBVIOUS
<1>4. ASSUME NEW fin \in BOOLEAN, AppSend(fin) PROVE AppInv'
  <2> DEFINE n == app.snd_nxt + SegLen + (IF fin THEN 1 ELSE 0)
             b == [app EXCEPT !.fin = fin, !.snd_nxt = n]
             fl == IF fin THEN {"ACK", "FIN"} ELSE {"ACK"}
  <2>1. n \in Nat
    <3>1. app.snd_nxt \in Nat /\ SegLen \in Nat
      BY <1>1, TcpAssumption DEF TcpAssumption, AppType
    <3>2. QED  BY <3>1
  <2>2. Emit(b, fl, app.snd_nxt, SegLen) /\ ~app.fin  BY <1>4 DEF AppSend
  <2>3. "SYN" \notin fl /\ "RST" \notin fl /\ ("FIN" \in fl => fin)  OBVIOUS
  <2> HIDE DEF n, fl
  <2>4. /\ b \in AppType /\ b.st = "EST" /\ b.rcv_nxt = app.rcv_nxt
        /\ b.unread = app.unread /\ b.fin = fin
    BY <1>1, <2>1 DEF AppType
  <2> HIDE DEF b
  <2>5. QED  BY <1>1, <1>2, <2>2, <2>3, <2>4, EmitTies
<1>5. CASE AppAck
  <2>1. Emit(app, {"ACK"}, app.snd_nxt, 0)  BY <1>5 DEF AppAck
  <2>2. QED  BY <1>1, <1>2, <1>3, <2>1, EmitTies
<1>6. CASE AppFin
  <2> DEFINE b == [app EXCEPT !.fin = TRUE, !.snd_nxt = @ + 1]
  <2>1. Emit(b, {"ACK", "FIN"}, app.snd_nxt, 0)  BY <1>6 DEF AppFin
  <2>2. app.snd_nxt + 1 \in Nat  BY <1>1 DEF AppType
  <2>3. /\ b \in AppType /\ b.st = "EST" /\ b.rcv_nxt = app.rcv_nxt
        /\ b.unread = app.unread /\ b.fin
    BY <1>1, <2>2 DEF AppType
  <2> HIDE DEF b
  <2>4. QED  BY <1>1, <1>2, <1>3, <2>1, <2>3, EmitTies
<1>7. ASSUME NEW k \in 1..2, AppResend(k) PROVE AppInv'
  <2> DEFINE fl == IF app.fin /\ app.snd_una + k * SegLen = DataEnd(app)
                   THEN {"ACK", "FIN"} ELSE {"ACK"}
  <2>1. Emit(app, fl, app.snd_una, k * SegLen) /\ "retransmit" \in Faults
    BY <1>7 DEF AppResend
  <2>2. ~Calm  BY <2>1 DEF Calm
  <2>3. "SYN" \notin fl /\ "RST" \notin fl /\ ("FIN" \in fl => app.fin)  OBVIOUS
  <2> HIDE DEF fl
  <2>4. QED  BY <1>1, <1>2, <2>1, <2>2, <2>3, EmitTies
<1>8. CASE AppResendFin
  <2>1. Emit(app, {"ACK", "FIN"}, app.snd_una, 0) /\ app.fin  BY <1>8 DEF AppResendFin
  <2>2. QED  BY <1>1, <1>2, <1>3, <2>1, EmitTies
<1>9. QED  BY <1>4, <1>5, <1>6, <1>7, <1>8

\* The steps of the app.
LEMMA AppTies == ASSUME Inv, AppInv, App PROVE AppInv'
<1>1. app \in AppType /\ up \in Seq(Packet) /\ tcp \in Session /\ Bound(tcp, app, srv, up)
  BY DEF Inv, AppInv
<1>2. CASE AppResendSyn
  <2>1. app.st = "SYN_SENT" /\ Emit(app, {"SYN"}, RemoteStart, 0)
    BY <1>2 DEF AppResendSyn
  <2>2. "RST" \notin {"SYN"} /\ "FIN" \notin {"SYN"}  OBVIOUS
  <2>3. QED  BY <1>1, <2>1, <2>2, EmitTies
<1>3. CASE AppRead
  <2> DEFINE b == [app EXCEPT !.unread = 0, !.ackDue = TRUE]
  <2>1. app' = b /\ tcp' = tcp /\ up' = up /\ srv' = srv /\ loop' = loop
    BY <1>3 DEF AppRead
  <2>2. /\ b \in AppType /\ b.st = app.st /\ b.snd_nxt = app.snd_nxt /\ b.fin = app.fin
        /\ b.rcv_nxt = app.rcv_nxt /\ b.unread = 0
    BY <1>1 DEF AppType
  <2> HIDE DEF b
  <2>3. Bound(tcp, b, srv, up)  BY <1>1, <2>2, RoomBound
  <2>4. QED  BY <2>1, <2>3 DEF AppInv
<1>4. CASE AppAbort
  <2> DEFINE b == [app EXCEPT !.st = "ABORTED"]
  <2>1. app.st \in {"SYN_SENT", "EST"} /\ Emit(b, {"RST", "ACK"}, app.snd_nxt, 0)
    BY <1>4 DEF AppAbort
  <2>2. /\ b \in AppType /\ b.st = "ABORTED" /\ b.rcv_nxt = app.rcv_nxt
        /\ b.unread = app.unread /\ b.fin = app.fin
    BY <1>1 DEF AppType
  <2> HIDE DEF b
  <2>3. "SYN" \notin {"RST", "ACK"} /\ "FIN" \notin {"RST", "ACK"}  OBVIOUS
  <2>4. QED  BY <1>1, <2>1, <2>2, <2>3, EmitTies
<1>5. QED  BY <1>2, <1>3, <1>4, ConnectTies, SendTies DEF App

\* The steps of the server and the proxy.
LEMMA PeerTies == ASSUME Inv, AppInv, Peer PROVE AppInv'
<1>1. srv \in ServerType /\ Bound(tcp, app, srv, up)  BY DEF Inv, AppInv
<1>2. tcp' = tcp /\ up' = up /\ app' = app /\ loop' = loop
  BY DEF Peer, ServerConnect, ServerSend, ServerClose, ServerDrain, ServerFail,
         ProxyReply, Server
<1>3. /\ srv' \in ServerType /\ (srv.eof => srv'.eof) /\ (srv.err => srv'.err)
      /\ \/ srv'.sent = srv.sent /\ srv'.toRead = srv.toRead
         \/ /\ tcp.state # "LISTEN"
            /\ srv'.sent = srv.sent + 1 /\ srv'.toRead = srv.toRead + 1
  <2>1. srv.sent + 1 \in Nat /\ srv.toRead + 1 \in Int /\ 0 \in Int
    BY <1>1 DEF ServerType
  <2>2. CASE ServerSend  BY <1>1, <2>1, <2>2 DEF ServerSend, Server, ServerType
  <2>3. CASE ServerConnect  BY <1>1, <2>3 DEF ServerConnect, Server, ServerType
  <2>4. CASE ServerClose  BY <1>1, <2>4 DEF ServerClose, Server, ServerType
  <2>5. CASE ServerDrain  BY <1>1, <2>1, <2>5 DEF ServerDrain, Server, ServerType
  <2>6. CASE ServerFail  BY <1>1, <2>6 DEF ServerFail, Server, ServerType
  <2>7. CASE ProxyReply  BY <1>1, <2>7 DEF ProxyReply, Server, ServerType
  <2>8. QED  BY <2>2, <2>3, <2>4, <2>5, <2>6, <2>7 DEF Peer
<1>4. Bound(tcp, app, srv', up)  BY <1>1, <1>3, ServerBound
<1>5. QED  BY <1>2, <1>3, <1>4 DEF AppInv

\* Every step keeps the session, the app and the packets bound.
LEMMA NextTies ==
    Inv /\ StreamInv /\ AppInv /\ [Next]_vars /\ [~clear]_vars => AppInv'
<1> SUFFICES ASSUME Inv, StreamInv, AppInv, [Next]_vars, [~clear]_vars PROVE AppInv'
  OBVIOUS
<1>1. CASE MonitorStep
  <2>1. PICK probe \in BOOLEAN, check \in BOOLEAN, idle \in May("idle"), gone \in BOOLEAN :
          Monitor(probe, check, idle, gone)
    BY <1>1 DEF MonitorStep
  <2>2. idle \in BOOLEAN /\ (Calm => ~idle)  BY MayType DEF May, Calm
  <2>3. QED  BY <2>1, <2>2, MonitorTies
<1>2. ASSUME NEW a \in {TRUE} \union {~x : x \in May("forbid")}
      PROVE  a \in BOOLEAN
  OBVIOUS
<1>3. CASE TunStep  BY <1>2, <1>3, TunTies DEF TunStep
<1>4. CASE \E a \in {TRUE} \union {~x : x \in May("forbid")} : Reload(a)
  BY <1>2, <1>4, ReloadTies
<1>5. CASE UNCHANGED vars  BY <1>5 DEF vars, AppInv
<1>6. QED
  BY <1>1, <1>3, <1>4, <1>5, WaitTies, SocketTies, AppTies, PeerTies DEF Next, Engine

\* A session and its app agree on what was sent in each direction, on the window
\* that is left and on the end of the connection, with any number of packets in
\* the tun, for every size of segments, buffers and windows.
THEOREM AppHolds == Spec /\ NeverCleared => []AppInv
BY AppInit, NextTies, InvHolds, StreamHolds, PTL DEF Spec, NeverCleared

\* local_seq is the number that the app expects next, and counts what recv()
\* returned of the server's stream and the FIN: whatever writes to the tun fail,
\* nothing is counted that was not written, and nothing is written twice.
THEOREM AppAlwaysInSync == Spec /\ NeverCleared => []AppInSync
<1>1. AppInv => AppInSync
  <2> SUFFICES ASSUME AppInv, app.st = "EST", tcp.state \in Live \ {"LISTEN"}
               PROVE  /\ app.rcv_nxt = tcp.local_seq
                      /\ tcp.local_seq = LocalStart + 1 + srv.sent - srv.toRead
                           + (IF tcp.state \in {"FIN_WAIT1", "LAST_ACK"} THEN 1 ELSE 0)
    BY DEF AppInSync
  <2>1. tcp.state \in Joined  BY DEF Live, Joined, Taking
  <2>2. QED  BY <2>1 DEF AppInv, Bound, InSync
<1>2. QED  BY <1>1, AppHolds, PTL

\* What check_tcp_socket reads for the app fits the app's buffer: a window that is
\* known from an old acknowledgment ends where the app's window ends now, or before.
THEOREM WindowAlwaysRespected == Spec /\ NeverCleared => []WindowRespected
<1>1. AppInv => WindowRespected  BY DEF AppInv, Bound, InFlight, WindowRespected
<1>2. QED  BY <1>1, AppHolds, PTL

\* Without a restart of the tunnel no session is cleared.
LEMMA HeardNeverCleared == ASSUME Heard, [Next]_vars PROVE [~clear]_vars
<1>1. ~clear  BY DEF Heard, clear
<1>2. QED  BY <1>1

\* If the writes to the tun succeed and the tunnel is not restarted, a session in
\* CLOSING never leaves its app in a half-open connection: the reset of write_rst
\* has the number, and before the SYN-ACK the acknowledgment, that the app takes.
THEOREM AppAlwaysLearnsOfEnd == Heard => (Spec => []AppLearnsOfEnd)
<1> SUFFICES ASSUME Heard PROVE Spec => []AppLearnsOfEnd  OBVIOUS
<1>1. [Next]_vars => [~clear]_vars  BY HeardNeverCleared
<1>2. AppInv => AppLearnsOfEnd  BY DEF AppInv, Bound, Parted, AppLearnsOfEnd
<1>3. QED  BY <1>1, <1>2, AppHolds, PTL DEF Spec, NeverCleared

\* If besides no timeout passes, no data is retransmitted and no proxy is used, a
\* session ends only because the server or the app has ended or broken the
\* connection: no order of packets, socket events and probes makes the engine
\* reset a connection on its own.
THEOREM OnlyPeersEverEnd == Calm => (Spec => []OnlyPeersEnd)
<1> SUFFICES ASSUME Calm PROVE Spec => []OnlyPeersEnd  OBVIOUS
<1>1. Heard  BY DEF Calm
<1>2. [Next]_vars => [~clear]_vars  BY <1>1, HeardNeverCleared
<1>3. AppInv => OnlyPeersEnd
  BY DEF AppInv, Bound, Blameless, Reason, OnlyPeersEnd
<1>4. QED  BY <1>2, <1>3, AppHolds, PTL DEF Spec, NeverCleared

=============================================================================
