---------------------- MODULE NetGuardTcpQueueProofs ----------------------
(***************************************************************************)
(* Proofs about the queue of a session of NetGuardTcp and what the app is  *)
(* told of it: no queued segment is left behind, the acknowledgments do    *)
(* not run ahead of the server, and what is queued and unsent never goes   *)
(* beyond the buffer of the socket.                                        *)
(*                                                                         *)
(* The segments of the app lie on a grid: each begins where another one    *)
(* may end, so that remote_seq, which goes from end to end, never jumps    *)
(* over the beginning of one.  What the app has sent is forwarded, queued  *)
(* or still in the tun, so that its FIN is counted at its own number, and  *)
(* the app is told of every change of remote_seq at once.  Each window     *)
(* that it was told of, however old, ends within the buffer of the socket  *)
(* behind what the server has read, which only grows.                      *)
(***************************************************************************)
EXTENDS NetGuardTcpStreamProofs

\* No SYN carries data and no retransmission merges segments.
Direct == Faults \intersect {"syndata", "repack"} = {}

\* The tunnel may restart with its sessions, but they are not taken away
\* (jni_clear) while packets of their apps wait in the tun.
NeverCleared == [][~clear]_vars

\* The numbers at which a segment of the app can begin.
Grid == {RemoteStart + 1 + k * SegLen : k \in Nat}

\* The states in which data of the app is queued, and all in which the app may
\* believe that it is connected.
Taking == {"SYN_RECV", "ESTABLISHED"}
Joined == Taking \union {"CLOSE_WAIT", "FIN_WAIT1", "LAST_ACK"}

\* The app has sent nothing but its SYN, and a reset.
Young(a, u) ==
    /\ a.st \in {"SYN_SENT", "RESET", "ABORTED"} /\ a.snd_nxt = RemoteStart + 1 /\ ~a.fin
    /\ \A i \in 1..Len(u) : u[i].len = 0 /\ "FIN" \notin u[i].flags

HasSyn(u) == \E i \in 1..Len(u) : "SYN" \in u[i].flags

\* A session is created by the SYN of an app that is not connected.
Begun(t, a, u) ==
    /\ a.st = "CLOSED" => t.state = "NONE" /\ u = <<>> /\ a.snd_nxt = RemoteStart /\ ~a.fin
    /\ a.st = "SYN_SENT" => Young(a, u)
    /\ t.state = "NONE" /\ HasSyn(u) => Young(a, u)
    /\ t.state = "LISTEN" => Young(a, u) /\ t.forward = EmptyQueue

\* Each byte that the app has sent was forwarded, or is in the queue or in one of
\* the first k packets.
Covered(t, a, u, k) ==
    \A g \in Grid : g < DataEnd(a) =>
       \/ g < t.remote_seq \/ g \in DOMAIN t.forward
       \/ \E i \in 1..k : u[i].seq = g /\ u[i].len > 0

\* The queue holds segments of the app from remote_seq on.
Neat(t, a) ==
    /\ \A q \in DOMAIN t.forward :
         /\ q \in Grid /\ t.forward[q].len = SegLen /\ t.forward[q].sent <= SegLen
         /\ t.remote_seq <= q /\ q + SegLen <= DataEnd(a)
    /\ DataEnd(a) \in Grid
    /\ t.state # "CLOSE_WAIT" \/ t.forward # EmptyQueue =>
         t.remote_seq \in Grid /\ t.remote_seq <= DataEnd(a)

\* So do the packets in the tun, and the FIN comes behind all data.
Coming(t, a, u) ==
    /\ \A i \in 1..Len(u) :
         /\ u[i].len > 0 =>
              u[i].len = SegLen /\ u[i].seq \in Grid /\ u[i].seq + SegLen <= DataEnd(a)
         /\ "FIN" \in u[i].flags => a.fin /\ Covered(t, a, u, i)
    /\ Covered(t, a, u, Len(u))

Flow(t, a, u) ==
    /\ t.state \in Taking \union {"CLOSE_WAIT"} => Neat(t, a)
    /\ t.state \in Taking => Coming(t, a, u)
    /\ t.state = "CLOSE_WAIT" => a.fin /\ Covered(t, a, u, 0)
    /\ t.state = "CLOSE_WAIT" /\ t.forward = EmptyQueue => t.remote_seq = a.snd_nxt
    /\ t.state = "LAST_ACK" => a.fin /\ t.remote_seq = a.snd_nxt

\* The app knows remote_seq.
Told(t, a) == t.state \in Joined /\ a.st = "EST" => a.snd_una = t.remote_seq

\* What the server has read: the bytes it got that left the buffer of the socket.
ReadUpTo(s) == s.next - s.unsent

\* What the app has sent, and what it may send, fits the buffer of the socket.
Roomy(t, a, s) ==
    t.state \in Taking \union {"LISTEN", "CLOSE_WAIT"} =>
       /\ 0 <= s.unsent /\ t.recv_window + s.unsent <= SndBuf
       /\ DataEnd(a) <= ReadUpTo(s) + SndBuf
       /\ a.st = "EST" /\ ~a.fin => a.snd_una + a.wnd <= ReadUpTo(s) + SndBuf

\* The invariant of a session, its peers and the packets in the tun.
Linked(t, a, s, u) ==
    /\ t.state \in Live => s.unsent < SndBuf
    /\ Begun(t, a, u) /\ Flow(t, a, u) /\ Told(t, a) /\ Roomy(t, a, s)

-----------------------------------------------------------------------------
(* The grid, and the queue *)

\* Two numbers of the grid are at least a segment apart.
LEMMA GridFacts ==
    /\ Grid \subseteq Nat /\ RemoteStart + 1 \in Grid
    /\ \A g \in Grid : g > RemoteStart /\ g + SegLen \in Grid
    /\ \A g, h \in Grid : g < h => g + SegLen <= h
<1>1. RemoteStart \in Nat /\ SegLen \in Nat \ {0}  BY TcpAssumption DEF TcpAssumption
<1>2. \A k \in Nat : k * SegLen \in Nat  BY <1>1
<1>3. Grid \subseteq Nat /\ \A g \in Grid : g > RemoteStart  BY <1>1, <1>2 DEF Grid
<1>4. RemoteStart + 1 \in Grid
  <2>1. RemoteStart + 1 = RemoteStart + 1 + 0 * SegLen  BY <1>1
  <2>2. QED  BY <2>1 DEF Grid
<1>5. ASSUME NEW g \in Grid PROVE g + SegLen \in Grid
  <2>1. PICK k \in Nat : g = RemoteStart + 1 + k * SegLen  BY DEF Grid
  <2>2. g + SegLen = RemoteStart + 1 + (k + 1) * SegLen  BY <1>1, <2>1
  <2>3. QED  BY <2>2 DEF Grid
<1>6. ASSUME NEW g \in Grid, NEW h \in Grid, g < h PROVE g + SegLen <= h
  <2>1. PICK k \in Nat : g = RemoteStart + 1 + k * SegLen  BY DEF Grid
  <2>2. PICK l \in Nat : h = RemoteStart + 1 + l * SegLen  BY DEF Grid
  <2>3. k < l
    <3> SUFFICES ASSUME l <= k PROVE FALSE  OBVIOUS
    <3>1. PICK d \in Nat : k = l + d  BY k - l \in Nat, k = l + (k - l)
    <3>2. k * SegLen = l * SegLen + d * SegLen  BY <1>1, <3>1
    <3>3. QED  BY <1>1, <1>2, <1>6, <2>1, <2>2, <3>2
  <2>4. PICK d \in Nat : l = k + 1 + d  BY <2>3, l - k - 1 \in Nat, l = k + 1 + (l - k - 1)
  <2>5. l * SegLen = k * SegLen + SegLen + d * SegLen  BY <1>1, <2>4
  <2>6. QED  BY <1>1, <1>2, <2>1, <2>2, <2>5
<1>7. QED  BY <1>3, <1>4, <1>5, <1>6

-----------------------------------------------------------------------------
(* Writing to the tun *)

\* The window that the app is told of: recv_window, rounded down by the scale.
Shown(t) == (t.recv_window \div WindowUnit) * WindowUnit

LEMMA ShownFacts == ASSUME NEW t \in Session PROVE Shown(t) \in Nat /\ Shown(t) <= t.recv_window
BY UnitFacts DEF Shown, Session

\* What a packet of the engine other than a SYN may change of the app.
Hears(a, b) ==
    /\ b.snd_nxt = a.snd_nxt /\ b.fin = a.fin
    /\ b.st = a.st \/ (a.st \in {"SYN_SENT", "EST"} /\ b.st = "RESET")

\* What an acknowledgment of n tells a connected app, which ignores an old one.
Learns(a, b, n, w) ==
    /\ b.st = a.st /\ b.snd_nxt = a.snd_nxt /\ b.fin = a.fin
    /\ a.st = "EST" =>
         IF n < a.snd_una THEN b.snd_una = a.snd_una /\ b.wnd = a.wnd
         ELSE b.snd_una = n /\ b.wnd = w

\* What the app makes of a packet.
LEMMA AppHears ==
    ASSUME NEW a \in AppType, NEW p \in Reply
    PROVE  /\ "RST" \in p.flags => Hears(a, AppRecv(a, p))
           /\ "RST" \notin p.flags /\ "SYN" \notin p.flags =>
                Learns(a, AppRecv(a, p), p.ack, p.win * WindowUnit)
           /\ "RST" \notin p.flags /\ "SYN" \in p.flags /\ a.st = "SYN_SENT" /\ p.ack = a.snd_nxt =>
                LET b == AppRecv(a, p)
                IN  /\ b.st = "EST" /\ b.snd_una = p.ack /\ b.wnd = p.win
                    /\ b.snd_nxt = a.snd_nxt /\ b.fin = a.fin
           /\ "RST" \notin p.flags /\ "SYN" \in p.flags /\ ~(a.st = "SYN_SENT" /\ p.ack = a.snd_nxt) =>
                AppRecv(a, p) = a
<1>1. CASE "RST" \in p.flags  BY <1>1 DEF AppRecv, AppType, Hears
<1>2. CASE "RST" \notin p.flags /\ "SYN" \in p.flags
  <2>1. CASE a.st = "SYN_SENT" /\ p.ack = a.snd_nxt
    <3>1. AppRecv(a, p) = [a EXCEPT !.st = "EST", !.snd_una = p.ack,
                          !.rcv_nxt = p.seq + 1, !.wnd = p.win,
                          !.ackDue = TRUE]
      BY <1>2, <2>1, Zenon DEF AppRecv
    <3>2. QED  BY <1>2, <2>1, <3>1 DEF AppType
  <2>2. CASE ~(a.st = "SYN_SENT" /\ p.ack = a.snd_nxt)
    BY <1>2, <2>2, Zenon DEF AppRecv
  <2>3. QED  BY <1>2, <2>1, <2>2
<1>3. CASE "RST" \notin p.flags /\ "SYN" \notin p.flags
  <2> DEFINE n == p.len + (IF "FIN" \in p.flags THEN 1 ELSE 0)
             b == IF p.seq = a.rcv_nxt /\ n > 0
                  THEN [a EXCEPT !.rcv_nxt = @ + n,
                                 !.unread = @ + p.len, !.ackDue = TRUE]
                  ELSE a
             z == [b EXCEPT !.snd_una = p.ack, !.wnd = p.win * WindowUnit]
  <2>1. AppRecv(a, p) = IF a.st # "EST" THEN a
                        ELSE IF p.ack < a.snd_una THEN b ELSE z
    BY <1>3, Zenon DEF AppRecv
  <2> HIDE DEF n
  <2>2. /\ b.st = a.st /\ b.snd_una = a.snd_una /\ b.snd_nxt = a.snd_nxt
        /\ b.fin = a.fin /\ b.wnd = a.wnd
    BY DEF AppType
  <2>3. /\ z.st = a.st /\ z.snd_una = p.ack /\ z.snd_nxt = a.snd_nxt
        /\ z.fin = a.fin /\ z.wnd = p.win * WindowUnit
    BY DEF AppType
  <2> HIDE DEF b, z
  <2>4. QED  BY <1>3, <2>1, <2>2, <2>3 DEF Learns
<1>4. QED  BY <1>1, <1>2, <1>3

\* An app that learns has heard.
LEMMA LearnsHears ==
    ASSUME NEW a, NEW b, NEW n, NEW w, Learns(a, b, n, w)
    PROVE  Hears(a, b)
BY DEF Learns, Hears

\* A context after a write that closes when it fails.
Tells(c, w) ==
    /\ Hears(c.app, w.app)
    /\ c.writes # 0 => Learns(c.app, w.app, c.tcp.remote_seq, Shown(c.tcp))

\* write_ack, write_fin_ack and write_data acknowledge remote_seq.
LEMMA WriteTells ==
    ASSUME NEW c \in Contexts, NEW n \in Nat
    PROVE  Tells(c, write_ack(c)) /\ Tells(c, write_fin_ack(c)) /\ Tells(c, write_data(c, n))
<1>1. ASSUME NEW flags \in Flags, NEW len \in Nat, "RST" \notin flags, "SYN" \notin flags
      PROVE  Tells(c, write_or_close(c, flags, len))
  <2> DEFINE p == [flags |-> flags, len |-> len, seq |-> c.tcp.local_seq,
                   ack |-> c.tcp.remote_seq, win |-> c.tcp.recv_window \div WindowUnit]
             b == AppRecv(c.app, p)
             w == write_or_close(c, flags, len)
  <2>1. /\ p \in Reply /\ p.flags = flags /\ p.ack = c.tcp.remote_seq
        /\ p.win * WindowUnit = Shown(c.tcp)
    BY UnitFacts DEF Contexts, Session, Reply, Shown
  <2>2. w = IF c.writes = 0 THEN [c EXCEPT !.tcp.state = "CLOSING"]
            ELSE [c EXCEPT !.writes = c.writes - 1, !.app = b]
    BY Zenon DEF write_or_close, write_tcp
  <2> HIDE DEF p
  <2>3. Learns(c.app, b, c.tcp.remote_seq, Shown(c.tcp))
    BY <1>1, <2>1, AppHears DEF Contexts
  <2> HIDE DEF b
  <2>4. w.app = IF c.writes = 0 THEN c.app ELSE b  BY <2>2 DEF Contexts
  <2> HIDE DEF w
  <2>5. Hears(c.app, w.app)  BY <2>3, <2>4, LearnsHears DEF Hears
  <2>6. c.writes # 0 => w.app = b  BY <2>4
  <2>7. QED  BY <2>3, <2>5, <2>6 DEF Tells, w
<1>2. {"ACK"} \in Flags /\ {"FIN", "ACK"} \in Flags  BY DEF Flags
<1>3. QED  BY <1>1, <1>2 DEF write_ack, write_fin_ack, write_data

\* write_syn_ack connects an app that waits for it.
LEMMA SynAckTells ==
    ASSUME NEW c \in Contexts
    PROVE  LET b == write_syn_ack(c).app
           IN  /\ c.writes = 0 => b = c.app
               /\ c.writes # 0 /\ c.app.st = "SYN_SENT" /\ c.tcp.remote_seq = c.app.snd_nxt =>
                    /\ b.st = "EST" /\ b.snd_una = c.tcp.remote_seq
                    /\ b.wnd = c.tcp.recv_window \div WindowUnit
                    /\ b.snd_nxt = c.app.snd_nxt /\ b.fin = c.app.fin
               /\ c.writes # 0 /\ c.app.st # "SYN_SENT" => b = c.app
<1> DEFINE flags == {"SYN", "ACK"}
           p == [flags |-> flags, len |-> 0, seq |-> c.tcp.local_seq,
                 ack |-> c.tcp.remote_seq, win |-> c.tcp.recv_window \div WindowUnit]
           b == AppRecv(c.app, p)
           w == write_syn_ack(c)
<1>1. /\ p \in Reply /\ p.flags = flags /\ p.ack = c.tcp.remote_seq
      /\ p.win = c.tcp.recv_window \div WindowUnit
      /\ "SYN" \in flags /\ "RST" \notin flags
  BY UnitFacts DEF Contexts, Session, Reply, Flags
<1>2. w = IF c.writes = 0 THEN [c EXCEPT !.tcp.state = "CLOSING"]
          ELSE [c EXCEPT !.writes = c.writes - 1, !.app = b]
  BY Zenon DEF write_syn_ack, write_or_close, write_tcp
<1> HIDE DEF p, flags
<1>3. c.app \in AppType  BY DEF Contexts
<1>4. /\ c.app.st = "SYN_SENT" /\ c.tcp.remote_seq = c.app.snd_nxt =>
           /\ b.st = "EST" /\ b.snd_una = c.tcp.remote_seq
           /\ b.wnd = c.tcp.recv_window \div WindowUnit
           /\ b.snd_nxt = c.app.snd_nxt /\ b.fin = c.app.fin
      /\ c.app.st # "SYN_SENT" => b = c.app
  BY <1>1, <1>3, AppHears
<1> HIDE DEF b
<1>5. w.app = IF c.writes = 0 THEN c.app ELSE b  BY <1>2 DEF Contexts
<1> HIDE DEF w
<1>6. QED  BY <1>4, <1>5 DEF w

\* write_rst.
LEMMA RstHears ==
    ASSUME NEW c \in Contexts
    PROVE  Hears(c.app, write_rst(c).app)
<1> DEFINE t == [c.tcp EXCEPT !.remote_seq = @ + 1]
           d == IF c.tcp.state = "LISTEN" THEN [c EXCEPT !.tcp.remote_seq = @ + 1] ELSE c
           fl == IF c.tcp.state = "LISTEN" THEN {"RST", "ACK"} ELSE {"RST"}
           p == [flags |-> fl, len |-> 0, seq |-> d.tcp.local_seq,
                 ack |-> d.tcp.remote_seq, win |-> d.tcp.recv_window \div WindowUnit]
           b == AppRecv(d.app, p)
           w == write_tcp(d, fl, 0)
<1>1. write_rst(c) = [w EXCEPT !.tcp.state = IF @ = "CLOSE" THEN @ ELSE "CLOSING"]
  BY Zenon DEF write_rst
<1>2. t \in Session  BY DEF Contexts, Session
<1>3. d = IF c.tcp.state = "LISTEN" THEN [c EXCEPT !.tcp = t] ELSE c  OBVIOUS
<1> HIDE DEF t, d
<1>4. d \in Contexts /\ d.app = c.app  BY <1>2, <1>3 DEF Contexts
<1>5. fl \in Flags /\ "RST" \in fl  BY DEF Flags
<1> HIDE DEF fl
<1>6. p \in Reply /\ p.flags = fl  BY <1>4, <1>5, UnitFacts DEF Contexts, Session, Reply
<1>7. w = IF d.writes = 0 THEN d ELSE [d EXCEPT !.writes = d.writes - 1, !.app = b]
  BY Zenon DEF write_tcp
<1> HIDE DEF p
<1>8. Hears(c.app, b)  BY <1>4, <1>5, <1>6, AppHears DEF Contexts
<1> HIDE DEF b
<1>9. w \in Contexts  BY <1>4, <1>5, WriteTcp
<1>10. w.app \in {c.app, b}  BY <1>4, <1>7 DEF Contexts
<1> HIDE DEF w
<1>11. write_rst(c).app = w.app  BY <1>1, <1>9 DEF Contexts
<1>12. QED  BY <1>8, <1>10, <1>11 DEF Hears

-----------------------------------------------------------------------------
(* The invariant *)

\* Two sessions that the invariant does not tell apart.
Alike(t, v) ==
    /\ v.state = t.state /\ v.remote_seq = t.remote_seq
    /\ v.forward = t.forward /\ v.recv_window = t.recv_window

LEMMA AlikeLinked ==
    ASSUME NEW t, NEW v, NEW a, NEW s, NEW u, Linked(t, a, s, u), Alike(t, v)
    PROVE  Linked(v, a, s, u)
<1>1. /\ t.state \in Live => s.unsent < SndBuf
      /\ Begun(t, a, u) /\ Flow(t, a, u) /\ Told(t, a) /\ Roomy(t, a, s)
  BY DEF Linked
<1>2. /\ v.state = t.state /\ v.remote_seq = t.remote_seq
      /\ v.forward = t.forward /\ v.recv_window = t.recv_window
  BY DEF Alike
<1>3. Begun(v, a, u)  BY <1>1, <1>2 DEF Begun
<1>4. \A k : Covered(t, a, u, k) => Covered(v, a, u, k)  BY <1>2 DEF Covered
<1>5. Neat(t, a) => Neat(v, a)  BY <1>2 DEF Neat
<1>6. Coming(t, a, u) => Coming(v, a, u)  BY <1>4 DEF Coming
<1>7. Flow(v, a, u)  BY <1>1, <1>2, <1>4, <1>5, <1>6 DEF Flow
<1>8. Roomy(v, a, s)  BY <1>1, <1>2 DEF Roomy
<1>9. QED  BY <1>1, <1>2, <1>3, <1>7, <1>8 DEF Linked, Told

\* What the app hears without learning anything leaves it as young as it was.
LEMMA HearsYoung ==
    ASSUME NEW a, NEW b, NEW u, Hears(a, b), Young(a, u)
    PROVE  Young(b, u)
BY DEF Hears, Young

\* What the app learns changes neither its data nor what is in the tun.
LEMMA LearnsFlow ==
    ASSUME NEW t, NEW a, NEW b, NEW u, b.snd_nxt = a.snd_nxt, b.fin = a.fin, Flow(t, a, u)
    PROVE  Flow(t, b, u)
<1>1. DataEnd(b) = DataEnd(a)  BY DEF DataEnd
<1>2. \A k : Covered(t, a, u, k) => Covered(t, b, u, k)  BY <1>1 DEF Covered
<1>3. Neat(t, a) => Neat(t, b)  BY <1>1 DEF Neat
<1>4. Coming(t, a, u) => Coming(t, b, u)  BY <1>1, <1>2 DEF Coming
<1>5. QED  BY <1>2, <1>3, <1>4 DEF Flow

\* A session that ends: nothing is claimed of it any more.
LEMMA EndedLinked ==
    ASSUME NEW t, NEW a, NEW s, NEW u, Linked(t, a, s, u), t.state # "NONE",
           NEW v, NEW b, NEW r, v.state \in {"CLOSING", "CLOSE"}, Hears(a, b)
    PROVE  Linked(v, b, r, u)
<1>1. Begun(t, a, u)  BY DEF Linked
<1>2. b.st # "CLOSED"  BY <1>1 DEF Begun, Hears
<1>3. b.st = "SYN_SENT" => Young(b, u)
  <2>1. b.st = "SYN_SENT" => a.st = "SYN_SENT"  BY DEF Hears
  <2>2. QED  BY <1>1, <2>1, HearsYoung DEF Begun
<1>4. Begun(v, b, u)  BY <1>2, <1>3 DEF Begun
<1>5. Flow(v, b, u) /\ Told(v, b) /\ Roomy(v, b, r)  BY DEF Flow, Told, Roomy, Taking, Joined
<1>6. QED  BY <1>4, <1>5 DEF Linked, Live

\* The window may be told: it fits the buffer behind what was forwarded.
Tellable(t, a, s) ==
    t.state \in Taking \union {"LISTEN", "CLOSE_WAIT"} =>
       /\ 0 <= s.unsent /\ t.recv_window + s.unsent <= SndBuf
       /\ DataEnd(a) <= ReadUpTo(s) + SndBuf
       /\ a.fin \/ t.remote_seq <= s.next

\* An app that is told what the session has.
LEMMA ToldLinked ==
    ASSUME NEW t \in Session, NEW a \in AppType, NEW s \in ServerType, NEW u,
           t.state \in Live => s.unsent < SndBuf, Begun(t, a, u), Flow(t, a, u),
           Tellable(t, a, s),
           t.state \in Joined, a.st = "EST" => a.snd_una <= t.remote_seq,
           NEW b, Learns(a, b, t.remote_seq, Shown(t))
    PROVE  Linked(t, b, s, u)
<1>1. b.st = a.st /\ b.snd_nxt = a.snd_nxt /\ b.fin = a.fin  BY DEF Learns
<1>2. Flow(t, b, u)  BY <1>1, LearnsFlow
<1>3. Begun(t, b, u)
  <2>1. Young(a, u) => Young(b, u)  BY <1>1 DEF Young
  <2>2. QED  BY <1>1, <2>1 DEF Begun
<1>4. a.st = "EST" => b.snd_una = t.remote_seq
  <2>1. a.snd_una \in Nat /\ t.remote_seq \in Int  BY DEF AppType, Session
  <2>2. QED  BY <2>1 DEF Learns
<1>5. Told(t, b)  BY <1>1, <1>4 DEF Told
<1>6. Roomy(t, b, s)
  <2> SUFFICES ASSUME t.state \in Taking \union {"LISTEN", "CLOSE_WAIT"}
               PROVE  /\ 0 <= s.unsent /\ t.recv_window + s.unsent <= SndBuf
                      /\ DataEnd(b) <= ReadUpTo(s) + SndBuf
                      /\ b.st = "EST" /\ ~b.fin => b.snd_una + b.wnd <= ReadUpTo(s) + SndBuf
    BY DEF Roomy
  <2>1. /\ 0 <= s.unsent /\ t.recv_window + s.unsent <= SndBuf
        /\ DataEnd(a) <= ReadUpTo(s) + SndBuf
        /\ a.fin \/ t.remote_seq <= s.next
    BY DEF Tellable
  <2>2. DataEnd(b) = DataEnd(a)  BY <1>1 DEF DataEnd
  <2>3. Shown(t) \in Nat /\ Shown(t) <= t.recv_window  BY ShownFacts
  <2>4. /\ t.recv_window \in Nat /\ t.remote_seq \in Int /\ s.unsent \in Int
        /\ s.next \in Int /\ SndBuf \in Nat
    BY TcpAssumption DEF TcpAssumption, Session, ServerType
  <2>5. b.st = "EST" => b.snd_una = t.remote_seq /\ b.wnd = Shown(t)
    <3>1. a.snd_una \in Nat  BY DEF AppType
    <3>2. QED  BY <1>1, <1>4, <2>4, <3>1 DEF Learns
  <2>6. t.remote_seq <= s.next => t.remote_seq + Shown(t) <= ReadUpTo(s) + SndBuf
    BY <2>1, <2>3, <2>4 DEF ReadUpTo
  <2>7. QED  BY <1>1, <2>1, <2>2, <2>5, <2>6
<1>7. QED  BY <1>2, <1>3, <1>5, <1>6 DEF Linked

\* A window that was computed for the room that is left.
LEMMA RoomForWindow ==
    ASSUME NEW c \in Contexts, 0 <= c.srv.unsent, c.srv.unsent < SndBuf
    PROVE  get_receive_window(c) + c.srv.unsent <= SndBuf
<1> DEFINE b == get_receive_buffer(c)
           m == MaxWindow * WindowUnit
           w == IF b > m THEN m ELSE b
           q == ToForward(c.tcp.forward)
<1>1. c.srv.unsent \in Int /\ SndBuf \in Nat /\ m \in Nat /\ q \in Nat
  <2>1. MaxWindow \in Nat /\ WindowUnit \in Nat /\ SndBuf \in Nat
    BY TcpAssumption DEF TcpAssumption
  <2>2. m \in Nat  BY <2>1
  <2>3. q \in Nat  BY QueuedFinite DEF Contexts, Session
  <2>4. QED  BY <2>1, <2>2, <2>3 DEF Contexts, ServerType
<1>2. get_receive_window(c) = IF q < w THEN w - q ELSE 0  BY DEF get_receive_window
<1>3. b \in Nat /\ b <= SndBuf - c.srv.unsent  BY <1>1 DEF get_receive_buffer
<1> HIDE DEF b, m, q
<1>4. w \in Nat /\ w <= SndBuf - c.srv.unsent  BY <1>1, <1>3
<1> HIDE DEF w
<1>5. QED  BY <1>1, <1>2, <1>4

-----------------------------------------------------------------------------
(* check_tcp_socket *)

\* What an app has heard adds up.
LEMMA HearsTwice ==
    ASSUME NEW a, NEW b, NEW d, Hears(a, b), Hears(b, d)
    PROVE  Hears(a, d)
BY DEF Hears

\* The forwarding loop, if it sent something: it moves remote_seq along the grid
\* up to a segment that is left, and never fills the buffer of the socket.
LEMMA ForwardQueue ==
    ASSUME NEW c \in Contexts, NEW o \in Oracles, o.run \subseteq DOMAIN c.tcp.forward,
           SendOutcome(c, o), Moved(o), Kept(c), c.tcp.state \in Taking \union {"CLOSE_WAIT"},
           Neat(c.tcp, c.app), c.srv.unsent < SndBuf
    PROVE  LET v == forwarded(c.tcp, o)
           IN  /\ v.remote_seq = o.end /\ o.end \in Grid /\ c.tcp.remote_seq <= o.end
               /\ o.end <= DataEnd(c.app)
               /\ DOMAIN v.forward = DOMAIN c.tcp.forward \ o.run
               /\ \A q \in DOMAIN v.forward :
                    /\ v.forward[q].len = c.tcp.forward[q].len /\ o.end <= q
                    /\ v.forward[q].sent <= SegLen
               /\ \A q \in o.run : q < o.end
               /\ delivered(c, o).unsent < SndBuf
               /\ c.srv.unsent <= delivered(c, o).unsent
               /\ ReadUpTo(delivered(c, o)) = ReadUpTo(c.srv)
<1> DEFINE t == c.tcp
           f == t.forward
           n == t.remote_seq
           e == o.end
           at == e + (IF o.part > 0 THEN f[e].sent + o.part ELSE 0)
           start == n + f[n].sent
           room == get_receive_buffer(c)
           g == [q \in DOMAIN f \ o.run |->
                   IF q = e THEN [f[q] EXCEPT !.sent = @ + o.part] ELSE f[q]]
           v == forwarded(t, o)
<1>1. /\ t \in Session /\ f \in Queues /\ n \in Int /\ c.srv \in ServerType
      /\ e \in Int /\ o.part \in Nat /\ c.srv.unsent \in Int
      /\ SndBuf \in Nat /\ SegLen \in Nat \ {0}
  BY Numbers, TcpAssumption DEF Oracles, ServerType, TcpAssumption
<1>2. v.remote_seq = e /\ v.forward = g  BY <1>1 DEF forwarded, Session
<1>3. /\ DOMAIN g = DOMAIN f \ o.run
      /\ \A q \in DOMAIN g : g[q].len = f[q].len
  <2>1. \A q \in DOMAIN f : f[q] \in Segment  BY <1>1, QueueFacts
  <2>2. \A q \in DOMAIN f : [f[q] EXCEPT !.sent = @ + o.part].len = f[q].len
    BY <2>1 DEF Segment
  <2>3. QED  BY <2>2
<1> HIDE DEF g
<1>4. /\ o.run # {} => n \in o.run
      /\ o.run = {} => e = n
      /\ o.part > 0 => e \in DOMAIN f \ o.run
  BY DEF SendOutcome, RunEnd, Sendable, HeadIs
<1>5. n \in DOMAIN f  BY <1>4 DEF Moved
<1>6. f # EmptyQueue  BY <1>5, EmptyDomain
<1>7. /\ n \in Grid
      /\ \A q \in DOMAIN f : /\ q \in Grid /\ q \in Nat /\ f[q].len = SegLen /\ n <= q
                             /\ q + SegLen <= DataEnd(c.app) /\ f[q].sent \in Nat
                             /\ f[q].sent <= SegLen
  BY <1>1, <1>6, GridFacts, QueueFacts DEF Neat
<1>8. Fresh(f, n)  BY DEF Kept, Tally, Taking, Live
<1>s. \A q \in DOMAIN g : g[q].sent <= SegLen
  <2> SUFFICES ASSUME NEW q \in DOMAIN g PROVE g[q].sent <= SegLen  OBVIOUS
  <2>1. q \in DOMAIN f \ o.run  BY <1>3
  <2>2. g[q] = IF q = e THEN [f[q] EXCEPT !.sent = @ + o.part] ELSE f[q]  BY <2>1 DEF g
  <2>3. f[q] \in Segment  BY <1>1, <2>1, QueueFacts
  <2>4. g[q].sent = IF q = e THEN f[q].sent + o.part ELSE f[q].sent
    BY <2>2, <2>3 DEF Segment
  <2>5. q = e /\ o.part > 0 => o.part < f[q].len - f[q].sent  BY DEF SendOutcome
  <2>6. f[q].len = SegLen /\ f[q].sent \in Nat /\ f[q].sent <= SegLen  BY <1>7, <2>1
  <2> HIDE DEF f, e
  <2>7. QED  BY <1>1, <2>4, <2>5, <2>6
<1>9. DataEnd(c.app) \in Int
  <2>1. DataEnd(c.app) \in Grid  BY DEF Neat
  <2>2. Grid \subseteq Nat  BY GridFacts
  <2>3. DataEnd(c.app) \in Nat  BY <2>1, <2>2
  <2>4. QED  BY <2>3
<1>d. /\ start \in Int /\ c.srv.next = start /\ c.srv.next \in Int
      /\ delivered(c, o).unsent = c.srv.unsent + (at - start)
      /\ delivered(c, o).next = at
  <2>1. start \in Int /\ c.srv.next \in Int  BY <1>1, <1>5, <1>7 DEF ServerType
  <2>2. SentAt(f, n) = f[n].sent  BY <1>5 DEF SentAt
  <2>3. c.srv.next = start  BY <1>6, <2>2 DEF Kept, Tally, Taking
  <2>4. ~(o.run = {} /\ o.part = 0)  BY <1>1 DEF Moved
  <2>5. QED  BY <1>1, <2>1, <2>3, <2>4 DEF delivered, ServerType
<1>r. ASSUME at \in Int, at >= start
      PROVE  /\ c.srv.unsent <= delivered(c, o).unsent
             /\ ReadUpTo(delivered(c, o)) = ReadUpTo(c.srv)
  <2> HIDE DEF at, start
  <2>1. QED  BY <1>1, <1>d, <1>r DEF ReadUpTo
<1>10. CASE o.run = {}
  <2>1. e = n /\ o.part > 0  BY <1>4, <1>10 DEF Moved
  <2>2. n + SegLen <= DataEnd(c.app)  BY <1>5, <1>7
  <2>3. Sendable([q \in DOMAIN f \ o.run |-> f[q]], e, e, room)
    BY <1>10, <2>1 DEF SendOutcome
  <2>4. f[n].len - f[n].sent < room /\ o.part < f[n].len - f[n].sent
    BY <1>5, <1>10, <2>1, <2>3 DEF Sendable, Fits, SendOutcome
  <2>5. at - start = o.part  BY <1>1, <1>5, <1>7, <2>1
  <2>6. delivered(c, o).unsent = c.srv.unsent + (at - start)
    BY <1>1, <2>1 DEF delivered, ServerType
  <2>7. c.srv.unsent + o.part < SndBuf
    <3>1. room = 0 \/ room = SndBuf - c.srv.unsent  BY DEF get_receive_buffer
    <3>2. o.part < room \/ room \notin Int  BY <1>1, <1>5, <1>7, <2>4
    <3> HIDE DEF room
    <3>3. QED  BY <1>1, <3>1, <3>2
  <2>8. at \in Int /\ at >= start
    <3>1. at \in Int /\ start \in Int  BY <1>1, <1>5, <1>7, <2>1
    <3> HIDE DEF at, start
    <3>2. QED  BY <1>1, <2>5, <3>1
  <2>9. QED  BY <1>1, <1>2, <1>3, <1>7, <1>9, <1>10, <1>r, <1>s, <2>1, <2>2, <2>5, <2>6, <2>7, <2>8
<1>11. CASE o.run # {}
  <2>1. PICK m \in o.run : e = SegEnd(f, m) /\ \A r \in o.run : r <= m
    BY <1>11 DEF SendOutcome, RunEnd
  <2>2. m \in DOMAIN f /\ e = m + SegLen  BY <1>7, <2>1 DEF SegEnd
  <2>3. n <= m /\ e \in Grid /\ e <= DataEnd(c.app)  BY <1>7, <2>2, GridFacts
  <2>4. \A q \in o.run : q < e  BY <1>1, <1>7, <2>1, <2>2
  <2>5. \A q \in DOMAIN g : e <= q
    <3> SUFFICES ASSUME NEW q \in DOMAIN g PROVE e <= q  OBVIOUS
    <3>1. q \in DOMAIN f \ o.run  BY <1>3
    <3>2. m < q  BY <3>1, <1>11 DEF SendOutcome
    <3>3. QED  BY <1>7, <2>2, <3>1, <3>2, GridFacts
  <2>6. Fits(f[m], IF m = n THEN room ELSE room - (m - start))
    BY <1>11 DEF SendOutcome
  <2>7. room \in Int /\ (room = 0 \/ room = SndBuf - c.srv.unsent)
    BY <1>1 DEF get_receive_buffer
  <2>8. start \in Int /\ f[n].sent \in Nat  BY <1>1, <1>5, <1>7
  <2>9. n \in o.run  BY <1>4, <1>11
  <2>10. delivered(c, o).unsent = c.srv.unsent + (at - start)
    BY <1>1, <1>11 DEF delivered, ServerType
  <2> HIDE DEF room
  <2>11. at - start < room
    <3>1. CASE o.part > 0
      <4>1. e \in DOMAIN f /\ e # n /\ f[e].sent = 0 /\ f[e].len = SegLen
        BY <1>4, <1>7, <1>8, <2>9, <3>1 DEF Fresh
      <4>2. Sendable([q \in DOMAIN f \ o.run |-> f[q]], e, e, room - (e - start))
        BY <1>11, <3>1 DEF SendOutcome, room
      <4>3. SegLen < room - (e - start)
        <5>1. [q \in DOMAIN f \ o.run |-> f[q]][e] = f[e]  BY <1>4, <3>1
        <5>2. Fits(f[e], room - (e - start))  BY <4>2, <5>1 DEF Sendable
        <5> HIDE DEF f, e, start
        <5>3. QED  BY <1>1, <4>1, <5>2 DEF Fits
      <4>4. o.part < SegLen
        <5>1. o.part < f[e].len - f[e].sent  BY <3>1 DEF SendOutcome
        <5> HIDE DEF f, e
        <5>2. QED  BY <1>1, <4>1, <5>1
      <4>5. at = e + o.part  BY <1>1, <3>1, <4>1
      <4> HIDE DEF at, start
      <4>6. QED  BY <1>1, <2>7, <2>8, <4>3, <4>4, <4>5
    <3>2. CASE o.part = 0 /\ m = n
      <4>1. f[n].len - f[n].sent < room /\ f[n].len = SegLen  BY <1>5, <1>7, <2>6, <3>2 DEF Fits
      <4>2. at = n + SegLen  BY <1>1, <2>2, <3>2
      <4>3. QED  BY <1>1, <2>7, <2>8, <4>1, <4>2
    <3>3. CASE o.part = 0 /\ m # n
      <4>1. f[m].sent = 0 /\ f[m].len = SegLen  BY <1>7, <1>8, <2>2, <3>3 DEF Fresh
      <4>2. SegLen < room - (m - start)  BY <1>1, <2>6, <3>3, <4>1 DEF Fits
      <4>3. at = m + SegLen /\ m \in Int  BY <1>1, <1>7, <2>2, <3>3
      <4> HIDE DEF start
      <4>4. QED  BY <1>1, <2>7, <2>8, <4>2, <4>3
    <3>4. QED  BY <1>1, <3>1, <3>2, <3>3
  <2>12. at \in Int
    <3>1. CASE o.part > 0  BY <1>1, <1>4, <1>7, <3>1
    <3>2. CASE o.part = 0  BY <1>1, <3>2
    <3>3. QED  BY <1>1, <3>1, <3>2
  <2>13. delivered(c, o).unsent < SndBuf
    <3> HIDE DEF at, start
    <3>1. QED  BY <1>1, <2>7, <2>8, <2>10, <2>11, <2>12
  <2>14. n <= e  BY <1>1, <1>7, <2>2, <2>3
  <2>15. at >= start
    <3>1. e <= at
      <4>1. CASE o.part > 0
        <5>1. f[e].sent \in Nat  BY <1>4, <1>7, <4>1
        <5>2. QED  BY <1>1, <4>1, <5>1
      <4>2. CASE ~(o.part > 0)  BY <1>1, <4>2
      <4>3. QED  BY <4>1, <4>2
    <3>2. f[n].sent <= SegLen
      <4>1. Fits(f[n], room)  BY <1>11, <2>9 DEF SendOutcome, room
      <4>2. QED  BY <1>5, <1>7, <4>1 DEF Fits
    <3>3. n + SegLen <= e  BY <1>1, <1>7, <2>2, <2>3
    <3>4. start <= e  BY <1>1, <2>8, <3>2, <3>3
    <3> HIDE DEF at, start
    <3>5. QED  BY <1>1, <2>8, <2>12, <3>1, <3>4
  <2>16. QED  BY <1>2, <1>3, <1>r, <1>s, <2>3, <2>4, <2>5, <2>12, <2>13, <2>14, <2>15
<1>12. QED  BY <1>10, <1>11

\* What was sent leaves the rest of the queue in order, and a FIN that waited
\* behind the data is counted at its own number.
LEMMA SentFlow ==
    ASSUME NEW t \in Session, NEW v \in Session, NEW a \in AppType, NEW u, Flow(t, a, u),
           t.state \in Taking \union {"CLOSE_WAIT"}, v.state = t.state,
           NEW e \in Grid, t.remote_seq <= e, e <= DataEnd(a),
           DOMAIN v.forward \subseteq DOMAIN t.forward,
           \A q \in DOMAIN v.forward : /\ v.forward[q].len = t.forward[q].len /\ e <= q
                                       /\ v.forward[q].sent <= SegLen,
           \A q \in DOMAIN t.forward \ DOMAIN v.forward : q < e,
           v.remote_seq = e + (IF t.state = "CLOSE_WAIT" /\ v.forward = EmptyQueue THEN 1 ELSE 0)
    PROVE  Flow(v, a, u)
<1>1. Neat(t, a)  BY DEF Flow
<1>2. /\ t.remote_seq \in Int /\ e \in Nat /\ DataEnd(a) \in Nat /\ Grid \subseteq Nat
      /\ v.remote_seq \in Int /\ e <= v.remote_seq
  BY <1>1, GridFacts DEF Session, Neat
<1>3. ASSUME NEW k, Covered(t, a, u, k) PROVE Covered(v, a, u, k)
  <2> SUFFICES ASSUME NEW g \in Grid, g < DataEnd(a)
               PROVE  \/ g < v.remote_seq \/ g \in DOMAIN v.forward
                      \/ \E i \in 1..k : u[i].seq = g /\ u[i].len > 0
    BY DEF Covered
  <2>1. CASE g < t.remote_seq  BY <1>2, <2>1
  <2>2. CASE g \in DOMAIN t.forward /\ g \notin DOMAIN v.forward
    <3>1. g < e /\ g \in Nat  BY <1>2, <2>2
    <3>2. QED  BY <1>2, <3>1
  <2>3. QED  BY <1>3, <2>1, <2>2 DEF Covered
<1>4. Neat(v, a)
  <2>1. \A q \in DOMAIN v.forward : v.remote_seq <= q
    BY <1>2, EmptyDomain
  <2>2. QED  BY <1>1, <1>2, <2>1 DEF Neat
<1>5. Coming(t, a, u) => Coming(v, a, u)  BY <1>3 DEF Coming
<1>6. t.state = "CLOSE_WAIT" /\ v.forward = EmptyQueue => v.remote_seq = a.snd_nxt
  <2> SUFFICES ASSUME t.state = "CLOSE_WAIT", v.forward = EmptyQueue
               PROVE  v.remote_seq = a.snd_nxt
    OBVIOUS
  <2>1. a.fin /\ Covered(v, a, u, 0)  BY <1>3 DEF Flow
  <2>2. DataEnd(a) = a.snd_nxt - 1 /\ a.snd_nxt \in Nat  BY <2>1 DEF DataEnd, AppType
  <2>3. ~(e < DataEnd(a))
    <3> SUFFICES ASSUME e < DataEnd(a) PROVE FALSE  OBVIOUS
    <3>1. \A q \in DOMAIN t.forward : q < e  BY EmptyDomain
    <3>2. Covered(t, a, u, 0)  BY DEF Flow
    <3>3. e < t.remote_seq \/ e \in DOMAIN t.forward  BY <3>2 DEF Covered
    <3>4. QED  BY <1>2, <3>1, <3>3
  <2>4. QED  BY <1>2, <2>2, <2>3
<1>7. QED  BY <1>3, <1>4, <1>5, <1>6 DEF Flow, Taking

\* The loop resets the session if send() fails.
LEMMA ForwardHears ==
    ASSUME NEW c \in Contexts, NEW o \in Oracles, o.run \subseteq DOMAIN c.tcp.forward,
           SendOutcome(c, o), c.tcp.state \in Connected
    PROVE  LET d == forward_data(c, o)
           IN  /\ Hears(c.app, d.app) /\ d.writes \in Nat
               /\ d.tcp.state # "CLOSING" =>
                    /\ d.tcp = forwarded(c.tcp, o) /\ d.srv = delivered(c, o)
                    /\ d.app = c.app
<1> DEFINE u == forwarded(c.tcp, o)
           s == delivered(c, o)
           d == [c EXCEPT !.tcp = u, !.srv = s]
           b == [s EXCEPT !.err = TRUE]
           x == [d EXCEPT !.srv = b]
<1>1. forward_data(c, o) = IF o.serr THEN write_rst(x) ELSE d
  BY DEF forward_data
<1>2. u \in Session /\ s \in ServerType  BY ForwardParts
<1>3. b \in ServerType  BY <1>2 DEF ServerType
<1>4. d \in Contexts /\ d.tcp = u /\ d.srv = s /\ d.app = c.app  BY <1>2 DEF Contexts
<1>5. x \in Contexts /\ x.tcp = u /\ x.app = c.app  BY <1>3, <1>4 DEF Contexts
<1>6. u.state = c.tcp.state  BY Numbers DEF forwarded, Session
<1> HIDE DEF u, s, d, b, x
<1>7. CASE ~o.serr
  <2>1. forward_data(c, o) = d  BY <1>1, <1>7
  <2>2. Hears(c.app, c.app)  BY DEF Hears
  <2>3. QED  BY <1>4, <2>1, <2>2 DEF u, s, Contexts
<1>8. CASE o.serr
  <2>1. forward_data(c, o) = write_rst(x)  BY <1>1, <1>8
  <2>2. /\ write_rst(x) \in Contexts /\ write_rst(x).tcp = Reset(u)
        /\ Hears(c.app, write_rst(x).app)
    BY <1>5, WriteRst, RstHears
  <2>3. Reset(u).state = "CLOSING"  BY <1>2, <1>6 DEF Reset, Session, Connected
  <2>4. QED  BY <2>1, <2>2, <2>3 DEF Contexts
<1>9. QED  BY <1>7, <1>8

\* A window that opens is told with the acknowledgment, one that closes later.
LEMMA OpensFlow ==
    ASSUME NEW t, NEW v, NEW a, NEW u, Flow(t, a, u), v.state = t.state,
           v.remote_seq = t.remote_seq, v.forward = t.forward
    PROVE  Flow(v, a, u)
<1>1. \A k : Covered(t, a, u, k) => Covered(v, a, u, k)  BY DEF Covered
<1>2. Neat(t, a) => Neat(v, a)  BY DEF Neat
<1>3. Coming(t, a, u) => Coming(v, a, u)  BY <1>1 DEF Coming
<1>4. QED  BY <1>1, <1>2, <1>3 DEF Flow

\* remote_seq is not beyond what the server got, before the FIN.
LEMMA KeptBehind ==
    ASSUME NEW c, Kept(c), c.tcp \in Session, c.tcp.state \in Taking
    PROVE  c.tcp.remote_seq <= c.srv.next
<1> DEFINE n == c.tcp.remote_seq
           k == SentAt(c.tcp.forward, n)
<1>1. c.srv.next = n + k  BY DEF Kept, Tally, Taking
<1>2. n \in Int /\ c.tcp.forward \in Queues  BY DEF Session
<1>3. k \in Nat
  <2>1. \A q \in DOMAIN c.tcp.forward : c.tcp.forward[q].sent \in Nat
    BY <1>2 DEF Queues, Segment
  <2>2. QED  BY <2>1 DEF SentAt
<1> HIDE DEF n, k
<1>4. QED  BY <1>1, <1>2, <1>3 DEF n

\* Forwarding and its acknowledgment.
LEMMA ForwardAndAckLinked ==
    ASSUME NEW c \in Contexts, NEW evs, NEW o \in Oracles, Kept(c), Sound(c.tcp),
           c.tcp.state \in Connected, NEW u, Linked(c.tcp, c.app, c.srv, u),
           "OUT" \in evs => o.run \subseteq DOMAIN c.tcp.forward /\ SendOutcome(c, o)
    PROVE  LET r == forward_and_ack(c, evs, o) IN Linked(r.tcp, r.app, r.srv, u)
<1> DEFINE fwd == "OUT" \in evs /\ Moved(o)
           d == IF "OUT" \in evs THEN forward_data(c, o) ELSE c
           e == [d EXCEPT !.tcp.recv_window = get_receive_window(d)]
           confirm == fwd /\ e.tcp.forward = EmptyQueue /\ e.tcp.state = "CLOSE_WAIT"
           x == [e EXCEPT !.tcp.remote_seq = @ + (IF confirm THEN 1 ELSE 0)]
           t == [d.tcp EXCEPT !.recv_window = get_receive_window(d)]
           v == [t EXCEPT !.remote_seq = @ + (IF confirm THEN 1 ELSE 0)]
           ack == fwd \/ (c.tcp.recv_window = 0 /\ e.tcp.recv_window > 0)
           r == forward_and_ack(c, evs, o)
<1>1. r = IF ack THEN write_ack(x) ELSE e
  BY DEF forward_and_ack, Moved
<1>2. d \in Contexts /\ Stays(c.tcp, d.tcp)  BY ForwardData DEF Stays
<1>3. Hears(c.app, d.app)  BY ForwardHears DEF Hears
<1>4. d.tcp.state # "CLOSING" =>
        /\ d.app = c.app
        /\ ~fwd => d.tcp = c.tcp /\ d.srv = c.srv
        /\ fwd => d.tcp = forwarded(c.tcp, o) /\ d.srv = delivered(c, o)
  BY ForwardHears, ForwardNothing
<1> HIDE DEF d
<1>5. /\ t \in Session /\ t.state = d.tcp.state /\ t.remote_seq = d.tcp.remote_seq
      /\ t.forward = d.tcp.forward /\ t.recv_window = get_receive_window(d)
      /\ t.socket = d.tcp.socket
  <2>1. get_receive_window(d) \in Nat  BY <1>2, WindowType
  <2>2. QED  BY <1>2, <2>1, Numbers DEF Session
<1>6. e \in Contexts /\ e.tcp = t /\ e.srv = d.srv /\ e.app = d.app
  <2>1. e = [d EXCEPT !.tcp = t]  OBVIOUS
  <2> HIDE DEF e, t
  <2>2. QED  BY <1>2, <1>5, <2>1 DEF Contexts
<1> HIDE DEF e, t
<1>7. /\ v \in Session /\ v.state = t.state /\ v.forward = t.forward
      /\ v.remote_seq = t.remote_seq + (IF confirm THEN 1 ELSE 0)
      /\ v.recv_window = t.recv_window
  BY <1>5 DEF Session
<1>8. x \in Contexts /\ x.tcp = v /\ x.srv = d.srv /\ x.app = d.app
  <2>1. x = [e EXCEPT !.tcp = v]  BY <1>6
  <2> HIDE DEF x, v
  <2>2. QED  BY <1>6, <1>7, <2>1 DEF Contexts
<1> HIDE DEF x, v, ack
<1>9. Tells(x, write_ack(x))  BY <1>8, WriteTells, 0 \in Nat
<1>10. /\ write_ack(x) \in Contexts /\ write_ack(x).srv = d.srv
       /\ x.writes # 0 => write_ack(x).tcp = v
       /\ x.writes = 0 => write_ack(x).tcp = [v EXCEPT !.state = "CLOSING"]
  BY <1>8, WriteAck
<1>11. Hears(c.app, r.app)
  <2>1. Hears(d.app, r.app)  BY <1>1, <1>6, <1>8, <1>9 DEF Tells, Hears
  <2>2. QED  BY <1>3, <2>1, HearsTwice
<1>12. r.tcp.state \in {d.tcp.state, "CLOSING"}
  BY <1>1, <1>5, <1>6, <1>7, <1>10 DEF Session
<1>13. CASE r.tcp.state = "CLOSING"
  BY <1>11, <1>13, EndedLinked DEF Connected
<1>14. CASE r.tcp.state # "CLOSING"
  <2> DEFINE a == c.app
  <2>1. d.tcp.state = c.tcp.state /\ d.tcp.state # "CLOSING"
    BY <1>2, <1>12, <1>14 DEF Stays
  <2>2. c.tcp.state \in Taking \union {"CLOSE_WAIT"}
    BY <2>1 DEF Connected, Taking
  <2>3. /\ c.srv.unsent < SndBuf /\ Begun(c.tcp, a, u) /\ Flow(c.tcp, a, u) /\ Told(c.tcp, a)
    BY <2>2 DEF Linked, Taking, Live
  <2>R. Roomy(c.tcp, a, c.srv)  BY DEF Linked
  <2>4. /\ d.srv.unsent < SndBuf /\ c.srv.unsent <= d.srv.unsent
        /\ ReadUpTo(d.srv) = ReadUpTo(c.srv)
    <3>2. CASE fwd
      <4>1. Neat(c.tcp, c.app)  BY <2>2, <2>3 DEF Flow
      <4>2. QED  BY <1>4, <2>1, <2>2, <2>3, <3>2, <4>1, ForwardQueue
    <3>3. CASE ~fwd
      <4>1. d.srv = c.srv /\ c.srv.unsent \in Int
        BY <1>4, <2>1, <3>3 DEF Contexts, ServerType
      <4>2. QED  BY <2>3, <4>1
    <3>4. QED  BY <3>2, <3>3
  <2>5. /\ d.srv \in ServerType /\ 0 <= d.srv.unsent
        /\ t.recv_window + d.srv.unsent <= SndBuf /\ v.recv_window = t.recv_window
        /\ DataEnd(a) <= ReadUpTo(d.srv) + SndBuf
        /\ a.st = "EST" /\ ~a.fin => a.snd_una + a.wnd <= ReadUpTo(d.srv) + SndBuf
    <3>1. /\ 0 <= c.srv.unsent /\ DataEnd(a) <= ReadUpTo(c.srv) + SndBuf
          /\ a.st = "EST" /\ ~a.fin => a.snd_una + a.wnd <= ReadUpTo(c.srv) + SndBuf
      BY <2>2, <2>R DEF Roomy
    <3>2. d.srv \in ServerType /\ d.srv.unsent \in Int /\ c.srv.unsent \in Int
      BY <1>2 DEF Contexts, ServerType
    <3>3. 0 <= d.srv.unsent  BY <2>4, <3>1, <3>2
    <3>4. t.recv_window + d.srv.unsent <= SndBuf  BY <1>2, <1>5, <2>4, <3>3, RoomForWindow
    <3>5. QED  BY <1>7, <2>4, <3>1, <3>2, <3>3, <3>4
  <2>K. r.tcp.state # "CLOSING" /\ Kept(r)  BY <1>14, ForwardAndAckKept
  <2>6. Begun(v, a, u) /\ Begun(t, a, u)
    <3>1. v.state = c.tcp.state /\ t.state = c.tcp.state /\ c.tcp.state \notin {"NONE", "LISTEN"}
      BY <1>5, <1>7, <2>1, <2>2 DEF Taking
    <3>2. QED  BY <2>3, <3>1 DEF Begun
  <2>7. CASE ~fwd
    <3>1. /\ t.state = c.tcp.state /\ t.remote_seq = c.tcp.remote_seq
          /\ t.forward = c.tcp.forward /\ d.srv = c.srv /\ d.app = a
      BY <1>4, <1>5, <2>1, <2>7
    <3>2. v.remote_seq = t.remote_seq  BY <1>5, <1>7, <2>7 DEF Session
    <3>3. Flow(t, a, u) /\ Flow(v, a, u)  BY <1>7, <2>3, <3>1, <3>2, OpensFlow
    <3>4. Told(t, a)  BY <2>3, <3>1 DEF Told
    <3>5. CASE ~ack
      <4>1. r = e  BY <1>1, <3>5
      <4>2. Roomy(t, a, d.srv)  BY <2>5 DEF Roomy
      <4>3. QED  BY <1>6, <2>3, <2>6, <3>1, <3>3, <3>4, <4>1, <4>2 DEF Linked
    <3>6. CASE ack
      <4>1. r = write_ack(x) /\ x.writes # 0 /\ r.tcp = v
        BY <1>1, <1>7, <1>10, <1>14, <3>6 DEF Session
      <4>2. Learns(a, r.app, v.remote_seq, Shown(v))
        BY <1>8, <1>9, <3>1, <4>1 DEF Tells
      <4>3. a.st = "EST" => a.snd_una <= v.remote_seq
        <5>1. a.st = "EST" => a.snd_una = c.tcp.remote_seq
          BY <2>2, <2>3 DEF Told, Joined, Taking
        <5>2. c.tcp.remote_seq \in Int  BY Numbers
        <5>3. QED  BY <3>1, <3>2, <5>1, <5>2
      <4>4. v.state \in Joined  BY <1>7, <2>2, <3>1 DEF Joined
      <4>5. a \in AppType /\ r.srv = d.srv /\ d.srv = c.srv  BY <1>10, <3>1, <4>1, Numbers
      <4>6. Tellable(v, a, d.srv)
        <5>1. v.state = "CLOSE_WAIT" => a.fin  BY <1>7, <2>3, <3>1 DEF Flow
        <5>2. v.state \in Taking => v.remote_seq <= d.srv.next
          BY <1>7, <2>K, <4>1, <4>5, KeptBehind
        <5>3. v.state \in Taking \union {"CLOSE_WAIT"}  BY <1>7, <2>2, <3>1
        <5>4. QED  BY <2>5, <5>1, <5>2, <5>3 DEF Tellable
      <4> HIDE DEF r, a
      <4>7. QED
        BY <1>7, <2>3, <2>5, <2>6, <3>3, <4>1, <4>2, <4>3, <4>4, <4>5, <4>6, ToldLinked DEF r
    <3>7. QED  BY <3>5, <3>6
  <2>8. CASE fwd
    <3>1. /\ d.app = a /\ d.tcp = forwarded(c.tcp, o) /\ d.srv = delivered(c, o)
      BY <1>4, <2>1, <2>8
    <3>2. /\ t.remote_seq = o.end /\ o.end \in Grid /\ c.tcp.remote_seq <= o.end
          /\ o.end <= DataEnd(a)
          /\ DOMAIN t.forward = DOMAIN c.tcp.forward \ o.run
          /\ \A q \in DOMAIN t.forward :
               /\ t.forward[q].len = c.tcp.forward[q].len /\ o.end <= q
               /\ t.forward[q].sent <= SegLen
          /\ \A q \in o.run : q < o.end
      <4>1. Neat(c.tcp, c.app)  BY <2>2, <2>3 DEF Flow
      <4>2. QED  BY <1>5, <2>2, <2>3, <2>8, <3>1, <4>1, ForwardQueue
    <3>3. confirm <=> c.tcp.state = "CLOSE_WAIT" /\ v.forward = EmptyQueue
      BY <1>5, <1>6, <1>7, <2>1, <2>8
    <3>4. v.remote_seq = o.end + (IF c.tcp.state = "CLOSE_WAIT" /\ v.forward = EmptyQueue
                                  THEN 1 ELSE 0)
      BY <1>7, <3>2, <3>3
    <3>5. v.state = c.tcp.state  BY <1>5, <1>7, <2>1
    <3>6. a \in AppType /\ c.tcp \in Session  BY Numbers
    <3>7. /\ DOMAIN v.forward \subseteq DOMAIN c.tcp.forward
          /\ \A q \in DOMAIN v.forward :
               /\ v.forward[q].len = c.tcp.forward[q].len /\ o.end <= q
               /\ v.forward[q].sent <= SegLen
          /\ \A q \in DOMAIN c.tcp.forward \ DOMAIN v.forward : q < o.end
      BY <1>7, <3>2
    <3> HIDE DEF a
    <3>9. Flow(v, a, u)
      BY <1>7, <2>2, <2>3, <3>2, <3>4, <3>5, <3>6, <3>7, SentFlow
    <3>10. r = write_ack(x) /\ x.writes # 0 /\ r.tcp = v
      BY <1>1, <1>7, <1>10, <1>14, <2>8 DEF Session, ack
    <3>11. Learns(a, r.app, v.remote_seq, Shown(v))
      BY <1>8, <1>9, <3>1, <3>10 DEF Tells
    <3>12. a.st = "EST" => a.snd_una <= v.remote_seq
      <4>1. a.st = "EST" => a.snd_una = c.tcp.remote_seq
        BY <2>2, <2>3 DEF Told, Joined, Taking
      <4>2. c.tcp.remote_seq \in Int /\ o.end \in Int  BY Numbers DEF Oracles
      <4>3. QED  BY <3>2, <3>4, <4>1, <4>2
    <3>13. v.state \in Joined  BY <2>2, <3>5 DEF Joined
    <3>14. r.srv = d.srv  BY <1>10, <3>10
    <3>15. Tellable(v, a, d.srv)
      <4>1. v.state = "CLOSE_WAIT" => a.fin  BY <2>3, <3>5 DEF Flow
      <4>2. v.state \in Taking => v.remote_seq <= d.srv.next
        BY <1>7, <2>K, <3>10, <3>14, KeptBehind
      <4>3. v.state \in Taking \union {"CLOSE_WAIT"}  BY <2>2, <3>5
      <4>4. QED  BY <2>5, <4>1, <4>2, <4>3 DEF Tellable, a
    <3> HIDE DEF r
    <3>16. QED
      BY <1>7, <2>4, <2>5, <2>6, <3>6, <3>9, <3>10, <3>11, <3>12, <3>13, <3>14, <3>15,
         ToldLinked DEF r
  <2>9. QED  BY <2>7, <2>8
<1>15. QED  BY <1>13, <1>14

\* A session that the engine resets.
LEMMA RstLinked ==
    ASSUME NEW c \in Contexts, NEW u, Linked(c.tcp, c.app, c.srv, u), c.tcp.state # "NONE"
    PROVE  LET r == write_rst(c) IN Linked(r.tcp, r.app, r.srv, u)
<1>1. write_rst(c).tcp = Reset(c.tcp)  BY WriteRst
<1>2. Reset(c.tcp).state \in {"CLOSING", "CLOSE"}  BY Numbers DEF Reset, Session
<1>3. Hears(c.app, write_rst(c).app)  BY RstHears
<1>4. QED  BY <1>1, <1>2, <1>3, EndedLinked

\* recv(): when the app is told of the end of the server's stream, nothing of its
\* own is left behind.
LEMMA ReadSocketLinked ==
    ASSUME NEW c \in Contexts, NEW o \in Oracles, c.tcp.state \in {"ESTABLISHED", "CLOSE_WAIT"},
           NEW u, Linked(c.tcp, c.app, c.srv, u), Kept(c)
    PROVE  LET r == read_socket(c, o) IN Linked(r.tcp, r.app, r.srv, u)
<1> DEFINE a == c.app
<1>1. /\ c.srv.unsent < SndBuf /\ Begun(c.tcp, a, u) /\ Flow(c.tcp, a, u) /\ Told(c.tcp, a)
  BY DEF Linked, Live
<1>2. a.st = "EST" => a.snd_una <= c.tcp.remote_seq
  <2>1. a.st = "EST" => a.snd_una = c.tcp.remote_seq  BY <1>1 DEF Told, Joined, Taking
  <2>2. c.tcp.remote_seq \in Int  BY Numbers
  <2>3. QED  BY <2>1, <2>2
<1>3. a \in AppType /\ c.tcp \in Session  BY Numbers
<1>4. CASE o.rd = "err"
  <2>1. read_socket(c, o) = write_rst(c)  BY <1>4 DEF read_socket
  <2>2. QED  BY <2>1, RstLinked
<1>5. CASE o.rd = "eof"
  <2> DEFINE s == IF c.tcp.state = "ESTABLISHED" THEN "FIN_WAIT1" ELSE "LAST_ACK"
             w == write_fin_ack(c)
             x == [w EXCEPT !.tcp.local_seq = @ + 1, !.tcp.state = s]
             d == IF c.tcp.forward # EmptyQueue THEN write_rst(c)
                  ELSE IF c.writes = 0 THEN w ELSE x
             r == [d EXCEPT !.tcp.socket = FALSE, !.tcp.registered = FALSE]
  <2>1. read_socket(c, o) = r  BY <1>5, Zenon DEF read_socket
  <2>2. w \in Contexts /\ w.srv = c.srv /\ Tells(c, w)
    BY WriteFinAck, WriteTells, 0 \in Nat
  <2>3. CASE c.tcp.forward # EmptyQueue
    <3>1. d = write_rst(c)  BY <2>3
    <3> HIDE DEF d
    <3>2. d \in Contexts /\ d.tcp = Reset(c.tcp) /\ Hears(a, d.app)
      BY <3>1, WriteRst, RstHears
    <3>3. d.tcp.state = "CLOSING" /\ d.tcp \in Session
      BY <1>3, <3>2, Numbers DEF Reset, Session
    <3>4. r.tcp.state = "CLOSING" /\ r.app = d.app
      BY <3>2, <3>3 DEF Contexts, Session
    <3> HIDE DEF r
    <3>5. QED  BY <2>1, <3>2, <3>4, EndedLinked
  <2>4. CASE c.tcp.forward = EmptyQueue /\ c.writes = 0
    <3>1. d = w  BY <2>4
    <3>2. w.tcp = [c.tcp EXCEPT !.state = "CLOSING"]  BY <2>4, WriteFinAck
    <3> HIDE DEF d, w
    <3>3. d \in Contexts /\ d.tcp \in Session /\ d.tcp.state = "CLOSING" /\ Hears(a, d.app)
      BY <1>3, <2>2, <3>1, <3>2 DEF Contexts, Session, Tells
    <3>4. r.tcp.state = "CLOSING" /\ r.app = d.app
      BY <3>3 DEF Contexts, Session
    <3> HIDE DEF r
    <3>5. QED  BY <2>1, <3>3, <3>4, EndedLinked
  <2>5. CASE c.tcp.forward = EmptyQueue /\ c.writes # 0
    <3>1. d = x  BY <2>5
    <3>2. w.tcp = c.tcp  BY <2>5, WriteFinAck
    <3> HIDE DEF w
    <3>3. /\ r.tcp.state = s /\ r.tcp.remote_seq = c.tcp.remote_seq
          /\ r.tcp.recv_window = c.tcp.recv_window
          /\ r.tcp.forward = c.tcp.forward /\ r.srv = c.srv /\ r.app = w.app
      BY <1>3, <2>2, <2>5, <3>2 DEF Contexts, Session
    <3>4. r.tcp \in Session
      <4>1. s \in States /\ c.tcp.local_seq + 1 \in Nat  BY <1>3 DEF States, Live, Session
      <4> HIDE DEF s
      <4>2. QED  BY <1>3, <2>2, <2>5, <3>2, <4>1 DEF Contexts, Session
    <3>5. /\ s \in {"FIN_WAIT1", "LAST_ACK"}
          /\ s = "LAST_ACK" => a.fin /\ c.tcp.remote_seq = a.snd_nxt
      BY <1>1, <2>5 DEF Flow
    <3> HIDE DEF r, s, x
    <3>6. Learns(a, r.app, r.tcp.remote_seq, Shown(r.tcp))
      BY <2>2, <2>5, <3>3 DEF Tells, Shown
    <3>7. Begun(r.tcp, a, u)  BY <1>1, <3>3, <3>5 DEF Begun
    <3>8. Flow(r.tcp, a, u)  BY <3>3, <3>5 DEF Flow, Taking
    <3>9. /\ r.tcp.state \in Joined /\ c.srv \in ServerType
          /\ Tellable(r.tcp, a, c.srv)
      BY <3>3, <3>5, Numbers DEF Joined, Tellable, Taking
    <3> HIDE DEF a
    <3>10. Linked(r.tcp, r.app, r.srv, u)
      BY <1>1, <1>2, <1>3, <3>3, <3>4, <3>6, <3>7, <3>8, <3>9, ToldLinked
    <3>11. QED  BY <2>1, <3>10
  <2>6. QED  BY <2>3, <2>4, <2>5
<1>6. CASE o.rd = "data"
  <2> DEFINE d == [c EXCEPT !.srv.toRead = @ - o.n]
             w == write_data(d, o.n)
             x == [w EXCEPT !.tcp.local_seq = @ + o.n, !.tcp.unconfirmed = @ + 1]
  <2>1. read_socket(c, o) = IF c.writes = 0 THEN w ELSE x
    BY <1>6, Zenon DEF read_socket
  <2>2. /\ d \in Contexts /\ d.tcp = c.tcp /\ d.app = c.app /\ d.writes = c.writes
        /\ d.srv.unsent = c.srv.unsent /\ d.srv.next = c.srv.next
    <3>1. [c.srv EXCEPT !.toRead = @ - o.n] \in ServerType
      BY Numbers DEF ServerType, Oracles
    <3>2. QED  BY <3>1 DEF Contexts, ServerType
  <2> HIDE DEF d
  <2>3. o.n \in Nat  BY DEF Oracles
  <2>4. w \in Contexts /\ w.srv = d.srv /\ Tells(d, w)
    BY <2>2, <2>3, WriteData, WriteTells
  <2>5. CASE c.writes = 0
    <3>1. w.tcp = [c.tcp EXCEPT !.state = "CLOSING"]  BY <2>2, <2>3, <2>5, WriteData
    <3> HIDE DEF w
    <3>2. w.tcp.state = "CLOSING" /\ Hears(a, w.app)
      BY <1>3, <2>2, <2>4, <3>1 DEF Session, Tells
    <3>3. read_socket(c, o) = w  BY <2>1, <2>5
    <3>4. QED  BY <3>2, <3>3, EndedLinked
  <2>6. CASE c.writes # 0
    <3>1. w.tcp = c.tcp  BY <2>2, <2>3, <2>6, WriteData
    <3> HIDE DEF w
    <3>2. /\ Alike(c.tcp, x.tcp) /\ x.srv = w.srv /\ x.app = w.app
      BY <1>3, <2>4, <3>1 DEF Contexts, Session, Alike
    <3> HIDE DEF x
    <3>3. Learns(a, w.app, c.tcp.remote_seq, Shown(c.tcp))
      BY <2>2, <2>4, <2>6 DEF Tells
    <3>4. c.tcp.state \in Joined /\ d.srv \in ServerType
      BY <2>2, Numbers DEF Joined, Taking
    <3>t. Tellable(c.tcp, a, d.srv)
      <4>1. c.tcp.state = "CLOSE_WAIT" => a.fin  BY <1>1 DEF Flow
      <4>2. c.tcp.state \in Taking => c.tcp.remote_seq <= c.srv.next  BY <1>3, KeptBehind
      <4>3. Roomy(c.tcp, a, c.srv)  BY DEF Linked
      <4>4. QED  BY <2>2, <4>1, <4>2, <4>3 DEF Tellable, Roomy, ReadUpTo, Taking
    <3> HIDE DEF a
    <3>5. Linked(c.tcp, w.app, w.srv, u)
      BY <1>1, <1>2, <1>3, <2>2, <2>4, <3>3, <3>4, <3>t, ToldLinked
    <3>6. QED  BY <2>1, <2>6, <3>2, <3>5, AlikeLinked
  <2>7. QED  BY <2>5, <2>6
<1>7. QED  BY <1>4, <1>5, <1>6 DEF Oracles

\* A reply of the proxy.
LEMMA SocksReplyLinked ==
    ASSUME NEW c \in Contexts, NEW o \in Oracles, c.tcp.state = "LISTEN",
           NEW u, Linked(c.tcp, c.app, c.srv, u)
    PROVE  LET r == socks_reply(c, o) IN Linked(r.tcp, r.app, r.srv, u)
<1> DEFINE to(s) == [c EXCEPT !.tcp.socks5 = s]
           fail == write_rst(to("FAILED"))
           Good(r) == Linked(r.tcp, r.app, r.srv, u)
<1>1. c.tcp \in Session  BY Numbers
<1>2. ASSUME NEW s \in Socks
      PROVE  to(s) \in Contexts /\ to(s).tcp.state = "LISTEN" /\ Good(to(s))
  <2>1. to(s) \in Contexts  BY WithSocks
  <2>2. to(s).tcp.state = "LISTEN" /\ Alike(c.tcp, to(s).tcp) /\ to(s).srv = c.srv /\ to(s).app = c.app
    BY <1>1, <2>1 DEF Contexts, Session, Alike
  <2> HIDE DEF to
  <2>3. Good(to(s))  BY <2>2, AlikeLinked
  <2>4. QED  BY <2>1, <2>2, <2>3
<1>3. Good(fail)
  <2>1. "FAILED" \in Socks  BY DEF Socks
  <2> HIDE DEF to
  <2>2. QED  BY <1>2, <2>1, RstLinked
<1>4. Good(write_rst(c))  BY RstLinked
<1>5. socks_reply(c, o) \in {write_rst(c), fail, to("AUTH"), to("CONNECTED"), to("CONNECT")}
  BY DEF socks_reply, Oracles
<1> HIDE DEF fail, to, Good
<1>6. Good(socks_reply(c, o))  BY <1>2, <1>3, <1>4, <1>5 DEF Socks
<1>7. QED  BY <1>6 DEF Good

\* The session starts with the first number of the grid.
LEMMA StartLinked ==
    ASSUME NEW t \in Session, t.state = "SYN_RECV", t.remote_seq = RemoteStart + 1,
           t.forward = EmptyQueue,
           NEW a \in AppType, NEW u, Young(a, u), NEW s \in ServerType, s.unsent < SndBuf,
           0 <= s.unsent, s.next = RemoteStart + 1, t.recv_window + s.unsent <= SndBuf,
           NEW b, b.snd_nxt = a.snd_nxt, b.fin = a.fin,
           IF a.st = "SYN_SENT"
           THEN b.st = "EST" /\ b.snd_una = t.remote_seq /\ b.wnd = t.recv_window \div WindowUnit
           ELSE b.st = a.st
    PROVE  Linked(t, b, s, u)
<1>1. b.st \in {"EST", "RESET", "ABORTED"}  BY DEF Young
<1>2. Begun(t, b, u)  BY <1>1 DEF Begun
<1>3. DataEnd(b) = RemoteStart + 1  BY DEF Young, DataEnd
<1>4. RemoteStart + 1 \in Grid /\ RemoteStart + 1 \in Nat /\ RemoteStart \in Nat
  BY GridFacts, TcpAssumption DEF TcpAssumption
<1>5. Neat(t, b)  BY <1>3, <1>4, EmptyDomain DEF Neat
<1>6. \A k : Covered(t, b, u, k)
  <2>1. \A g \in Grid : ~(g < RemoteStart + 1)
    <3> SUFFICES ASSUME NEW g \in Grid PROVE ~(g < RemoteStart + 1)  OBVIOUS
    <3>1. g \in Nat /\ g > RemoteStart  BY GridFacts
    <3>2. QED  BY <1>4, <3>1
  <2>2. QED  BY <1>3, <2>1 DEF Covered
<1>7. Coming(t, b, u)
  <2>1. \A i \in 1..Len(u) : u[i].len = 0 /\ "FIN" \notin u[i].flags  BY DEF Young
  <2>2. QED  BY <1>6, <2>1 DEF Coming
<1>8. Flow(t, b, u)  BY <1>5, <1>7 DEF Flow
<1>9. Told(t, b)  BY <1>1 DEF Told, Young
<1>10. Roomy(t, b, s)
  <2>1. /\ t.recv_window \in Nat /\ s.unsent \in Int /\ SndBuf \in Nat
    BY TcpAssumption DEF TcpAssumption, Session, ServerType
  <2>2. PICK k \in Nat : k = t.recv_window \div WindowUnit /\ k <= t.recv_window
    BY <2>1, UnitFacts
  <2>3. b.st = "EST" => b.snd_una = RemoteStart + 1 /\ b.wnd = k  BY <2>2 DEF Young
  <2>4. /\ RemoteStart + 1 <= ReadUpTo(s) + SndBuf
        /\ RemoteStart + 1 + k <= ReadUpTo(s) + SndBuf
    BY <1>4, <2>1, <2>2 DEF ReadUpTo
  <2>5. QED  BY <1>3, <2>3, <2>4 DEF Roomy
<1>11. QED  BY <1>2, <1>8, <1>9, <1>10 DEF Linked

\* Connecting.
LEMMA ConnectLinked ==
    ASSUME NEW c \in Contexts, NEW evs, NEW o \in Oracles, Kept(c), c.tcp.state = "LISTEN",
           NEW u, Linked(c.tcp, c.app, c.srv, u)
    PROVE  LET r == connect(c, evs, o) IN Linked(r.tcp, r.app, r.srv, u)
<1> DEFINE s1 == IF Socks5 THEN "HELLO" ELSE "CONNECTED"
           h == [c EXCEPT !.tcp.socks5 = s1]
           a == [c EXCEPT !.srv.socks = "idle"]
           d == IF c.tcp.socks5 = "NONE"
                THEN IF "OUT" \in evs THEN h ELSE c
                ELSE IF "IN" \in evs THEN socks_reply(a, o) ELSE c
           syn == [d EXCEPT !.tcp.remote_seq = @ + 1]
           asked == [d EXCEPT !.srv.socks = "asked"]
           broken == [d EXCEPT !.srv.err = TRUE]
           w == write_syn_ack(syn)
           x == [w EXCEPT !.tcp.local_seq = @ + 1, !.tcp.state = "SYN_RECV"]
           r == connect(c, evs, o)
           Good(e) == /\ Linked(e.tcp, e.app, e.srv, u)
                      /\ e.tcp.state \in {"LISTEN", "CLOSING"}
                      /\ e.tcp.state = "LISTEN" =>
                           e.tcp.remote_seq = RemoteStart /\ e.srv.next = RemoteStart + 1
                      /\ e.tcp.state = "CLOSING" => e.tcp.socks5 # "CONNECTED"
<1>1. \/ d.tcp.socks5 # "CONNECTED" /\ r \in {asked, write_rst(broken), d}
      \/ d.tcp.socks5 = "CONNECTED" /\ r = IF d.writes = 0 THEN w ELSE x
  <2>1. r = CASE d.tcp.socks5 \in {"HELLO", "AUTH", "CONNECT"} ->
                   IF o.sok THEN asked ELSE write_rst(broken)
              [] d.tcp.socks5 = "CONNECTED" -> IF d.writes = 0 THEN w ELSE x
              [] OTHER -> d
    BY Zenon DEF connect
  <2> HIDE DEF d, asked, broken, w, x, r
  <2>2. QED  BY <2>1
<1>2. d \in Contexts /\ Good(d)
  <2>1. c.tcp.remote_seq = RemoteStart /\ c.srv.next = RemoteStart + 1  BY DEF Kept, Tally
  <2>2. h \in Contexts /\ Good(h)
    <3>1. s1 \in Socks  BY DEF Socks
    <3> HIDE DEF s1
    <3>2. h \in Contexts  BY <3>1, WithSocks
    <3>3. Alike(c.tcp, h.tcp) /\ h.srv = c.srv /\ h.app = c.app
      BY Numbers DEF Contexts, Session, Alike
    <3> HIDE DEF h
    <3>4. QED  BY <2>1, <3>2, <3>3, AlikeLinked DEF Alike
  <2>3. a \in Contexts /\ a.tcp = c.tcp /\ Kept(a) /\ Linked(a.tcp, a.app, a.srv, u)
    <3>1. [c.srv EXCEPT !.socks = "idle"] \in ServerType  BY DEF Contexts, ServerType
    <3>2. /\ a \in Contexts /\ a.tcp = c.tcp /\ a.app = c.app /\ a.srv.unsent = c.srv.unsent
          /\ a.srv.next = c.srv.next /\ a.srv.intact = c.srv.intact
      BY <3>1, Numbers DEF Contexts, ServerType
    <3> HIDE DEF a
    <3>3. Roomy(c.tcp, c.app, c.srv) => Roomy(a.tcp, a.app, a.srv)
      BY <3>2 DEF Roomy, ReadUpTo
    <3>4. QED  BY <3>2, <3>3 DEF Kept, Linked
  <2> HIDE DEF a, h
  <2>4. socks_reply(a, o) \in Contexts /\ Good(socks_reply(a, o))
    <3> DEFINE y == socks_reply(a, o)
    <3>1. y \in Contexts /\ Linked(y.tcp, y.app, y.srv, u)
      BY <2>3, SocksReply, SocksReplyLinked
    <3>2. /\ Tally(y.tcp.state, y.tcp.remote_seq, y.tcp.forward, y.srv.next)
          /\ y.tcp.state \in {"LISTEN", "CLOSING"}
          /\ y.tcp.state = "CLOSING" => y.tcp.socks5 # "CONNECTED"
      BY <2>3, SocksReplyKept
    <3> HIDE DEF y
    <3>3. QED  BY <3>1, <3>2 DEF Tally, y
  <2>5. Good(c)  BY <2>1
  <2> HIDE DEF Good
  <2>6. QED  BY <2>2, <2>4, <2>5
<1> HIDE DEF d
<1>3. d.tcp \in Session /\ d.srv \in ServerType /\ d.tcp.remote_seq \in Int /\ d.app \in AppType
  BY <1>2, Numbers
<1>4. CASE d.tcp.socks5 # "CONNECTED"
  <2>1. /\ asked.tcp = d.tcp /\ asked.app = d.app /\ asked.srv.unsent = d.srv.unsent
        /\ asked.srv.next = d.srv.next
    BY <1>2, <1>3 DEF Contexts, ServerType
  <2>2. /\ broken \in Contexts /\ broken.tcp = d.tcp /\ broken.app = d.app
        /\ broken.srv.unsent = d.srv.unsent /\ broken.srv.next = d.srv.next
    <3>1. [d.srv EXCEPT !.err = TRUE] \in ServerType  BY <1>3 DEF ServerType
    <3>2. QED  BY <1>2, <1>3, <3>1 DEF Contexts, ServerType
  <2> HIDE DEF broken, asked
  <2>3. Linked(asked.tcp, asked.app, asked.srv, u)  BY <1>2, <2>1 DEF Linked, Roomy, ReadUpTo
  <2>4. Linked(broken.tcp, broken.app, broken.srv, u)  BY <1>2, <2>2 DEF Linked, Roomy, ReadUpTo
  <2> DEFINE z == write_rst(broken)
  <2>5. Linked(z.tcp, z.app, z.srv, u)  BY <1>2, <2>2, <2>4, RstLinked
  <2> HIDE DEF z
  <2>6. r \in {asked, z, d}  BY <1>1, <1>4 DEF z
  <2>7. QED  BY <1>2, <2>3, <2>5, <2>6
<1>5. CASE d.tcp.socks5 = "CONNECTED"
  <2>1. /\ d.tcp.state = "LISTEN" /\ d.tcp.remote_seq = RemoteStart /\ d.srv.unsent < SndBuf
        /\ Young(d.app, u) /\ d.tcp.forward = EmptyQueue /\ d.srv.next = RemoteStart + 1
        /\ 0 <= d.srv.unsent /\ d.tcp.recv_window + d.srv.unsent <= SndBuf
    BY <1>2, <1>5 DEF Linked, Begun, Live, Roomy
  <2> DEFINE t == [d.tcp EXCEPT !.remote_seq = @ + 1]
  <2>2. t \in Session  BY <1>3 DEF Session
  <2>3. /\ syn \in Contexts /\ syn.tcp.state = "LISTEN" /\ syn.tcp.forward = d.tcp.forward
        /\ syn.tcp.remote_seq = RemoteStart + 1 /\ syn.srv = d.srv /\ syn.app = d.app
        /\ syn.writes = d.writes /\ syn.tcp.recv_window = d.tcp.recv_window
    <3>1. syn = [d EXCEPT !.tcp = t]  OBVIOUS
    <3>2. QED  BY <1>2, <1>3, <2>1, <2>2, <3>1 DEF Contexts, Session
  <2> HIDE DEF syn, t
  <2>4. w \in Contexts /\ w.srv = d.srv  BY <2>3, WriteSynAck
  <2>5. /\ d.writes = 0 => w.app = d.app
        /\ d.writes # 0 /\ d.app.st = "SYN_SENT" =>
             /\ w.app.st = "EST" /\ w.app.snd_una = RemoteStart + 1
             /\ w.app.wnd = d.tcp.recv_window \div WindowUnit
             /\ w.app.snd_nxt = d.app.snd_nxt /\ w.app.fin = d.app.fin
        /\ d.writes # 0 /\ d.app.st # "SYN_SENT" => w.app = d.app
    BY <2>1, <2>3, SynAckTells DEF Young
  <2>6. CASE d.writes = 0
    <3>1. w.tcp = [syn.tcp EXCEPT !.state = "CLOSING"]  BY <2>3, <2>6, WriteSynAck
    <3>2. syn.tcp \in Session  BY <2>3, Numbers
    <3> HIDE DEF w
    <3>3. w.tcp.state = "CLOSING" /\ Hears(d.app, w.app)
      BY <2>5, <2>6, <3>1, <3>2 DEF Session, Hears
    <3>4. r = w  BY <1>1, <1>5, <2>6
    <3>5. QED  BY <1>2, <2>1, <3>3, <3>4, EndedLinked
  <2>7. CASE d.writes # 0
    <3>1. w.tcp = syn.tcp  BY <2>3, <2>7, WriteSynAck
    <3>2. w.tcp \in Session  BY <2>4, Numbers
    <3> HIDE DEF w
    <3>3. /\ x.tcp.state = "SYN_RECV" /\ x.tcp.remote_seq = RemoteStart + 1
          /\ x.tcp.forward = EmptyQueue /\ x.tcp.recv_window = d.tcp.recv_window
          /\ x.srv = d.srv /\ x.app = w.app
      BY <2>1, <2>3, <2>4, <3>1, <3>2 DEF Contexts, Session
    <3>4. x.tcp \in Session
      <4>1. w.tcp.local_seq + 1 \in Nat /\ "SYN_RECV" \in States
        BY <3>2 DEF Session, States, Live
      <4>2. QED  BY <2>4, <3>2, <4>1 DEF Contexts, Session
    <3> HIDE DEF x
    <3>5. r = x  BY <1>1, <1>5, <2>7
    <3>6. /\ x.app.snd_nxt = d.app.snd_nxt /\ x.app.fin = d.app.fin
          /\ IF d.app.st = "SYN_SENT"
             THEN /\ x.app.st = "EST" /\ x.app.snd_una = x.tcp.remote_seq
                  /\ x.app.wnd = x.tcp.recv_window \div WindowUnit
             ELSE x.app.st = d.app.st
      BY <2>5, <2>7, <3>3
    <3>7. Linked(x.tcp, x.app, x.srv, u)
      BY <1>3, <2>1, <3>3, <3>4, <3>6, StartLinked
    <3>8. QED  BY <3>5, <3>7
  <2>8. QED  BY <2>6, <2>7
<1>6. QED  BY <1>4, <1>5

\* check_tcp_socket, on a session with its socket.
LEMMA CheckTcpSocketLinked ==
    ASSUME NEW c \in Contexts, NEW evs, NEW o \in Oracles, Kept(c),
           Sound(c.tcp), c.tcp.socket, NEW u, Linked(c.tcp, c.app, c.srv, u),
           /\ "ERR" \notin evs /\ c.tcp.state # "LISTEN" /\ "OUT" \in evs
           => o.run \subseteq DOMAIN c.tcp.forward /\ SendOutcome(c, o)
    PROVE  LET r == check_tcp_socket(c, evs, o) IN Linked(r.tcp, r.app, r.srv, u)
<1>1. c.tcp.state \in Connected \union {"LISTEN"}
  BY Numbers DEF Sound, States, Live, Connected
<1>2. CASE "ERR" \in evs
  BY <1>1, <1>2, RstLinked DEF check_tcp_socket, Connected
<1>3. CASE "ERR" \notin evs /\ c.tcp.state = "LISTEN"
  BY <1>3, ConnectLinked DEF check_tcp_socket
<1>4. CASE "ERR" \notin evs /\ c.tcp.state # "LISTEN"
  <2> DEFINE d == forward_and_ack(c, evs, o)
  <2>1. check_tcp_socket(c, evs, o) = IF reads(d, evs) THEN read_socket(d, o) ELSE d
    BY <1>4 DEF check_tcp_socket
  <2>2. d \in Contexts /\ Linked(d.tcp, d.app, d.srv, u) /\ Kept(d)
    BY <1>1, <1>4, ForwardAndAck, ForwardAndAckLinked, ForwardAndAckKept
  <2> HIDE DEF d
  <2>3. reads(d, evs) => d.tcp.state \in {"ESTABLISHED", "CLOSE_WAIT"}  BY DEF reads
  <2>4. QED  BY <2>1, <2>2, <2>3, ReadSocketLinked
<1>5. QED  BY <1>2, <1>3, <1>4

-----------------------------------------------------------------------------
(* handle_tcp *)

\* The packets behind the first one.
LEMMA TailFacts ==
    ASSUME NEW u \in Seq(Packet), u # <<>>
    PROVE  /\ Len(u) \in Nat \ {0} /\ Len(Tail(u)) = Len(u) - 1
           /\ Head(u) = u[1] /\ Head(u) \in Packet
           /\ \A i \in 1..Len(Tail(u)) : i + 1 \in 1..Len(u) /\ Tail(u)[i] = u[i + 1]
<1>1. Len(u) \in Nat \ {0} /\ Len(Tail(u)) = Len(u) - 1  OBVIOUS
<1>2. Head(u) = u[1] /\ Head(u) \in Packet  BY <1>1
<1>3. ASSUME NEW i \in 1..Len(Tail(u)) PROVE i + 1 \in 1..Len(u) /\ Tail(u)[i] = u[i + 1]
  BY <1>1
<1>4. QED  BY <1>1, <1>2, <1>3

\* An app stays young when one of its packets is taken out of the tun.
LEMMA TailYoung ==
    ASSUME NEW a, NEW u \in Seq(Packet), u # <<>>, Young(a, u)
    PROVE  Young(a, Tail(u))
BY TailFacts DEF Young

\* The beginning of a session, when a packet is taken out of the tun.
LEMMA TailBegun ==
    ASSUME NEW t, NEW a, NEW u \in Seq(Packet), u # <<>>, Begun(t, a, u)
    PROVE  Begun(t, a, Tail(u)) /\ a.st # "CLOSED"
<1>1. a.st # "CLOSED"  BY DEF Begun
<1>2. HasSyn(Tail(u)) => HasSyn(u)  BY TailFacts DEF HasSyn
<1>3. QED  BY <1>1, <1>2, TailYoung DEF Begun

\* A session that ends, and the packet that ended it.
LEMMA TailEnded ==
    ASSUME NEW t, NEW a, NEW s, NEW u \in Seq(Packet), u # <<>>, Linked(t, a, s, u),
           t.state \in {"CLOSING", "CLOSE"}
    PROVE  Linked(t, a, s, Tail(u))
<1>1. Begun(t, a, Tail(u))  BY TailBegun DEF Linked
<1>2. Flow(t, a, Tail(u)) /\ Told(t, a)  BY DEF Flow, Told, Taking, Joined
<1>3. QED  BY <1>1, <1>2 DEF Linked, Live

\* The session with the data of a packet in its queue, unless it has them already.
Takes(t, v, p) ==
    /\ v.state = t.state /\ v.remote_seq = t.remote_seq /\ v.recv_window = t.recv_window
    /\ DOMAIN t.forward \subseteq DOMAIN v.forward
    /\ p.len > 0 => p.seq < t.remote_seq \/ p.seq \in DOMAIN v.forward
    /\ p.len = 0 => v.forward = t.forward
    /\ v.forward = EmptyQueue => t.forward = EmptyQueue
    /\ \A q \in DOMAIN v.forward :
         /\ \/ q \in DOMAIN t.forward /\ v.forward[q].len = t.forward[q].len
            \/ q = p.seq /\ p.len > 0 /\ v.forward[q].len = p.len /\ t.remote_seq <= q
         /\ \/ q \in DOMAIN t.forward /\ v.forward[q].sent = t.forward[q].sent
            \/ v.forward[q].sent = 0

\* queue_tcp.
LEMMA QueueTakes ==
    ASSUME NEW t \in Session, NEW p \in Packet, p.len > 0
    PROVE  Takes(t, queue_tcp(t, p), p)
<1> DEFINE f == t.forward
           k == p.seq
           seg == IF k \in DOMAIN f THEN [f[k] EXCEPT !.len = p.len]
                  ELSE [len |-> p.len, sent |-> 0]
           g == [q \in DOMAIN f \union {k} |-> IF q = k THEN seg ELSE f[q]]
           v == queue_tcp(t, p)
<1>1. f \in Queues /\ t.remote_seq \in Int /\ k \in Nat /\ p.len \in Nat
  BY DEF Session, Packet
<1>2. CASE k < t.remote_seq
  <2>1. v = t  BY <1>2 DEF queue_tcp
  <2>2. QED  BY <1>1, <1>2, <2>1 DEF Takes
<1>3. CASE ~(k < t.remote_seq)
  <2>1. v = [t EXCEPT !.forward = g]  BY <1>3 DEF queue_tcp
  <2>2. /\ v.forward = g /\ v.state = t.state /\ v.remote_seq = t.remote_seq
        /\ v.recv_window = t.recv_window
    BY <2>1 DEF Session
  <2>3. /\ seg.len = p.len
        /\ seg.sent = IF k \in DOMAIN f THEN f[k].sent ELSE 0
    <3>1. k \in DOMAIN f => f[k] \in Segment  BY <1>1, QueueFacts
    <3>2. QED  BY <3>1 DEF Segment
  <2> HIDE DEF seg
  <2>4. /\ DOMAIN g = DOMAIN f \union {k} /\ g[k].len = p.len
        /\ g[k].sent = IF k \in DOMAIN f THEN f[k].sent ELSE 0
        /\ \A q \in DOMAIN f : q # k => g[q] = f[q]
    BY <2>3
  <2> HIDE DEF g, v
  <2>5. g # EmptyQueue  BY <2>4, EmptyDomain
  <2>6. QED  BY <1>1, <1>3, <2>2, <2>4, <2>5 DEF Takes, v
<1>4. QED  BY <1>2, <1>3

\* What the tun held is now in the queue, and a FIN has come behind all data.
LEMMA TakesFlow ==
    ASSUME NEW t \in Session, NEW v, NEW a \in AppType, NEW u \in Seq(Packet), u # <<>>,
           Flow(t, a, u), Takes(t, v, Head(u)), Head(u).len > 0 => t.state \in Taking
    PROVE  /\ Flow(v, a, Tail(u))
           /\ t.state \in Taking /\ "FIN" \in Head(u).flags => a.fin /\ Covered(v, a, Tail(u), 0)
<1> DEFINE p == Head(u)
           w == Tail(u)
<1>1. p = u[1] /\ p \in Packet /\ Len(u) \in Nat \ {0} /\ Len(w) = Len(u) - 1  BY TailFacts
<1>2. p.len \in Nat /\ p.seq \in Nat  BY <1>1 DEF Packet
<1>3. ASSUME NEW k \in 1..Len(u), Covered(t, a, u, k) PROVE Covered(v, a, w, k - 1)
  <2> SUFFICES ASSUME NEW g \in Grid, g < DataEnd(a)
               PROVE  \/ g < v.remote_seq \/ g \in DOMAIN v.forward
                      \/ \E i \in 1..(k - 1) : w[i].seq = g /\ w[i].len > 0
    BY DEF Covered
  <2>1. CASE g < t.remote_seq \/ g \in DOMAIN t.forward  BY <2>1 DEF Takes
  <2>2. ASSUME NEW i \in 1..k, u[i].seq = g, u[i].len > 0
        PROVE  \/ g < v.remote_seq \/ g \in DOMAIN v.forward
               \/ \E j \in 1..(k - 1) : w[j].seq = g /\ w[j].len > 0
    <3>1. CASE i = 1  BY <1>1, <2>2, <3>1 DEF Takes
    <3>2. CASE i # 1
      <4>1. i - 1 \in 1..(k - 1) /\ i - 1 \in 1..Len(w) /\ (i - 1) + 1 = i  BY <1>1, <3>2
      <4>2. w[i - 1] = u[i]  BY <4>1, TailFacts
      <4>3. QED  BY <2>2, <4>1, <4>2
    <3>3. QED  BY <3>1, <3>2
  <2>3. QED  BY <1>3, <2>1, <2>2 DEF Covered
<1>4. ASSUME Covered(t, a, u, 0) PROVE Covered(v, a, w, 0)
  <2>1. \A i : i \notin 1..0  OBVIOUS
  <2>2. QED  BY <1>4, <2>1 DEF Covered, Takes
<1>5. t.state \in Taking => Coming(t, a, u)  BY DEF Flow
<1>6. t.state \in Taking /\ "FIN" \in p.flags => a.fin /\ Covered(v, a, w, 0)
  <2> SUFFICES ASSUME t.state \in Taking, "FIN" \in p.flags PROVE a.fin /\ Covered(v, a, w, 0)
    OBVIOUS
  <2>1. 1 \in 1..Len(u)  BY <1>1
  <2>2. a.fin /\ Covered(t, a, u, 1)  BY <1>1, <1>5, <2>1 DEF Coming
  <2>3. QED  BY <1>3, <2>1, <2>2
<1>7. t.state \in Taking => Coming(v, a, w)
  <2> SUFFICES ASSUME t.state \in Taking PROVE Coming(v, a, w)  OBVIOUS
  <2>1. Covered(v, a, w, Len(w))
    <3>1. Covered(t, a, u, Len(u)) /\ Len(u) \in 1..Len(u) /\ Len(w) = Len(u) - 1
      BY <1>1, <1>5 DEF Coming
    <3>2. QED  BY <1>3, <3>1
  <2>2. ASSUME NEW i \in 1..Len(w)
        PROVE  /\ w[i].len > 0 =>
                    w[i].len = SegLen /\ w[i].seq \in Grid /\ w[i].seq + SegLen <= DataEnd(a)
               /\ "FIN" \in w[i].flags => a.fin /\ Covered(v, a, w, i)
    <3>1. i + 1 \in 1..Len(u) /\ w[i] = u[i + 1] /\ (i + 1) - 1 = i  BY TailFacts
    <3>2. "FIN" \in w[i].flags => Covered(v, a, w, i)
      <4>1. "FIN" \in w[i].flags => Covered(t, a, u, i + 1)  BY <1>5, <3>1 DEF Coming
      <4>2. Covered(t, a, u, i + 1) => Covered(v, a, w, (i + 1) - 1)  BY <1>3, <3>1
      <4>3. QED  BY <3>1, <4>1, <4>2
    <3>3. QED  BY <1>5, <3>1, <3>2 DEF Coming
  <2>3. QED  BY <2>1, <2>2 DEF Coming
<1>8. t.state \in Taking \union {"CLOSE_WAIT"} => Neat(v, a)
  <2> SUFFICES ASSUME t.state \in Taking \union {"CLOSE_WAIT"} PROVE Neat(v, a)  OBVIOUS
  <2>1. Neat(t, a)  BY DEF Flow
  <2>2. ASSUME NEW q \in DOMAIN v.forward
        PROVE  /\ q \in Grid /\ v.forward[q].len = SegLen /\ v.forward[q].sent <= SegLen
               /\ v.remote_seq <= q /\ q + SegLen <= DataEnd(a)
    <3>0. v.forward[q].sent <= SegLen
      <4>1. SegLen \in Nat  BY TcpAssumption DEF TcpAssumption
      <4>2. CASE q \in DOMAIN t.forward /\ v.forward[q].sent = t.forward[q].sent
        BY <2>1, <4>2 DEF Neat
      <4>3. CASE v.forward[q].sent = 0  BY <4>1, <4>3
      <4>4. QED  BY <4>2, <4>3 DEF Takes
    <3>1. CASE q \in DOMAIN t.forward /\ v.forward[q].len = t.forward[q].len
      BY <2>1, <3>0, <3>1 DEF Neat, Takes
    <3>2. CASE q = p.seq /\ p.len > 0 /\ v.forward[q].len = p.len /\ t.remote_seq <= q
      <4>1. /\ p.len = SegLen /\ p.seq \in Grid /\ p.seq + SegLen <= DataEnd(a)
        BY <1>1, <1>5, <3>2 DEF Coming
      <4>2. QED  BY <3>0, <3>2, <4>1 DEF Takes
    <3>3. QED  BY <3>1, <3>2 DEF Takes
  <2>4. v.state # "CLOSE_WAIT" \/ v.forward # EmptyQueue =>
          v.remote_seq \in Grid /\ v.remote_seq <= DataEnd(a)
    <3>1. v.state = "CLOSE_WAIT" => v.forward = t.forward
      BY <1>2 DEF Takes, Taking
    <3>2. QED  BY <2>1, <3>1 DEF Neat, Takes
  <2>5. QED  BY <2>1, <2>2, <2>4 DEF Neat
<1>9. t.state \notin Taking => v.forward = t.forward  BY <1>2 DEF Takes
<1>10. v.state = t.state /\ v.remote_seq = t.remote_seq /\ "CLOSE_WAIT" \notin Taking
  BY DEF Takes, Taking
<1>11. Flow(v, a, w)
  BY <1>4, <1>7, <1>8, <1>9, <1>10 DEF Flow
<1>12. QED  BY <1>6, <1>11

\* So the session is still linked to its app.
LEMMA TakesLinked ==
    ASSUME NEW t \in Session, NEW v, NEW a \in AppType, NEW s, NEW u \in Seq(Packet), u # <<>>,
           Linked(t, a, s, u), Takes(t, v, Head(u)), Head(u).len > 0 => t.state \in Taking
    PROVE  /\ Linked(v, a, s, Tail(u))
           /\ t.state \in Taking /\ "FIN" \in Head(u).flags => a.fin /\ Covered(v, a, Tail(u), 0)
<1>1. Begun(t, a, u) /\ Flow(t, a, u) /\ Told(t, a)  BY DEF Linked
<1>2. Head(u).len \in Nat  BY TailFacts DEF Packet
<1>3. Begun(t, a, Tail(u))  BY <1>1, TailBegun
<1>4. Begun(v, a, Tail(u))
  <2>1. t.state = "LISTEN" => v.forward = t.forward  BY <1>2 DEF Takes, Taking
  <2>2. QED  BY <1>3, <2>1 DEF Begun, Takes
<1>5. Told(v, a)  BY <1>1 DEF Told, Takes
<1>6. /\ Flow(v, a, Tail(u))
      /\ t.state \in Taking /\ "FIN" \in Head(u).flags => a.fin /\ Covered(v, a, Tail(u), 0)
  BY <1>1, TakesFlow
<1>7. t.state \in Live => s.unsent < SndBuf  BY DEF Linked
<1>8. Roomy(v, a, s)  BY DEF Linked, Roomy, Takes
<1>9. QED  BY <1>4, <1>5, <1>6, <1>7, <1>8 DEF Linked, Takes

\* A FIN of the app: if nothing is queued, remote_seq is the number of the FIN.
LEMMA HandleFinLinked ==
    ASSUME NEW c \in Contexts, NEW u, Linked(c.tcp, c.app, c.srv, u),
           c.tcp.state \in Taking => c.app.fin /\ Covered(c.tcp, c.app, u, 0)
    PROVE  LET r == handle_fin(c) IN Linked(r.tcp, r.app, r.srv, u)
<1> DEFINE t == [c.tcp EXCEPT !.remote_seq = @ + 1]
           counted == [c EXCEPT !.tcp.remote_seq = @ + 1]
           w == write_ack(counted)
           to(s) == IF c.writes = 0 THEN w ELSE [w EXCEPT !.tcp.state = s]
           q == [c EXCEPT !.tcp.state = "CLOSE_WAIT"]
           n == c.tcp.remote_seq
           f == c.tcp.forward
           a == c.app
           r == handle_fin(c)
<1>1. c.tcp \in Session /\ n \in Int /\ a \in AppType  BY Numbers
<1>2. r = IF c.tcp.state = "ESTABLISHED"
          THEN IF f = EmptyQueue THEN to("CLOSE_WAIT") ELSE q
          ELSE IF c.tcp.state = "FIN_WAIT1" THEN to("CLOSE") ELSE c
  BY DEF handle_fin
<1>3. /\ counted \in Contexts /\ counted.tcp = t /\ counted.srv = c.srv
      /\ counted.app = a /\ counted.writes = c.writes
  <2>1. t \in Session  BY <1>1 DEF Session
  <2>2. counted = [c EXCEPT !.tcp = t]  OBVIOUS
  <2> HIDE DEF t, counted
  <2>3. QED  BY <2>1, <2>2 DEF Contexts
<1>4. t \in Session /\ t.remote_seq = n + 1 /\ t.forward = f /\ t.recv_window = c.tcp.recv_window
  BY <1>1 DEF Session
<1> HIDE DEF counted, t
<1>5. /\ w \in Contexts /\ w.srv = c.srv
      /\ c.writes # 0 => w.tcp = t
      /\ c.writes = 0 => w.tcp = [t EXCEPT !.state = "CLOSING"]
  BY <1>3, WriteAck
<1>6. /\ Hears(a, w.app)
      /\ c.writes # 0 => Learns(a, w.app, n + 1, Shown(c.tcp))
  <2>1. Tells(counted, w)  BY <1>3, WriteTells, 0 \in Nat
  <2>2. QED  BY <1>3, <1>4, <2>1 DEF Tells, Shown
<1> HIDE DEF w
<1>7. c.writes = 0 => w.tcp.state = "CLOSING"  BY <1>4, <1>5 DEF Session
<1>8. ASSUME NEW s \in States, c.writes # 0
      PROVE  /\ to(s).tcp \in Session /\ to(s).tcp.state = s /\ to(s).tcp.remote_seq = n + 1
             /\ to(s).tcp.forward = f /\ to(s).tcp.recv_window = c.tcp.recv_window
             /\ to(s).srv = c.srv /\ to(s).app = w.app
  <2>1. to(s) = [w EXCEPT !.tcp.state = s]  BY <1>8
  <2>2. w.tcp = t  BY <1>5, <1>8
  <2> HIDE DEF to
  <2>3. QED  BY <1>4, <1>5, <2>1, <2>2 DEF Contexts, Session
<1>9. CASE c.tcp.state \in {"ESTABLISHED", "FIN_WAIT1"} /\ c.writes = 0 /\ r = w
  BY <1>6, <1>7, <1>9, EndedLinked
<1>10. CASE c.tcp.state = "ESTABLISHED" /\ f = EmptyQueue /\ c.writes # 0
  <2> DEFINE v == to("CLOSE_WAIT").tcp
  <2>1. r = to("CLOSE_WAIT")  BY <1>2, <1>10
  <2>2. "CLOSE_WAIT" \in States  BY DEF States, Live
  <2>3. /\ v \in Session /\ v.state = "CLOSE_WAIT" /\ v.remote_seq = n + 1
        /\ v.forward = f /\ v.recv_window = c.tcp.recv_window
        /\ to("CLOSE_WAIT").srv = c.srv /\ to("CLOSE_WAIT").app = w.app
    BY <1>8, <1>10, <2>2
  <2> HIDE DEF to, v
  <2>4. /\ c.srv.unsent < SndBuf /\ Begun(c.tcp, a, u) /\ Flow(c.tcp, a, u) /\ Told(c.tcp, a)
    BY <1>10 DEF Linked, Live
  <2>5. a.fin /\ Covered(c.tcp, a, u, 0) /\ Neat(c.tcp, a)
    BY <1>10, <2>4 DEF Taking, Flow
  <2>6. n \in Grid /\ n <= DataEnd(a) /\ DataEnd(a) \in Grid
    BY <1>10, <2>5 DEF Neat
  <2>7. ~(n < DataEnd(a))
    <3> SUFFICES ASSUME n < DataEnd(a) PROVE FALSE  OBVIOUS
    <3>1. n < n \/ n \in DOMAIN f  BY <2>5, <2>6 DEF Covered
    <3>2. QED  BY <1>1, <1>10, <3>1, EmptyDomain
  <2>8. n + 1 = a.snd_nxt
    <3>1. DataEnd(a) = a.snd_nxt - 1 /\ a.snd_nxt \in Nat  BY <1>1, <2>5 DEF DataEnd, AppType
    <3>2. QED  BY <1>1, <2>6, <2>7, <3>1
  <2>9. Covered(v, a, u, 0)
    <3>1. n \in Int /\ v.remote_seq = n + 1 /\ Grid \subseteq Nat  BY <1>1, <2>3, GridFacts
    <3>2. \A g \in Grid : g < n => g < n + 1  BY <3>1
    <3>3. QED  BY <2>3, <2>5, <3>1, <3>2 DEF Covered
  <2>10. Neat(v, a)  BY <1>10, <2>3, <2>6, EmptyDomain DEF Neat
  <2>11. Flow(v, a, u)  BY <2>3, <2>5, <2>8, <2>9, <2>10 DEF Flow, Taking
  <2>12. Begun(v, a, u)  BY <1>10, <2>3, <2>4 DEF Begun
  <2>13. a.st = "EST" => a.snd_una <= v.remote_seq
    <3>1. a.st = "EST" => a.snd_una = n  BY <1>10, <2>4 DEF Told, Joined, Taking
    <3>2. QED  BY <1>1, <2>3, <3>1
  <2>14. Learns(a, w.app, v.remote_seq, Shown(v))  BY <1>6, <1>10, <2>3 DEF Shown
  <2>15. v.state \in Joined /\ c.srv \in ServerType  BY <2>3, Numbers DEF Joined
  <2>t. Tellable(v, a, c.srv)
    <3>1. Roomy(c.tcp, a, c.srv)  BY DEF Linked
    <3>2. QED  BY <1>10, <2>3, <2>5, <3>1 DEF Tellable, Roomy, Taking
  <2> HIDE DEF a, r
  <2>16. Linked(v, w.app, c.srv, u)
    BY <1>1, <2>3, <2>4, <2>11, <2>12, <2>13, <2>14, <2>15, <2>t, ToldLinked
  <2>17. QED  BY <2>1, <2>3, <2>16 DEF r, v
<1>11. CASE c.tcp.state = "ESTABLISHED" /\ f # EmptyQueue
  <2>1. r = q  BY <1>2, <1>11
  <2>2. /\ q.tcp.state = "CLOSE_WAIT" /\ q.tcp.remote_seq = n /\ q.tcp.forward = f
        /\ q.tcp.recv_window = c.tcp.recv_window /\ q.srv = c.srv /\ q.app = a
    BY <1>1 DEF Contexts, Session
  <2> HIDE DEF q
  <2>3. /\ c.srv.unsent < SndBuf /\ Begun(c.tcp, a, u) /\ Flow(c.tcp, a, u) /\ Told(c.tcp, a)
    BY <1>11 DEF Linked, Live
  <2>4. a.fin /\ Covered(c.tcp, a, u, 0) /\ Neat(c.tcp, a)
    BY <1>11, <2>3 DEF Taking, Flow
  <2>5. Covered(q.tcp, a, u, 0)  BY <2>2, <2>4 DEF Covered
  <2>6. Neat(q.tcp, a)  BY <1>11, <2>2, <2>4 DEF Neat
  <2>7. Flow(q.tcp, a, u)  BY <1>11, <2>2, <2>4, <2>5, <2>6 DEF Flow, Taking
  <2>8. Begun(q.tcp, a, u)  BY <1>11, <2>2, <2>3 DEF Begun
  <2>9. Told(q.tcp, a)  BY <1>11, <2>2, <2>3 DEF Told, Joined, Taking
  <2>10. Roomy(q.tcp, a, c.srv)  BY <1>11, <2>2 DEF Linked, Roomy, Taking
  <2>11. QED  BY <2>1, <2>2, <2>3, <2>7, <2>8, <2>9, <2>10 DEF Linked
<1>12. CASE c.tcp.state = "FIN_WAIT1" /\ c.writes # 0
  <2>1. r = to("CLOSE")  BY <1>2, <1>12
  <2>2. "CLOSE" \in States  BY DEF States
  <2>3. to("CLOSE").tcp.state = "CLOSE" /\ to("CLOSE").app = w.app  BY <1>8, <1>12, <2>2
  <2> HIDE DEF to
  <2>4. QED  BY <1>6, <1>12, <2>1, <2>3, EndedLinked
<1>13. CASE c.tcp.state \notin {"ESTABLISHED", "FIN_WAIT1"}
  <2>1. r = c  BY <1>2, <1>13
  <2>2. QED  BY <2>1
<1>14. QED
  <2>1. c.writes = 0 => to("CLOSE_WAIT") = w /\ to("CLOSE") = w  OBVIOUS
  <2> HIDE DEF to, q, w, r
  <2>2. c.writes = 0 /\ c.tcp.state \in {"ESTABLISHED", "FIN_WAIT1"} =>
          r = w \/ (c.tcp.state = "ESTABLISHED" /\ f # EmptyQueue)
    BY <1>2, <2>1
  <2>3. QED  BY <1>9, <1>10, <1>11, <1>12, <1>13, <2>2 DEF r

\* An acknowledgment.
LEMMA HandleAckLinked ==
    ASSUME NEW c \in Contexts, NEW p \in Packet, NEW u, Linked(c.tcp, c.app, c.srv, u)
    PROVE  LET r == handle_ack(c, p) IN Linked(r.tcp, r.app, r.srv, u)
<1> DEFINE d == handle_ack(c, p)
           st == c.tcp.state
           a == c.app
<1>1. /\ d.tcp.state = IF st = "SYN_RECV" THEN "ESTABLISHED"
                       ELSE IF st = "LAST_ACK" THEN "CLOSING" ELSE st
      /\ d.tcp.remote_seq = c.tcp.remote_seq /\ d.tcp.forward = c.tcp.forward
      /\ d.tcp.recv_window = c.tcp.recv_window /\ d.srv = c.srv /\ d.app = a
  BY Numbers DEF handle_ack, Contexts, Session
<1> HIDE DEF d
<1>2. CASE st = "SYN_RECV"
  <2>1. /\ c.srv.unsent < SndBuf /\ Begun(c.tcp, a, u) /\ Flow(c.tcp, a, u) /\ Told(c.tcp, a)
    BY <1>2 DEF Linked, Live
  <2>2. Neat(c.tcp, a) /\ Coming(c.tcp, a, u)  BY <1>2, <2>1 DEF Flow, Taking
  <2>3. \A k : Covered(c.tcp, a, u, k) => Covered(d.tcp, a, u, k)  BY <1>1 DEF Covered
  <2>4. Coming(d.tcp, a, u)  BY <2>2, <2>3 DEF Coming
  <2>5. Neat(d.tcp, a)  BY <1>1, <1>2, <2>2 DEF Neat
  <2>6. Flow(d.tcp, a, u)  BY <1>1, <1>2, <2>4, <2>5 DEF Flow
  <2>7. Begun(d.tcp, a, u)  BY <1>1, <1>2, <2>1 DEF Begun
  <2>8. Told(d.tcp, a)  BY <1>1, <1>2, <2>1 DEF Told, Joined, Taking
  <2>9. Roomy(d.tcp, a, c.srv)  BY <1>1, <1>2 DEF Linked, Roomy, Taking
  <2>10. QED  BY <1>1, <2>1, <2>6, <2>7, <2>8, <2>9 DEF Linked, d
<1>3. CASE st = "LAST_ACK"
  <2>1. Hears(a, d.app)  BY <1>1 DEF Hears
  <2>2. QED  BY <1>1, <1>3, <2>1, EndedLinked DEF d
<1>4. CASE st \notin {"SYN_RECV", "LAST_ACK"}
  <2>1. Alike(c.tcp, d.tcp)  BY <1>1, <1>4 DEF Alike
  <2>2. QED  BY <1>1, <2>1, AlikeLinked DEF d
<1>5. QED  BY <1>2, <1>3, <1>4

\* The flags of a packet for a live session.
LEMMA HandleFlagsLinked ==
    ASSUME NEW c \in Contexts, NEW p \in Packet, c.tcp.state \in Live,
           NEW u, Linked(c.tcp, c.app, c.srv, u),
           c.tcp.state \in Taking /\ "FIN" \in p.flags => c.app.fin /\ Covered(c.tcp, c.app, u, 0)
    PROVE  LET r == handle_flags(c, p) IN Linked(r.tcp, r.app, r.srv, u)
<1> DEFINE r == [c EXCEPT !.tcp.state = "CLOSING"]
           a == [c EXCEPT !.tcp.acked = IF p.ack <= @ THEN @ ELSE p.ack]
           Good(d) == Linked(d.tcp, d.app, d.srv, u)
<1>1. \/ handle_flags(c, p) \in {r, c, handle_ack(c, p), write_rst(c), a}
      \/ "FIN" \in p.flags /\ handle_flags(c, p) = handle_fin(c)
  BY DEF handle_flags
<1>2. Good(r)
  <2>1. r.tcp.state = "CLOSING" /\ r.app = c.app  BY Numbers DEF Contexts, Session
  <2> HIDE DEF r
  <2>2. Hears(c.app, r.app)  BY <2>1 DEF Hears
  <2>3. QED  BY <2>1, <2>2, EndedLinked DEF Live
<1>3. Good(a)
  <2>1. Alike(c.tcp, a.tcp) /\ a.srv = c.srv /\ a.app = c.app
    BY Numbers DEF Contexts, Session, Alike
  <2> HIDE DEF a
  <2>2. QED  BY <2>1, AlikeLinked
<1>4. Good(c) /\ Good(handle_ack(c, p)) /\ Good(write_rst(c))
  BY HandleAckLinked, RstLinked DEF Live
<1>5. "FIN" \in p.flags => Good(handle_fin(c))  BY HandleFinLinked
<1> HIDE DEF r, a, Good
<1>6. Good(handle_flags(c, p))  BY <1>1, <1>2, <1>3, <1>4, <1>5
<1>7. QED  BY <1>6 DEF Good

\* A packet for a session that exists.
LEMMA HandleSessionLinked ==
    ASSUME NEW c \in Contexts, Sound(c.tcp), c.tcp.state # "NONE",
           NEW u \in Seq(Packet), u # <<>>, Linked(c.tcp, c.app, c.srv, u)
    PROVE  LET r == handle_session(c, Head(u)) IN Linked(r.tcp, r.app, r.srv, Tail(u))
<1> DEFINE p == Head(u)
           t == [c.tcp EXCEPT !.send_window = p.win, !.unconfirmed = 0]
           d == [c EXCEPT !.tcp.send_window = p.win, !.tcp.unconfirmed = 0]
           e == [d EXCEPT !.tcp = queue_tcp(@, p)]
           r == handle_session(c, p)
<1>0. p \in Packet /\ p.len \in Nat /\ p = u[1] /\ Len(u) \in Nat \ {0}  BY TailFacts DEF Packet
<1>1. CASE c.tcp.state \in {"CLOSING", "CLOSE"}
  <2> DEFINE w == write_rst(c)
  <2>1. r = w  BY <1>1 DEF handle_session
  <2>2. w.tcp = Reset(c.tcp) /\ Linked(w.tcp, w.app, w.srv, u)  BY WriteRst, RstLinked
  <2>3. w.tcp.state \in {"CLOSING", "CLOSE"}  BY <2>2, Numbers DEF Reset, Session
  <2> HIDE DEF w, r
  <2>4. QED  BY <2>1, <2>2, <2>3, TailEnded DEF r
<1>2. CASE c.tcp.state \notin {"CLOSING", "CLOSE"}
  <2>1. c.tcp \in Session /\ c.tcp.state \in Live  BY <1>2, Numbers DEF States
  <2>2. r = IF p.len > 0 /\ (~c.tcp.socket \/ c.tcp.state = "CLOSE_WAIT") THEN write_rst(d)
            ELSE IF p.len > 0 THEN handle_flags(e, p) ELSE handle_flags(d, p)
    BY <1>2 DEF handle_session
  <2>3. t \in Session /\ Alike(c.tcp, t)
    BY <1>0, <2>1 DEF Session, Packet, Alike
  <2>4. d = [c EXCEPT !.tcp = t]  OBVIOUS
  <2> HIDE DEF d, t, r
  <2>5. d \in Contexts /\ d.tcp = t /\ d.srv = c.srv /\ d.app = c.app
    BY <2>3, <2>4 DEF Contexts
  <2>6. Linked(d.tcp, d.app, d.srv, u)  BY <2>3, <2>5, AlikeLinked
  <2>7. d.tcp.state = c.tcp.state /\ d.app \in AppType  BY <2>3, <2>5, Numbers DEF Alike
  <2> HIDE DEF p
  <2>8. CASE p.len > 0 /\ (~c.tcp.socket \/ c.tcp.state = "CLOSE_WAIT")
    <3> DEFINE w == write_rst(d)
    <3>1. r = w  BY <2>2, <2>8
    <3>2. w.tcp = Reset(d.tcp) /\ Linked(w.tcp, w.app, w.srv, u)
      BY <2>5, <2>6, <2>7, WriteRst, RstLinked
    <3>3. w.tcp.state \in {"CLOSING", "CLOSE"}  BY <2>3, <2>5, <3>2 DEF Reset, Session
    <3> HIDE DEF w
    <3>4. QED  BY <3>1, <3>2, <3>3, TailEnded DEF r, p
  <2>9. CASE p.len > 0 /\ c.tcp.socket /\ c.tcp.state # "CLOSE_WAIT"
    <3> DEFINE v == queue_tcp(t, p)
    <3>1. c.tcp.state \in Taking
      <4>1. c.tcp.state \in Taking \union {"LISTEN"}
        BY <2>1, <2>9 DEF Sound, Live, Taking
      <4>2. c.tcp.state = "LISTEN" => p.len = 0
        <5>1. 1 \in 1..Len(u)  BY <1>0
        <5>2. QED  BY <1>0, <5>1 DEF Linked, Begun, Young
      <4>3. QED  BY <2>9, <4>1, <4>2
    <3>2. v \in Session /\ v.state = t.state /\ Takes(t, v, p)
      BY <1>0, <2>3, <2>9, QueueTcp, QueueTakes
    <3>3. e = [d EXCEPT !.tcp = v]  BY <2>5
    <3> HIDE DEF v, e
    <3>4. e \in Contexts /\ e.tcp = v /\ e.srv = d.srv /\ e.app = d.app
      BY <2>5, <3>2, <3>3 DEF Contexts
    <3>5. /\ Linked(v, d.app, d.srv, Tail(u))
          /\ "FIN" \in p.flags => d.app.fin /\ Covered(v, d.app, Tail(u), 0)
      BY <2>3, <2>5, <2>6, <2>7, <3>1, <3>2, TakesLinked DEF p
    <3>6. r = handle_flags(e, p)  BY <2>2, <2>9
    <3>7. e.tcp.state \in Live  BY <2>1, <2>5, <2>7, <3>2, <3>4
    <3>8. QED  BY <1>0, <3>4, <3>5, <3>6, <3>7, HandleFlagsLinked DEF r, p
  <2>10. CASE ~(p.len > 0)
    <3>1. r = handle_flags(d, p)  BY <2>2, <2>10
    <3>2. Takes(d.tcp, d.tcp, p)  BY <2>10 DEF Takes
    <3>3. d.tcp \in Session  BY <2>3, <2>5
    <3>4. /\ Linked(d.tcp, d.app, d.srv, Tail(u))
          /\ d.tcp.state \in Taking /\ "FIN" \in p.flags =>
               d.app.fin /\ Covered(d.tcp, d.app, Tail(u), 0)
      BY <2>6, <2>7, <2>10, <3>2, <3>3, TakesLinked DEF p
    <3>5. QED  BY <1>0, <2>1, <2>5, <2>7, <3>1, <3>4, HandleFlagsLinked DEF r, p
  <2>11. QED  BY <2>8, <2>9, <2>10
<1>3. QED  BY <1>1, <1>2

\* handle_tcp: a session is created only for an app that waits for it.
LEMMA HandleTcpLinked ==
    ASSUME NEW c \in Contexts, Sound(c.tcp), NEW open \in BOOLEAN,
           NEW u \in Seq(Packet), u # <<>>, Linked(c.tcp, c.app, c.srv, u)
    PROVE  LET r == handle_tcp(c, Head(u), open) IN Linked(r.tcp, r.app, r.srv, Tail(u))
<1>1. CASE c.tcp.state # "NONE"  BY <1>1, HandleSessionLinked DEF handle_tcp
<1>2. CASE c.tcp.state = "NONE"
  <2> DEFINE p == Head(u)
             t == [c.tcp EXCEPT !.local_seq = p.ack]
             x == [c EXCEPT !.tcp.local_seq = p.ack]
             z == write_rst(x)
             r == [z EXCEPT !.tcp = c.tcp]
             m == new_session(p)
             n == Created(c, p)
             y == handle_tcp(c, p, open)
  <2>0. p \in Packet /\ p = u[1] /\ Len(u) \in Nat \ {0}  BY TailFacts
  <2>1. /\ y \in {r, n, c}
        /\ "SYN" \notin p.flags => y = r
    BY <1>2 DEF handle_tcp, handle_unknown, Created
  <2>2. Begun(c.tcp, c.app, u)  BY DEF Linked
  <2>3. Begun(c.tcp, c.app, Tail(u)) /\ c.app.st # "CLOSED"  BY <2>2, TailBegun
  <2>4. Linked(c.tcp, c.app, c.srv, Tail(u))
    BY <1>2, <2>3 DEF Linked, Flow, Told, Roomy, Live, Taking, Joined
  <2>5. Linked(r.tcp, r.app, r.srv, Tail(u))
    <3>1. t \in Session  BY <2>0, Numbers DEF Session, Packet
    <3>2. x = [c EXCEPT !.tcp = t]  OBVIOUS
    <3> HIDE DEF t, x
    <3>3. x \in Contexts /\ x.srv = c.srv /\ x.app = c.app  BY <3>1, <3>2 DEF Contexts
    <3>4. z \in Contexts /\ z.srv = c.srv /\ Hears(c.app, z.app)
      BY <3>3, WriteRst, RstHears
    <3> HIDE DEF z
    <3>5. r.tcp = c.tcp /\ r.srv = c.srv /\ r.app = z.app  BY <3>4 DEF Contexts
    <3> HIDE DEF r
    <3>6. r.app.st # "CLOSED"  BY <2>3, <3>4, <3>5 DEF Hears
    <3>7. Young(c.app, Tail(u)) => Young(r.app, Tail(u))  BY <3>4, <3>5, HearsYoung
    <3>8. r.app.st = "SYN_SENT" => c.app.st = "SYN_SENT"  BY <3>4, <3>5 DEF Hears
    <3>9. Begun(c.tcp, r.app, Tail(u))  BY <1>2, <2>3, <3>6, <3>7, <3>8 DEF Begun
    <3>10. QED  BY <1>2, <3>5, <3>9 DEF Linked, Flow, Told, Roomy, Live, Taking, Joined
  <2>6. "SYN" \in p.flags => Linked(n.tcp, n.app, n.srv, Tail(u))
    <3> SUFFICES ASSUME "SYN" \in p.flags PROVE Linked(n.tcp, n.app, n.srv, Tail(u))
      OBVIOUS
    <3>1. 1 \in 1..Len(u)  BY <2>0
    <3>2. HasSyn(u)  BY <2>0, <3>1 DEF HasSyn
    <3>3. Young(c.app, u)  BY <1>2, <2>2, <3>2 DEF Begun
    <3>4. p.len = 0  BY <2>0, <3>1, <3>3 DEF Young
    <3>5. SndBuf \in Nat \ {0}  BY TcpAssumption DEF TcpAssumption
    <3>6. m.forward = EmptyQueue
      <4>1. m.forward = IF p.len = 0 THEN EmptyQueue
                        ELSE [q \in {p.seq} |-> [len |-> p.len, sent |-> 0]]
        BY Zenon DEF new_session
      <4> HIDE DEF m, p
      <4>2. QED  BY <3>4, <4>1
    <3>7. /\ n.srv = NewServer /\ n.app = c.app /\ n.tcp.state = "LISTEN"
          /\ n.tcp.forward = EmptyQueue
      BY <2>0, <3>6, CreatedFacts
    <3>8. NewServer.unsent < SndBuf  BY <3>5 DEF NewServer
    <3> HIDE DEF m, n
    <3>9. Young(c.app, Tail(u))  BY <3>3, TailYoung
    <3>10. Begun(n.tcp, c.app, Tail(u))  BY <2>3, <3>7, <3>9 DEF Begun
    <3>11. Flow(n.tcp, c.app, Tail(u)) /\ Told(n.tcp, c.app)
      BY <3>7 DEF Flow, Told, Taking, Joined
    <3>12. Roomy(n.tcp, c.app, NewServer)
      <4>1. NewServer.unsent = 0 /\ NewServer.next = RemoteStart + 1  BY DEF NewServer
      <4>2. n.tcp.recv_window + NewServer.unsent <= SndBuf
        <5> DEFINE x1 == [c EXCEPT !.tcp = new_session(p), !.srv = NewServer]
        <5>1. n.tcp.recv_window = get_receive_window(x1)  BY <2>0, CreatedFacts DEF n
        <5>2. x1 \in Contexts /\ x1.srv = NewServer
          BY <2>0, NewSession, NewServerType DEF Contexts
        <5> HIDE DEF x1
        <5>3. 0 <= x1.srv.unsent /\ x1.srv.unsent < SndBuf  BY <3>8, <4>1, <5>2
        <5>4. QED  BY <5>1, <5>2, <5>3, RoomForWindow
      <4>3. DataEnd(c.app) = RemoteStart + 1 /\ c.app.st # "EST"  BY <3>3 DEF Young, DataEnd
      <4>4. RemoteStart \in Nat  BY TcpAssumption DEF TcpAssumption
      <4>5. RemoteStart + 1 <= ReadUpTo(NewServer) + SndBuf
        BY <3>5, <4>1, <4>4 DEF ReadUpTo
      <4>6. QED  BY <4>1, <4>2, <4>3, <4>5 DEF Roomy
    <3>13. QED  BY <3>7, <3>8, <3>10, <3>11, <3>12 DEF Linked
  <2> HIDE DEF r, n, y
  <2>7. Linked(y.tcp, y.app, y.srv, Tail(u))
    <3>1. CASE "SYN" \in p.flags  BY <2>1, <2>4, <2>5, <2>6, <3>1
    <3>2. CASE "SYN" \notin p.flags  BY <2>1, <2>5, <3>2
    <3>3. QED  BY <3>1, <3>2
  <2>8. QED  BY <2>7 DEF y
<1>3. QED  BY <1>1, <1>2

-----------------------------------------------------------------------------
(* The loop *)

\* Two apps that the invariant does not tell apart.
SameApp(a, b) ==
    /\ b.st = a.st /\ b.snd_nxt = a.snd_nxt /\ b.fin = a.fin
    /\ a.st = "EST" => b.snd_una = a.snd_una /\ b.wnd = a.wnd

LEMMA SameLinked ==
    ASSUME NEW t, NEW a, NEW b, NEW s, NEW u, Linked(t, a, s, u), SameApp(a, b)
    PROVE  Linked(t, b, s, u)
<1>1. Begun(t, a, u) /\ Flow(t, a, u) /\ Told(t, a) /\ (t.state \in Live => s.unsent < SndBuf)
  BY DEF Linked
<1>2. Flow(t, b, u)  BY <1>1, LearnsFlow DEF SameApp
<1>3. Young(a, u) => Young(b, u)  BY DEF Young, SameApp
<1>4. Begun(t, b, u)  BY <1>1, <1>3 DEF Begun, SameApp
<1>5. Told(t, b)  BY <1>1 DEF Told, SameApp
<1>6. Roomy(t, b, s)
  <2>1. DataEnd(b) = DataEnd(a)  BY DEF DataEnd, SameApp
  <2>2. QED  BY <2>1 DEF Linked, Roomy, SameApp
<1>7. QED  BY <1>1, <1>2, <1>4, <1>5, <1>6 DEF Linked

\* The probe one below remote_seq is old for the app, which does not learn a
\* window from it.
LEMMA KeepAliveLinked ==
    ASSUME NEW c \in Contexts, c.tcp.state \in {"ESTABLISHED", "CLOSE_WAIT"},
           NEW u, Linked(c.tcp, c.app, c.srv, u)
    PROVE  LET r == keep_alive(c) IN Linked(r.tcp, r.app, r.srv, u)
<1> DEFINE t == [c.tcp EXCEPT !.remote_seq = @ - 1]
           d == [c EXCEPT !.tcp.remote_seq = @ - 1]
           w == write_ack(d)
           r == [w EXCEPT !.tcp.remote_seq = @ + 1]
<1>1. keep_alive(c) = r  BY DEF keep_alive
<1>2. c.tcp \in Session /\ c.tcp.remote_seq \in Int  BY Numbers
<1>3. /\ t \in Session /\ t.remote_seq = c.tcp.remote_seq - 1 /\ t.state = c.tcp.state
      /\ t.forward = c.tcp.forward /\ t.recv_window = c.tcp.recv_window
  BY <1>2 DEF Session
<1>4. d = [c EXCEPT !.tcp = t]  OBVIOUS
<1> HIDE DEF t, d
<1>5. d \in Contexts /\ d.tcp = t /\ d.srv = c.srv /\ d.app = c.app /\ d.writes = c.writes
  BY <1>3, <1>4 DEF Contexts
<1>6. /\ w \in Contexts /\ w.srv = c.srv /\ Tells(d, w)
      /\ c.writes # 0 => w.tcp = t
      /\ c.writes = 0 => w.tcp = [t EXCEPT !.state = "CLOSING"]
  BY <1>5, WriteAck, WriteTells, 0 \in Nat
<1> HIDE DEF w
<1>7. w.tcp \in Session  BY <1>6, Numbers
<1>8. /\ r.tcp.state = w.tcp.state /\ r.tcp.forward = w.tcp.forward
      /\ r.tcp.remote_seq = w.tcp.remote_seq + 1 /\ r.tcp.recv_window = w.tcp.recv_window
      /\ r.srv = c.srv /\ r.app = w.app
  BY <1>6, <1>7 DEF Contexts, Session
<1> HIDE DEF r
<1>9. CASE c.writes = 0
  <2>1. r.tcp.state = "CLOSING"  BY <1>3, <1>6, <1>8, <1>9 DEF Session
  <2>2. Hears(c.app, r.app)  BY <1>5, <1>6, <1>8 DEF Tells
  <2>3. QED  BY <1>1, <2>1, <2>2, EndedLinked
<1>10. CASE c.writes # 0
  <2>1. Alike(c.tcp, r.tcp)  BY <1>2, <1>3, <1>6, <1>8, <1>10 DEF Alike
  <2>2. Learns(c.app, r.app, c.tcp.remote_seq - 1, Shown(c.tcp))
    BY <1>3, <1>5, <1>6, <1>8, <1>10 DEF Tells, Shown
  <2>3. c.app.st = "EST" => c.app.snd_una = c.tcp.remote_seq
    BY DEF Linked, Told, Joined, Taking
  <2>4. SameApp(c.app, r.app)  BY <1>2, <2>2, <2>3 DEF Learns, SameApp
  <2>5. Linked(c.tcp, r.app, c.srv, u)  BY <2>4, SameLinked
  <2>6. QED  BY <1>1, <1>8, <2>1, <2>5, AlikeLinked
<1>11. QED  BY <1>9, <1>10

\* monitor_tcp_session, also if epoll_ctl fails.
LEMMA MonitorLinked ==
    ASSUME NEW c \in Contexts, NEW probe \in BOOLEAN, Sound(c.tcp),
           NEW u, Linked(c.tcp, c.app, c.srv, u)
    PROVE  LET r == monitor_tcp_session(c, probe) IN Linked(r.tcp, r.app, r.srv, u)
<1> DEFINE t == c.tcp
           evs == interest(c)
           d == IF /\ probe /\ t.state \in {"ESTABLISHED", "CLOSE_WAIT"}
                   /\ get_send_window(t) = 0
                THEN keep_alive(c) ELSE c
           s == IF t.registered THEN d.tcp.state ELSE "CLOSING"
           r == [d EXCEPT !.tcp.events = evs,
                          !.tcp.state = IF t.registered THEN @ ELSE "CLOSING"]
           m == monitor_tcp_session(c, probe)
<1>1. m = IF ~t.socket THEN c ELSE IF evs = t.events THEN d ELSE r
  BY DEF monitor_tcp_session
<1>2. d \in Contexts /\ Linked(d.tcp, d.app, d.srv, u) /\ Stays(t, d.tcp)
  <2>1. Stays(t, t)  BY DEF Stays
  <2>2. QED  BY <2>1, KeepAlive, KeepAliveLinked
<1> HIDE DEF d, evs, m
<1>3. d.tcp \in Session  BY <1>2, Numbers
<1>4. /\ r.tcp.state = s /\ r.tcp.remote_seq = d.tcp.remote_seq
      /\ r.tcp.forward = d.tcp.forward /\ r.tcp.recv_window = d.tcp.recv_window
      /\ r.srv = d.srv /\ r.app = d.app
  BY <1>2, <1>3 DEF Contexts, Session
<1> HIDE DEF r
<1>5. t.socket => Linked(r.tcp, r.app, r.srv, u)
  <2> SUFFICES ASSUME t.socket PROVE Linked(r.tcp, r.app, r.srv, u)  OBVIOUS
  <2>1. CASE t.registered
    <3>1. Alike(d.tcp, r.tcp)  BY <1>4, <2>1 DEF Alike
    <3>2. QED  BY <1>2, <1>4, <3>1, AlikeLinked
  <2>2. CASE ~t.registered
    <3>1. d.tcp.state # "NONE"  BY <1>2 DEF Stays, Sound
    <3>2. Hears(d.app, r.app)  BY <1>4 DEF Hears
    <3>3. QED  BY <1>2, <1>4, <2>2, <3>1, <3>2, EndedLinked
  <2>3. QED  BY <2>1, <2>2
<1>6. QED  BY <1>1, <1>2, <1>5 DEF m

\* check_tcp_session: a session is freed only when no packet waits in the tun.
LEMMA CheckSessionLinked ==
    ASSUME NEW c \in Contexts, NEW idle \in BOOLEAN, NEW gone \in BOOLEAN,
           NEW u, Linked(c.tcp, c.app, c.srv, u), gone => u = <<>>
    PROVE  LET r == check_tcp_session(c, idle, gone) IN Linked(r.tcp, r.app, r.srv, u)
<1> DEFINE l == [c EXCEPT !.tcp.state = "CLOSING"]
           d == IF idle /\ c.tcp.state \in Live
                THEN IF c.tcp.state = "LISTEN" THEN l ELSE write_rst(c)
                ELSE c
           z == [d EXCEPT !.tcp.socket = FALSE, !.tcp.registered = FALSE,
                          !.tcp.state = "CLOSE"]
           n == [c EXCEPT !.tcp = NoSession]
           r == check_tcp_session(c, idle, gone)
<1>1. r = IF c.tcp.state = "CLOSE" /\ gone THEN n
          ELSE IF d.tcp.state # "CLOSING" THEN d ELSE z
  BY DEF check_tcp_session
<1>2. CASE c.tcp.state = "CLOSE" /\ gone
  <2>1. r = n /\ u = <<>>  BY <1>1, <1>2
  <2>2. n.tcp.state = "NONE" /\ n.app = c.app  BY DEF Contexts, NoSession
  <2> HIDE DEF n, r
  <2>3. Begun(c.tcp, c.app, u)  BY DEF Linked
  <2>4. ~HasSyn(u)
    <3>1. Len(u) = 0  BY <2>1
    <3>2. 1..0 = {}  OBVIOUS
    <3>3. QED  BY <3>1, <3>2 DEF HasSyn
  <2>5. Begun(n.tcp, n.app, u)  BY <1>2, <2>2, <2>3, <2>4 DEF Begun
  <2>6. Flow(n.tcp, n.app, u) /\ Told(n.tcp, n.app)
    BY <2>2 DEF Flow, Told, Taking, Joined
  <2>7. Linked(n.tcp, n.app, n.srv, u)  BY <2>2, <2>5, <2>6 DEF Linked, Live, Roomy, Taking
  <2>8. QED  BY <2>1, <2>7 DEF r
<1>3. CASE ~(c.tcp.state = "CLOSE" /\ gone)
  <2>1. d \in Contexts /\ Linked(d.tcp, d.app, d.srv, u)
    <3>1. l \in Contexts /\ l.tcp.state = "CLOSING" /\ l.app = c.app
      <4>1. [c.tcp EXCEPT !.state = "CLOSING"] \in Session  BY Numbers DEF Session, States
      <4>2. QED  BY <4>1 DEF Contexts, Session
    <3> HIDE DEF l
    <3>2. c.tcp.state \in Live => Linked(l.tcp, l.app, l.srv, u)
      <4>1. Hears(c.app, l.app)  BY <3>1 DEF Hears
      <4>2. QED  BY <3>1, <4>1, EndedLinked DEF Live
    <3>3. c.tcp.state # "NONE" =>
            write_rst(c) \in Contexts /\ LET w == write_rst(c) IN Linked(w.tcp, w.app, w.srv, u)
      BY WriteRst, RstLinked
    <3>4. "NONE" \notin Live  BY DEF Live
    <3>5. QED  BY <3>1, <3>2, <3>3, <3>4
  <2> HIDE DEF d
  <2>2. CASE d.tcp.state # "CLOSING"  BY <1>1, <1>3, <2>1, <2>2
  <2>3. CASE d.tcp.state = "CLOSING"
    <3>1. d.tcp \in Session  BY <2>1, Numbers
    <3>2. z.tcp.state = "CLOSE" /\ z.app = d.app  BY <2>1, <3>1 DEF Contexts, Session
    <3> HIDE DEF z
    <3>3. Hears(d.app, z.app)  BY <3>2 DEF Hears
    <3>4. QED  BY <1>1, <1>3, <2>1, <2>3, <3>2, <3>3, EndedLinked
  <2>4. QED  BY <2>2, <2>3
<1>4. QED  BY <1>2, <1>3

-----------------------------------------------------------------------------
(* The app *)

\* A packet put in the tun is behind the others.
LEMMA AppendFacts ==
    ASSUME NEW u \in Seq(Packet), NEW p
    PROVE  /\ Len(u) \in Nat /\ Len(Append(u, p)) = Len(u) + 1
           /\ Append(u, p)[Len(u) + 1] = p
           /\ \A i \in 1..Len(u) : Append(u, p)[i] = u[i]
           /\ \A i \in 1..Len(Append(u, p)) : i \in 1..Len(u) \/ i = Len(u) + 1
OBVIOUS

\* A packet without data, or with a SYN if the app has sent nothing else.
LEMMA EmptyLinked ==
    ASSUME NEW t, NEW a, NEW s, NEW u \in Seq(Packet), Linked(t, a, s, u), a.st # "CLOSED",
           NEW p, p.len = 0, "FIN" \notin p.flags, "SYN" \in p.flags => Young(a, u)
    PROVE  Linked(t, a, s, Append(u, p))
<1> DEFINE w == Append(u, p)
<1>1. Begun(t, a, u) /\ Flow(t, a, u) /\ Told(t, a) /\ (t.state \in Live => s.unsent < SndBuf)
  BY DEF Linked
<1>2. /\ Len(u) \in Nat /\ Len(w) = Len(u) + 1 /\ w[Len(u) + 1] = p
      /\ \A i \in 1..Len(u) : w[i] = u[i]
      /\ \A i \in 1..Len(w) : i \in 1..Len(u) \/ i = Len(u) + 1
  BY AppendFacts
<1> HIDE DEF w
<1>3. Young(a, u) => Young(a, w)
  <2> SUFFICES ASSUME Young(a, u), NEW i \in 1..Len(w)
               PROVE  w[i].len = 0 /\ "FIN" \notin w[i].flags
    BY DEF Young
  <2>1. CASE i \in 1..Len(u)  BY <1>2, <2>1 DEF Young
  <2>2. CASE i = Len(u) + 1  BY <1>2, <2>2
  <2>3. QED  BY <1>2, <2>1, <2>2
<1>4. HasSyn(w) => HasSyn(u) \/ Young(a, u)
  <2> SUFFICES ASSUME NEW i \in 1..Len(w), "SYN" \in w[i].flags PROVE HasSyn(u) \/ Young(a, u)
    BY DEF HasSyn
  <2>1. CASE i \in 1..Len(u)  BY <1>2, <2>1 DEF HasSyn
  <2>2. CASE i = Len(u) + 1  BY <1>2, <2>2
  <2>3. QED  BY <1>2, <2>1, <2>2
<1>5. Begun(t, a, w)  BY <1>1, <1>3, <1>4 DEF Begun
<1>6. ASSUME NEW k \in Nat, k <= Len(u), Covered(t, a, u, k) PROVE Covered(t, a, w, k)
  <2>1. \A i \in 1..k : i \in 1..Len(u)  BY <1>2, <1>6
  <2>2. \A i \in 1..k : w[i] = u[i]  BY <1>2, <2>1
  <2>3. QED  BY <1>6, <2>2 DEF Covered
<1>7. Coming(t, a, u) => Coming(t, a, w)
  <2> SUFFICES ASSUME Coming(t, a, u) PROVE Coming(t, a, w)  OBVIOUS
  <2>1. Covered(t, a, w, Len(u))  BY <1>2, <1>6 DEF Coming
  <2>2. Covered(t, a, w, Len(w))
    <3>1. \A i \in 1..Len(u) : i \in 1..Len(w)  BY <1>2
    <3>2. QED  BY <2>1, <3>1 DEF Covered
  <2>3. ASSUME NEW i \in 1..Len(w)
        PROVE  /\ w[i].len > 0 =>
                    w[i].len = SegLen /\ w[i].seq \in Grid /\ w[i].seq + SegLen <= DataEnd(a)
               /\ "FIN" \in w[i].flags => a.fin /\ Covered(t, a, w, i)
    <3>1. CASE i \in 1..Len(u)
      <4>1. w[i] = u[i] /\ i \in Nat /\ i <= Len(u)  BY <1>2, <3>1
      <4>2. QED  BY <1>6, <3>1, <4>1 DEF Coming
    <3>2. CASE i = Len(u) + 1
      <4>1. w[i].len = 0 /\ "FIN" \notin w[i].flags  BY <1>2, <3>2
      <4>2. QED  BY <4>1
    <3>3. QED  BY <1>2, <3>1, <3>2
  <2>4. QED  BY <2>2, <2>3 DEF Coming
<1>8. Covered(t, a, u, 0) => Covered(t, a, w, 0)  BY <1>2, <1>6
<1>9. Flow(t, a, w)  BY <1>1, <1>7, <1>8 DEF Flow
<1>10. QED  BY <1>1, <1>5, <1>9 DEF Linked, w

\* What a connected app sends: its next segment, one that it has sent already, or
\* its FIN.
LEMMA SendLinked ==
    ASSUME NEW t, NEW a, NEW s, NEW u \in Seq(Packet), Linked(t, a, s, u), a.st = "EST",
           NEW b, b.st = "EST", b.snd_una = a.snd_una, b.wnd = a.wnd,
           a.fin => b.fin /\ b.snd_nxt = a.snd_nxt,
           NEW p, "SYN" \notin p.flags, "FIN" \in p.flags => b.fin,
           \/ DataEnd(b) = DataEnd(a)
           \/ DataEnd(b) = DataEnd(a) + SegLen /\ p.seq = DataEnd(a) /\ p.len > 0,
           p.len > 0 /\ t.state \in Taking =>
              p.len = SegLen /\ p.seq \in Grid /\ p.seq + SegLen <= DataEnd(b),
           DataEnd(b) = DataEnd(a) \/ (~a.fin /\ DataEnd(b) <= a.snd_una + a.wnd),
           NEW e \in Int, e = DataEnd(b), a.snd_una \in Int, a.wnd \in Int, s \in ServerType
    PROVE  Linked(t, b, s, Append(u, p))
<1> DEFINE w == Append(u, p)
<1>1. Begun(t, a, u) /\ Flow(t, a, u) /\ Told(t, a) /\ (t.state \in Live => s.unsent < SndBuf)
  BY DEF Linked
<1>2. /\ Len(u) \in Nat /\ Len(w) = Len(u) + 1 /\ w[Len(u) + 1] = p
      /\ \A i \in 1..Len(u) : w[i] = u[i]
      /\ \A i \in 1..Len(w) : i \in 1..Len(u) \/ i = Len(u) + 1
  BY AppendFacts
<1> HIDE DEF w
<1>3. SegLen \in Nat \ {0} /\ Grid \subseteq Nat
  BY GridFacts, TcpAssumption DEF TcpAssumption
<1>4. Begun(t, b, w)
  <2>1. t.state # "LISTEN" /\ ~(t.state = "NONE" /\ HasSyn(u))  BY <1>1 DEF Begun, Young
  <2>2. HasSyn(w) => HasSyn(u)
    <3> SUFFICES ASSUME NEW i \in 1..Len(w), "SYN" \in w[i].flags PROVE HasSyn(u)
      BY DEF HasSyn
    <3>1. CASE i \in 1..Len(u)  BY <1>2, <3>1 DEF HasSyn
    <3>2. CASE i = Len(u) + 1  BY <1>2, <3>2
    <3>3. QED  BY <1>2, <3>1, <3>2
  <2>3. QED  BY <2>1, <2>2 DEF Begun
<1>5. Told(t, b)  BY <1>1 DEF Told
<1>6. a.fin => DataEnd(b) = DataEnd(a)  BY DEF DataEnd
<1>7. ASSUME Covered(t, a, u, 0), a.fin PROVE Covered(t, b, w, 0)
  <2>1. \A i : i \notin 1..0  OBVIOUS
  <2>2. QED  BY <1>6, <1>7, <2>1 DEF Covered
<1>8. ASSUME t.state \in Taking \union {"CLOSE_WAIT"} PROVE Neat(t, b)
  <2>1. Neat(t, a)  BY <1>1, <1>8 DEF Flow
  <2>2. DataEnd(a) \in Grid /\ DataEnd(b) \in Grid /\ DataEnd(a) \in Nat
    BY <1>3, <2>1, GridFacts DEF Neat
  <2>3. DataEnd(a) <= DataEnd(b) /\ DataEnd(b) \in Nat  BY <1>3, <2>2
  <2>4. \A q \in DOMAIN t.forward : q + SegLen <= DataEnd(b)
    <3> SUFFICES ASSUME NEW q \in DOMAIN t.forward PROVE q + SegLen <= DataEnd(b)  OBVIOUS
    <3>1. q \in Nat /\ q + SegLen <= DataEnd(a)  BY <1>3, <2>1 DEF Neat
    <3>2. QED  BY <1>3, <2>2, <2>3, <3>1
  <2>5. t.remote_seq \in Grid /\ t.remote_seq <= DataEnd(a) => t.remote_seq <= DataEnd(b)
    <3>1. t.remote_seq \in Grid => t.remote_seq \in Nat  BY <1>3
    <3>2. QED  BY <2>2, <2>3, <3>1
  <2>6. QED  BY <2>1, <2>2, <2>4, <2>5 DEF Neat
<1>9. ASSUME t.state \in Taking PROVE Coming(t, b, w)
  <2>1. Neat(t, a) /\ Coming(t, a, u)  BY <1>1, <1>9 DEF Flow
  <2>2. DataEnd(a) \in Grid /\ DataEnd(a) \in Nat  BY <1>3, <2>1 DEF Neat
  <2>3. DataEnd(a) <= DataEnd(b) /\ DataEnd(b) \in Nat  BY <1>3, <2>2
  <2>4. Covered(t, b, w, Len(w))
    <3> SUFFICES ASSUME NEW g \in Grid, g < DataEnd(b)
                 PROVE  \/ g < t.remote_seq \/ g \in DOMAIN t.forward
                        \/ \E i \in 1..Len(w) : w[i].seq = g /\ w[i].len > 0
      BY DEF Covered
    <3>1. CASE g < DataEnd(a)
      <4>1. \A i \in 1..Len(u) : i \in 1..Len(w) /\ w[i] = u[i]  BY <1>2
      <4>2. QED  BY <2>1, <3>1, <4>1 DEF Coming, Covered
    <3>2. CASE ~(g < DataEnd(a))
      <4>1. g \in Nat  BY <1>3
      <4>2. DataEnd(b) = DataEnd(a) + SegLen /\ p.seq = DataEnd(a) /\ p.len > 0
        BY <2>2, <3>2
      <4>3. ~(DataEnd(a) < g)
        <5>1. DataEnd(a) < g => DataEnd(a) + SegLen <= g  BY <2>2, GridFacts
        <5>2. QED  BY <1>3, <2>2, <4>1, <4>2, <5>1
      <4>4. g = p.seq  BY <2>2, <3>2, <4>1, <4>2, <4>3
      <4>5. Len(u) + 1 \in 1..Len(w)  BY <1>2
      <4>6. QED  BY <1>2, <4>2, <4>4, <4>5
    <3>3. QED  BY <3>1, <3>2
  <2>5. ASSUME NEW i \in 1..Len(w)
        PROVE  /\ w[i].len > 0 =>
                    w[i].len = SegLen /\ w[i].seq \in Grid /\ w[i].seq + SegLen <= DataEnd(b)
               /\ "FIN" \in w[i].flags => b.fin /\ Covered(t, b, w, i)
    <3>1. CASE i \in 1..Len(u)
      <4>1. w[i] = u[i]  BY <1>2, <3>1
      <4>2. w[i].len > 0 =>
              w[i].len = SegLen /\ w[i].seq \in Grid /\ w[i].seq + SegLen <= DataEnd(b)
        <5>1. w[i].len > 0 =>
                w[i].len = SegLen /\ w[i].seq \in Grid /\ w[i].seq + SegLen <= DataEnd(a)
          BY <2>1, <3>1, <4>1 DEF Coming
        <5>2. w[i].seq \in Grid => w[i].seq \in Nat  BY <1>3
        <5>3. QED  BY <1>3, <2>2, <2>3, <5>1, <5>2
      <4>3. "FIN" \in w[i].flags => b.fin /\ Covered(t, b, w, i)
        <5> SUFFICES ASSUME "FIN" \in w[i].flags PROVE b.fin /\ Covered(t, b, w, i)  OBVIOUS
        <5>1. a.fin /\ Covered(t, a, u, i)  BY <2>1, <3>1, <4>1 DEF Coming
        <5>2. \A j \in 1..i : w[j] = u[j]  BY <1>2, <3>1
        <5>3. QED  BY <1>6, <5>1, <5>2 DEF Covered
      <4>4. QED  BY <4>2, <4>3
    <3>2. CASE i = Len(u) + 1
      <4>1. w[i] = p /\ i = Len(w)  BY <1>2, <3>2
      <4>2. QED  BY <1>9, <2>4, <4>1
    <3>3. QED  BY <1>2, <3>1, <3>2
  <2>6. QED  BY <2>4, <2>5 DEF Coming
<1>10. Flow(t, b, w)  BY <1>1, <1>7, <1>8, <1>9 DEF Flow, Taking
<1>11. Roomy(t, b, s)
  <2>1. Roomy(t, a, s)  BY DEF Linked
  <2>2. ReadUpTo(s) \in Int /\ SndBuf \in Nat
    BY TcpAssumption DEF TcpAssumption, ReadUpTo, ServerType
  <2>3. PICK m \in Int : m = a.snd_una + a.wnd  OBVIOUS
  <2>4. PICK l \in Int : l = ReadUpTo(s) + SndBuf  BY <2>2
  <2>5. m <= l /\ e <= m => e <= l  OBVIOUS
  <2>6. QED  BY <2>1, <2>3, <2>4, <2>5 DEF Roomy
<1>12. QED  BY <1>1, <1>4, <1>5, <1>10, <1>11 DEF Linked, w

-----------------------------------------------------------------------------
(* The specification *)

\* The inductive invariant, next to Inv and StreamInv.
QueueInv == Linked(tcp, app, srv, up)

\* It holds before the first packet.
LEMMA QueueInit == Init => QueueInv
<1> SUFFICES ASSUME Init PROVE QueueInv  OBVIOUS
<1>1. tcp.state = "NONE"  BY DEF Init, NoSession
<1>2. app.st = "CLOSED" /\ app.snd_nxt = RemoteStart /\ ~app.fin /\ up = <<>>
  BY DEF Init, NoApp
<1>3. Len(up) = 0  BY <1>2
<1>4. ~HasSyn(up)
  <2>1. 1..0 = {}  OBVIOUS
  <2>2. QED  BY <1>3, <2>1 DEF HasSyn
<1>5. Begun(tcp, app, up)  BY <1>1, <1>2, <1>4 DEF Begun
<1>6. QED  BY <1>1, <1>5 DEF QueueInv, Linked, Flow, Told, Roomy, Live, Taking, Joined

\* The top of the loop.
LEMMA MonitorQueues ==
    ASSUME Inv, QueueInv, NEW probe \in BOOLEAN, NEW check \in BOOLEAN, NEW idle \in BOOLEAN,
           NEW gone \in BOOLEAN, Monitor(probe, check, idle, gone)
    PROVE  QueueInv'
<1>1. PICK w \in Writes :
        Becomes(IF check
                THEN check_tcp_session(monitor_tcp_session(Context(w), probe), idle, gone)
                ELSE monitor_tcp_session(Context(w), probe))
  BY DEF Monitor
<1> DEFINE c == Context(w)
           m == monitor_tcp_session(c, probe)
           k == check_tcp_session(m, idle, gone)
<1>2. c \in Contexts /\ c.tcp = tcp /\ Linked(c.tcp, c.app, c.srv, up)
  BY ContextType DEF QueueInv, Context
<1>3. (gone => up = <<>>) /\ up' = up  BY DEF Monitor
<1> HIDE DEF c
<1>4. m \in Contexts /\ Linked(m.tcp, m.app, m.srv, up)
  BY <1>2, MonitorSession, MonitorLinked DEF Inv
<1> HIDE DEF m
<1>5. Linked(k.tcp, k.app, k.srv, up)  BY <1>3, <1>4, CheckSessionLinked
<1> HIDE DEF k
<1>6. Becomes(IF check THEN k ELSE m)  BY <1>1 DEF c, m, k
<1>7. QED  BY <1>3, <1>4, <1>5, <1>6 DEF Becomes, QueueInv

\* A packet of the app.
LEMMA TunQueues ==
    ASSUME Inv, QueueInv, NEW open \in BOOLEAN, HandleTun(open) PROVE QueueInv'
<1>1. PICK w \in Writes : Becomes(handle_tcp(Context(w), Head(up), open))
  BY DEF HandleTun
<1> DEFINE c == Context(w)
           r == handle_tcp(c, Head(up), open)
<1>2. up # <<>> /\ up' = Tail(up)  BY DEF HandleTun
<1>3. up \in Seq(Packet) /\ Sound(tcp)  BY DEF Inv
<1>4. c \in Contexts /\ c.tcp = tcp /\ Linked(c.tcp, c.app, c.srv, up)
  BY ContextType DEF QueueInv, Context
<1> HIDE DEF c
<1>5. Linked(r.tcp, r.app, r.srv, Tail(up))  BY <1>2, <1>3, <1>4, HandleTcpLinked
<1>6. Becomes(r)  BY <1>1 DEF c
<1> HIDE DEF r
<1>7. QED  BY <1>2, <1>5, <1>6 DEF Becomes, QueueInv

\* A socket event.
LEMMA SocketQueues == ASSUME Inv, StreamInv, QueueInv, HandleSocket PROVE QueueInv'
<1>1. PICK w \in Writes :
        \E o \in Outcomes(Context(w), loop.evs) :
          Becomes(check_tcp_socket(Context(w), loop.evs, o))
  BY DEF HandleSocket
<1>2. PICK o \in Outcomes(Context(w), loop.evs) :
        Becomes(check_tcp_socket(Context(w), loop.evs, o))
  BY <1>1
<1> DEFINE c == Context(w)
           r == check_tcp_socket(c, loop.evs, o)
<1>3. loop.evs # {} /\ up' = up  BY DEF HandleSocket
<1>4. tcp \in Session /\ Sound(tcp) /\ tcp.socket  BY <1>3 DEF Inv
<1>5. c \in Contexts /\ c.tcp = tcp /\ Kept(c) /\ Linked(c.tcp, c.app, c.srv, up)
  BY ContextType, ContextKept DEF QueueInv, Context
<1>6. /\ o \in Oracles
      /\ /\ "ERR" \notin loop.evs /\ c.tcp.state # "LISTEN" /\ "OUT" \in loop.evs
         => o.run \subseteq DOMAIN c.tcp.forward /\ SendOutcome(c, o)
  BY <1>4, <1>5, OutcomesType
<1> HIDE DEF c
<1>7. Linked(r.tcp, r.app, r.srv, up)  BY <1>4, <1>5, <1>6, CheckTcpSocketLinked
<1>8. Becomes(r)  BY <1>2 DEF c
<1> HIDE DEF r
<1>9. QED  BY <1>3, <1>7, <1>8 DEF Becomes, QueueInv

\* Restarting the tunnel: a session is reset if its address is not allowed.
LEMMA ReloadQueues ==
    ASSUME Inv, QueueInv, NEW allowed \in BOOLEAN, Reload(allowed) PROVE QueueInv'
<1>1. PICK w \in Writes :
        Becomes([check_allowed(Context(w), allowed) EXCEPT !.tcp.registered = FALSE])
  BY DEF Reload
<1> DEFINE c == Context(w)
           d == check_allowed(c, allowed)
           r == [d EXCEPT !.tcp.registered = FALSE]
<1>2. up' = up  BY DEF Reload
<1>3. c \in Contexts /\ c.tcp = tcp /\ Linked(c.tcp, c.app, c.srv, up)
  BY ContextType DEF QueueInv, Context
<1> HIDE DEF c
<1>4. d \in Contexts /\ Linked(d.tcp, d.app, d.srv, up)
  BY <1>3, WriteRst, RstLinked DEF check_allowed, Live
<1> HIDE DEF d
<1>5. d.tcp \in Session  BY <1>4, Numbers
<1>6. Alike(d.tcp, r.tcp) /\ r.srv = d.srv /\ r.app = d.app
  BY <1>4, <1>5 DEF Contexts, Session, Alike
<1>7. Becomes(r)  BY <1>1 DEF c, d
<1> HIDE DEF r
<1>8. Linked(r.tcp, r.app, r.srv, up)  BY <1>4, <1>6, AlikeLinked
<1>9. QED  BY <1>2, <1>7, <1>8 DEF Becomes, QueueInv

\* The packet of Emit.
LEMMA EmitPacket ==
    ASSUME NEW a \in AppType, NEW flags, NEW seq, NEW len, Emit(a, flags, seq, len)
    PROVE  \E p : /\ p.flags = flags /\ p.seq = seq /\ p.len = len
                  /\ Linked(tcp, a, srv, Append(up, p)) => QueueInv'
<1> DEFINE p == [flags |-> flags, seq |-> seq, ack |-> a.rcv_nxt, len |-> len,
                 win |-> AppBuf - a.unread]
           b == [a EXCEPT !.ackDue = FALSE]
<1>1. p.flags = flags /\ p.seq = seq /\ p.len = len  OBVIOUS
<1>2. up' = Append(up, p) /\ app' = b /\ tcp' = tcp /\ srv' = srv  BY DEF Emit
<1>3. SameApp(a, b)  BY DEF SameApp, AppType
<1> HIDE DEF p, b
<1>4. Linked(tcp, a, srv, Append(up, p)) => Linked(tcp, b, srv, Append(up, p))
  BY <1>3, SameLinked
<1>5. Linked(tcp, a, srv, Append(up, p)) => QueueInv'  BY <1>2, <1>4 DEF QueueInv
<1>6. QED  BY <1>1, <1>5

\* The SYN of the app is the first packet of all.
LEMMA ConnectQueues == ASSUME Inv, Direct, QueueInv, AppConnect PROVE QueueInv'
<1> DEFINE a == [app EXCEPT !.st = "SYN_SENT", !.snd_nxt = @ + 1]
<1>1. app \in AppType /\ app.st = "CLOSED"  BY DEF Inv, AppConnect
<1>2. RemoteStart \in Nat  BY TcpAssumption DEF TcpAssumption
<1>3. tcp.state = "NONE" /\ up = <<>> /\ app.snd_nxt = RemoteStart /\ ~app.fin
  BY <1>1 DEF QueueInv, Linked, Begun
<1>4. a \in AppType /\ a.st = "SYN_SENT" /\ a.snd_nxt = RemoteStart + 1 /\ ~a.fin
  <2>1. RemoteStart + 1 \in Nat  BY <1>2
  <2>2. QED  BY <1>1, <1>3, <2>1 DEF AppType
<1>5. PICK len \in {0} \union (IF "syndata" \in Faults THEN {SegLen} ELSE {}) :
        Emit(a, {"SYN"}, RemoteStart, len)
  BY DEF AppConnect
<1>6. len = 0  BY DEF Direct
<1> HIDE DEF a
<1>7. PICK p : /\ p.flags = {"SYN"} /\ p.seq = RemoteStart /\ p.len = len
               /\ Linked(tcp, a, srv, Append(up, p)) => QueueInv'
  BY <1>4, <1>5, EmitPacket
<1> DEFINE w == Append(up, p)
<1>8. Len(w) = 1 /\ w[1] = p
  <2>1. up \in Seq(Packet) /\ Len(up) = 0  BY <1>3
  <2>2. QED  BY <2>1, AppendFacts
<1> HIDE DEF w
<1>9. \A i \in 1..Len(w) : w[i] = p  BY <1>8
<1>10. "FIN" \notin p.flags  BY <1>7
<1>11. Young(a, w)  BY <1>4, <1>6, <1>7, <1>9, <1>10 DEF Young
<1>12. Begun(tcp, a, w)  BY <1>3, <1>4, <1>11 DEF Begun
<1>13. Linked(tcp, a, srv, w)
  BY <1>3, <1>12 DEF Linked, Flow, Told, Roomy, Live, Taking, Joined
<1>14. QED  BY <1>7, <1>13 DEF w

\* A reset leaves the app unconnected.
LEMMA AbortQueues == ASSUME Inv, QueueInv, AppAbort PROVE QueueInv'
<1> DEFINE a == [app EXCEPT !.st = "ABORTED"]
<1>1. /\ app \in AppType /\ app.st \in {"SYN_SENT", "EST"} /\ up \in Seq(Packet)
      /\ Emit(a, {"RST", "ACK"}, app.snd_nxt, 0)
  BY DEF Inv, AppAbort
<1>2. a \in AppType /\ a.st = "ABORTED" /\ a.snd_nxt = app.snd_nxt /\ a.fin = app.fin
  BY <1>1 DEF AppType
<1> HIDE DEF a
<1>3. PICK p : /\ p.flags = {"RST", "ACK"} /\ p.len = 0
               /\ Linked(tcp, a, srv, Append(up, p)) => QueueInv'
  BY <1>1, <1>2, EmitPacket
<1>4. /\ Begun(tcp, app, up) /\ Flow(tcp, app, up)
      /\ tcp.state \in Live => srv.unsent < SndBuf
  BY DEF QueueInv, Linked
<1>5. Flow(tcp, a, up)  BY <1>2, <1>4, LearnsFlow
<1>6. Young(app, up) => Young(a, up)  BY <1>2 DEF Young
<1>7. Begun(tcp, a, up)  BY <1>1, <1>2, <1>4, <1>6 DEF Begun
<1>8. Linked(tcp, a, srv, up)
  <2>1. Roomy(tcp, a, srv)
    <3>1. DataEnd(a) = DataEnd(app)  BY <1>2 DEF DataEnd
    <3>2. QED  BY <1>2, <3>1 DEF QueueInv, Linked, Roomy
  <2>2. QED  BY <1>2, <1>4, <1>5, <1>7, <2>1 DEF Linked, Told
<1>9. "FIN" \notin p.flags /\ "SYN" \notin p.flags  BY <1>3
<1>10. Linked(tcp, a, srv, Append(up, p))  BY <1>1, <1>2, <1>3, <1>8, <1>9, EmptyLinked
<1>11. QED  BY <1>3, <1>10

\* The data and the FIN of a connected app, and what it sends again.
LEMMA SendQueues ==
    ASSUME Inv, Direct, QueueInv,
           \/ \E fin \in BOOLEAN : AppSend(fin)
           \/ AppFin \/ (\E k \in 1..2 : AppResend(k)) \/ AppResendFin
    PROVE  QueueInv'
<1>1. app \in AppType /\ app.st = "EST" /\ up \in Seq(Packet)
  BY DEF Inv, AppSend, AppFin, AppResend, AppResendFin
<1>2. SegLen \in Nat \ {0}  BY TcpAssumption DEF TcpAssumption
<1>3. app.snd_nxt \in Nat /\ app.snd_una \in Nat /\ app.fin \in BOOLEAN
  BY <1>1 DEF AppType
<1>4. tcp.state \in Taking => Neat(tcp, app) /\ app.snd_una = tcp.remote_seq
  BY <1>1 DEF QueueInv, Linked, Flow, Told, Joined
<1>5. ASSUME NEW b \in AppType, b.st = "EST", b.snd_una = app.snd_una, b.wnd = app.wnd,
             app.fin => b.fin /\ b.snd_nxt = app.snd_nxt,
             NEW fl, NEW seq, NEW len, Emit(b, fl, seq, len),
             "SYN" \notin fl, "FIN" \in fl => b.fin,
             \/ DataEnd(b) = DataEnd(app)
             \/ DataEnd(b) = DataEnd(app) + SegLen /\ seq = DataEnd(app) /\ len > 0,
             len > 0 /\ tcp.state \in Taking =>
                len = SegLen /\ seq \in Grid /\ seq + SegLen <= DataEnd(b),
             DataEnd(b) = DataEnd(app) \/ (~app.fin /\ DataEnd(b) <= app.snd_una + app.wnd)
      PROVE  QueueInv'
  <2>1. PICK p : /\ p.flags = fl /\ p.seq = seq /\ p.len = len
                 /\ Linked(tcp, b, srv, Append(up, p)) => QueueInv'
    BY <1>5, EmitPacket
  <2>2. Linked(tcp, app, srv, up)  BY DEF QueueInv
  <2>e. DataEnd(b) \in Int /\ app.snd_una \in Int /\ app.wnd \in Int /\ srv \in ServerType
    BY <1>1, <1>5 DEF DataEnd, AppType, Inv
  <2>3. Linked(tcp, b, srv, Append(up, p))  BY <1>1, <1>5, <2>1, <2>2, <2>e, SendLinked
  <2>4. QED  BY <2>1, <2>3
<1>6. ASSUME NEW fin \in BOOLEAN, AppSend(fin) PROVE QueueInv'
  <2> DEFINE n == app.snd_nxt + SegLen + (IF fin THEN 1 ELSE 0)
             b == [app EXCEPT !.fin = fin, !.snd_nxt = n]
             fl == IF fin THEN {"ACK", "FIN"} ELSE {"ACK"}
  <2>1. n \in Nat /\ (IF fin THEN n - 1 ELSE n) = app.snd_nxt + SegLen  BY <1>2, <1>3
  <2>2. Emit(b, fl, app.snd_nxt, SegLen) /\ ~app.fin  BY <1>6 DEF AppSend
  <2>3. "SYN" \notin fl /\ ("FIN" \in fl => fin)  OBVIOUS
  <2> HIDE DEF n, fl
  <2>4. /\ b \in AppType /\ b.st = "EST" /\ b.snd_una = app.snd_una /\ b.wnd = app.wnd
        /\ b.fin = fin /\ b.snd_nxt = n
    BY <1>1, <2>1 DEF AppType
  <2> HIDE DEF b
  <2>5. DataEnd(app) = app.snd_nxt  BY <2>2 DEF DataEnd
  <2>6. DataEnd(b) = app.snd_nxt + SegLen  BY <2>1, <2>4 DEF DataEnd
  <2>7. SegLen > 0 /\ app.snd_nxt + SegLen <= DataEnd(b)  BY <1>2, <1>3, <2>6
  <2>8. tcp.state \in Taking => app.snd_nxt \in Grid  BY <1>4, <2>5 DEF Neat
  <2>9. DataEnd(b) <= app.snd_una + app.wnd  BY <1>6, <2>6 DEF AppSend
  <2>10. QED  BY <1>5, <2>2, <2>3, <2>4, <2>5, <2>6, <2>7, <2>8, <2>9
<1>7. CASE AppFin
  <2> DEFINE b == [app EXCEPT !.fin = TRUE, !.snd_nxt = @ + 1]
  <2>1. app.snd_nxt + 1 \in Nat /\ app.snd_nxt + 1 - 1 = app.snd_nxt  BY <1>3
  <2>2. Emit(b, {"ACK", "FIN"}, app.snd_nxt, 0) /\ ~app.fin  BY <1>7 DEF AppFin
  <2>3. /\ b \in AppType /\ b.st = "EST" /\ b.snd_una = app.snd_una /\ b.wnd = app.wnd
        /\ b.fin /\ b.snd_nxt = app.snd_nxt + 1
    BY <1>1, <2>1 DEF AppType
  <2> HIDE DEF b
  <2>4. DataEnd(b) = DataEnd(app)
    <3>1. DataEnd(b) = b.snd_nxt - 1  BY <2>3 DEF DataEnd
    <3>2. DataEnd(app) = app.snd_nxt  BY <2>2 DEF DataEnd
    <3>3. b.snd_nxt = app.snd_nxt + 1  BY <2>3
    <3>4. b.snd_nxt - 1 = app.snd_nxt  BY <1>3, <3>3
    <3>5. QED  BY <3>1, <3>2, <3>4
  <2>5. ~(0 > 0) /\ "SYN" \notin {"ACK", "FIN"}  OBVIOUS
  <2>6. QED  BY <1>5, <2>2, <2>3, <2>4, <2>5
<1>8. ASSUME NEW k \in 1..2, AppResend(k) PROVE QueueInv'
  <2> DEFINE fl == IF app.fin /\ app.snd_una + k * SegLen = DataEnd(app)
                   THEN {"ACK", "FIN"} ELSE {"ACK"}
  <2>1. k = 2 => "repack" \in Faults  BY <1>8 DEF AppResend
  <2>2. k = 1  BY <2>1 DEF Direct
  <2>3. k * SegLen = SegLen  BY <1>2, <2>2
  <2>4. Emit(app, fl, app.snd_una, SegLen) /\ app.snd_una + SegLen <= DataEnd(app)
    BY <1>8, <2>3 DEF AppResend
  <2>5. "SYN" \notin fl /\ ("FIN" \in fl => app.fin)  OBVIOUS
  <2> HIDE DEF fl
  <2>6. SegLen > 0  BY <1>2
  <2>7. tcp.state \in Taking => app.snd_una \in Grid  BY <1>4 DEF Neat, Taking
  <2>8. QED  BY <1>1, <1>5, <2>4, <2>5, <2>6, <2>7
<1>9. CASE AppResendFin
  <2>1. Emit(app, {"ACK", "FIN"}, app.snd_una, 0) /\ app.fin  BY <1>9 DEF AppResendFin
  <2>2. ~(0 > 0) /\ "SYN" \notin {"ACK", "FIN"}  OBVIOUS
  <2>3. QED  BY <1>1, <1>5, <2>1, <2>2
<1>10. QED  BY <1>6, <1>7, <1>8, <1>9

\* The steps of the app.
LEMMA AppQueues == ASSUME Inv, Direct, QueueInv, App PROVE QueueInv'
<1>1. app \in AppType /\ up \in Seq(Packet) /\ Linked(tcp, app, srv, up)
  BY DEF Inv, QueueInv
<1>2. CASE AppResendSyn
  <2>1. app.st = "SYN_SENT" /\ Emit(app, {"SYN"}, RemoteStart, 0)
    BY <1>2 DEF AppResendSyn
  <2>2. Young(app, up)  BY <1>1, <2>1 DEF Linked, Begun
  <2>3. PICK p : /\ p.flags = {"SYN"} /\ p.len = 0
                 /\ Linked(tcp, app, srv, Append(up, p)) => QueueInv'
    BY <1>1, <2>1, EmitPacket
  <2>4. "FIN" \notin p.flags /\ app.st # "CLOSED"  BY <2>1, <2>3
  <2>5. Linked(tcp, app, srv, Append(up, p))  BY <1>1, <2>2, <2>3, <2>4, EmptyLinked
  <2>6. QED  BY <2>3, <2>5
<1>3. CASE AppAck
  <2>1. app.st = "EST" /\ Emit(app, {"ACK"}, app.snd_nxt, 0)  BY <1>3 DEF AppAck
  <2>2. PICK p : /\ p.flags = {"ACK"} /\ p.len = 0
                 /\ Linked(tcp, app, srv, Append(up, p)) => QueueInv'
    BY <1>1, <2>1, EmitPacket
  <2>3. "FIN" \notin p.flags /\ "SYN" \notin p.flags /\ app.st # "CLOSED"  BY <2>1, <2>2
  <2>4. Linked(tcp, app, srv, Append(up, p))  BY <1>1, <2>2, <2>3, EmptyLinked
  <2>5. QED  BY <2>2, <2>4
<1>4. CASE AppRead
  <2>1. /\ app' = [app EXCEPT !.unread = 0, !.ackDue = TRUE]
        /\ tcp' = tcp /\ up' = up /\ srv' = srv
    BY <1>4 DEF AppRead
  <2>2. SameApp(app, app')  BY <1>1, <2>1 DEF SameApp, AppType
  <2>3. QED  BY <1>1, <2>1, <2>2, SameLinked DEF QueueInv
<1>5. QED
  BY <1>2, <1>3, <1>4, ConnectQueues, SendQueues, AbortQueues DEF App

\* The server only makes room.
LEMMA PeerQueues == ASSUME Inv, QueueInv, Peer PROVE QueueInv'
<1>1. srv \in ServerType  BY DEF Inv
<1>2. /\ tcp' = tcp /\ up' = up /\ app' = app
      /\ srv'.unsent \in {srv.unsent, 0}
  BY <1>1 DEF Peer, ServerConnect, ServerSend, ServerClose, ServerDrain, ServerFail,
              ProxyReply, Server, ServerType
<1>3. 0 < SndBuf  BY TcpAssumption DEF TcpAssumption
<1>4. srv'.next = srv.next
  BY <1>1 DEF Peer, ServerConnect, ServerSend, ServerClose, ServerDrain, ServerFail,
              ProxyReply, Server, ServerType
<1>5. Roomy(tcp, app, srv')
  <2> SUFFICES ASSUME tcp.state \in Taking \union {"LISTEN", "CLOSE_WAIT"}
               PROVE  Roomy(tcp, app, srv')
    BY DEF Roomy
  <2>1. /\ 0 <= srv.unsent /\ tcp.recv_window + srv.unsent <= SndBuf
        /\ DataEnd(app) <= ReadUpTo(srv) + SndBuf
        /\ app.st = "EST" /\ ~app.fin => app.snd_una + app.wnd <= ReadUpTo(srv) + SndBuf
    BY DEF QueueInv, Linked, Roomy
  <2>2. /\ srv.unsent \in Int /\ srv.next \in Int /\ tcp.recv_window \in Nat /\ SndBuf \in Nat
        /\ app.snd_una + app.wnd \in Int /\ DataEnd(app) \in Int
    <3>1. srv.unsent \in Int /\ srv.next \in Int  BY <1>1 DEF ServerType
    <3>2. tcp.recv_window \in Nat /\ SndBuf \in Nat
      BY TcpAssumption DEF TcpAssumption, Inv, Session
    <3>3. app.snd_una \in Nat /\ app.wnd \in Nat /\ app.snd_nxt \in Nat  BY DEF Inv, AppType
    <3>4. QED  BY <3>1, <3>2, <3>3 DEF DataEnd
  <2>3. 0 <= srv'.unsent /\ srv'.unsent <= srv.unsent /\ srv'.unsent \in Int
    BY <1>2, <2>1, <2>2
  <2>4. ReadUpTo(srv) <= ReadUpTo(srv') /\ ReadUpTo(srv) \in Int /\ ReadUpTo(srv') \in Int
    BY <1>4, <2>2, <2>3 DEF ReadUpTo
  <2>5. QED  BY <2>1, <2>2, <2>3, <2>4 DEF Roomy
<1>6. QED  BY <1>2, <1>3, <1>5 DEF QueueInv, Linked

\* Every step keeps the queue, the app and the packets linked.
LEMMA NextQueues ==
    Direct /\ Inv /\ StreamInv /\ QueueInv /\ [Next]_vars /\ [~clear]_vars => QueueInv'
<1> SUFFICES ASSUME Direct, Inv, StreamInv, QueueInv, [Next]_vars, [~clear]_vars
             PROVE  QueueInv'
  OBVIOUS
<1>1. CASE MonitorStep
  <2>1. PICK probe \in BOOLEAN, check \in BOOLEAN, idle \in May("idle"), gone \in BOOLEAN :
          Monitor(probe, check, idle, gone)
    BY <1>1 DEF MonitorStep
  <2>2. idle \in BOOLEAN  BY MayType
  <2>3. QED  BY <2>1, <2>2, MonitorQueues
<1>2. ASSUME NEW a \in {TRUE} \union {~x : x \in May("forbid")}
      PROVE  a \in BOOLEAN
  OBVIOUS
<1>3. CASE TunStep  BY <1>2, <1>3, TunQueues DEF TunStep
<1>4. CASE \E a \in {TRUE} \union {~x : x \in May("forbid")} : Reload(a)
  BY <1>2, <1>4, ReloadQueues
<1>5. CASE Wait \/ UNCHANGED vars
  <2>1. tcp' = tcp /\ srv' = srv /\ app' = app /\ up' = up  BY <1>5 DEF Wait, vars
  <2>2. QED  BY <2>1 DEF QueueInv
<1>6. QED
  BY <1>1, <1>3, <1>4, <1>5, SocketQueues, AppQueues, PeerQueues DEF Next, Engine

\* The queue, the packets in the tun and what the app knows stay linked: what the
\* app has sent is forwarded, queued or on its way, at numbers of the grid, for
\* every size of segments, buffers and windows.
THEOREM QueueHolds == Direct => (Spec /\ NeverCleared => []QueueInv)
<1> SUFFICES ASSUME Direct PROVE Spec /\ NeverCleared => []QueueInv  OBVIOUS
<1>1. Inv /\ StreamInv /\ QueueInv /\ [Next]_vars /\ [~clear]_vars => QueueInv'
  BY NextQueues
<1>2. QED  BY <1>1, QueueInit, InvHolds, StreamHolds, PTL DEF Spec, NeverCleared

\* No segment in the queue of a session lies below remote_seq: check_tcp_socket,
\* which forwards only the segment at remote_seq, never finds the head of the
\* list in its way.
THEOREM QueueNeverBlocked == Direct => (Spec /\ NeverCleared => []QueueNotBlocked)
<1> SUFFICES ASSUME Direct PROVE Spec /\ NeverCleared => []QueueNotBlocked  OBVIOUS
<1>1. Inv /\ StreamInv /\ QueueInv => QueueNotBlocked
  <2> SUFFICES ASSUME Inv, StreamInv, QueueInv, tcp.state \in Live,
                      NEW q \in DOMAIN tcp.forward
               PROVE  q >= tcp.remote_seq
    BY DEF QueueNotBlocked
  <2>1. tcp.state \notin {"LISTEN", "FIN_WAIT1", "LAST_ACK"}
    BY EmptyDomain DEF StreamInv, Tally, QueueInv, Linked, Begun
  <2>2. Neat(tcp, app)  BY <2>1 DEF Live, QueueInv, Linked, Flow, Taking
  <2>3. tcp.remote_seq <= q /\ q \in Nat  BY <2>2, GridFacts DEF Neat
  <2>4. tcp.remote_seq \in Int  BY DEF Inv, Session
  <2>5. QED  BY <2>3, <2>4
<1>2. QED  BY <1>1, QueueHolds, InvHolds, StreamHolds, PTL

\* An acknowledgment written to the tun never runs ahead of what send() took,
\* and covers the FIN of the app only behind all of its data.
THEOREM AckedIsAlwaysForwarded == Direct => (Spec /\ NeverCleared => []AckedIsForwarded)
<1> SUFFICES ASSUME Direct PROVE Spec /\ NeverCleared => []AckedIsForwarded  OBVIOUS
<1>1. Inv /\ StreamInv /\ QueueInv => AckedIsForwarded
  <2> SUFFICES ASSUME Inv, StreamInv, QueueInv, app.st = "EST", tcp.state \in Live
               PROVE  \/ app.snd_una <= srv.next
                      \/ app.fin /\ app.snd_una = app.snd_nxt /\ srv.next = DataEnd(app)
    BY DEF AckedIsForwarded
  <2> DEFINE n == tcp.remote_seq
             k == SentAt(tcp.forward, n)
  <2>1. tcp.state \in Joined
    BY DEF QueueInv, Linked, Begun, Young, Live, Joined, Taking
  <2>2. app.snd_una = n  BY <2>1 DEF QueueInv, Linked, Told
  <2>3. n \in Int /\ srv.next \in Int /\ app.snd_nxt \in Nat
    BY DEF Inv, Session, ServerType, AppType
  <2>4. k \in Nat
    <3>1. tcp.forward \in Queues  BY DEF Inv, Session
    <3>2. \A q \in DOMAIN tcp.forward : tcp.forward[q].sent \in Nat
      BY <3>1 DEF Queues, Segment
    <3>3. QED  BY <3>2 DEF SentAt
  <2>5. Tally(tcp.state, n, tcp.forward, srv.next)  BY DEF StreamInv
  <2>6. Flow(tcp, app, up)  BY DEF QueueInv, Linked
  <2> HIDE DEF n, k
  <2>7. n <= n + k  BY <2>3, <2>4
  <2>8. CASE tcp.state \in Taking
    <3>1. srv.next = n + k  BY <2>5, <2>8 DEF Tally, Taking, k, n
    <3>2. QED  BY <2>2, <2>7, <3>1
  <2>9. CASE tcp.state = "CLOSE_WAIT" /\ tcp.forward # EmptyQueue
    <3>1. srv.next = n + k  BY <2>5, <2>9 DEF Tally, k, n
    <3>2. QED  BY <2>2, <2>7, <3>1
  <2>10. CASE tcp.state = "CLOSE_WAIT" /\ tcp.forward = EmptyQueue
    <3>1. srv.next = n - 1  BY <2>5, <2>10 DEF Tally
    <3>2. app.fin /\ n = app.snd_nxt  BY <2>6, <2>10 DEF Flow, n
    <3>3. QED  BY <2>2, <3>1, <3>2 DEF DataEnd
  <2>11. CASE tcp.state = "FIN_WAIT1"
    <3>1. srv.next = n  BY <2>5, <2>11 DEF Tally
    <3>2. QED  BY <2>2, <2>3, <3>1
  <2>12. CASE tcp.state = "LAST_ACK"
    <3>1. srv.next + 1 = n  BY <2>5, <2>12 DEF Tally
    <3>2. app.fin /\ n = app.snd_nxt  BY <2>6, <2>12 DEF Flow, n
    <3>3. srv.next = n - 1  BY <2>3, <3>1
    <3>4. QED  BY <2>2, <3>2, <3>3 DEF DataEnd
  <2>13. QED  BY <2>1, <2>8, <2>9, <2>10, <2>11, <2>12 DEF Joined
<1>2. QED  BY <1>1, QueueHolds, InvHolds, StreamHolds, PTL

\* What waits in a queue on the grid fits between the byte that the server expects
\* and the end of what the app has sent.
LEMMA QueueSpans ==
    ASSUME NEW t \in Session, NEW a \in AppType, Neat(t, a), NEW x \in Int,
           Fresh(t.forward, t.remote_seq), t.forward # EmptyQueue,
           x = t.remote_seq + SentAt(t.forward, t.remote_seq)
    PROVE  ToForward(t.forward) = 0 \/ ToForward(t.forward) <= DataEnd(a) - x
<1> DEFINE f == t.forward
           n == t.remote_seq
           e == DataEnd(a)
           B == QueuedBytes(f)
           g == [b \in B |-> b[1] + b[2]]
<1>1. /\ SegLen \in Nat /\ n \in Grid /\ e \in Grid /\ n \in Nat /\ e \in Nat
      /\ f \in Queues
  <2>1. SegLen \in Nat  BY TcpAssumption DEF TcpAssumption
  <2>2. n \in Grid /\ e \in Grid  BY DEF Neat
  <2>3. Grid \subseteq Nat  BY GridFacts
  <2>4. QED  BY <2>1, <2>2, <2>3 DEF Session
<1>2. \A q \in DOMAIN f : /\ q \in Grid /\ q \in Nat /\ f[q].len = SegLen /\ f[q].sent \in Nat
                          /\ f[q].sent <= SegLen /\ n <= q /\ q + SegLen <= e
                          /\ q # n => f[q].sent = 0
  BY <1>1, GridFacts, QueueFacts DEF Neat, Fresh
<1>3. ASSUME NEW b \in B
      PROVE  \E q \in DOMAIN f : \E i \in f[q].sent..(f[q].len - 1) : b = <<q, i>>
  BY DEF QueuedBytes
<1>4. ASSUME NEW b \in B
      PROVE  /\ b[1] \in DOMAIN f /\ b[1] \in Grid /\ b[1] \in Nat /\ b[2] \in Nat
             /\ f[b[1]].sent <= b[2] /\ b[2] < SegLen /\ b = <<b[1], b[2]>>
  <2>1. PICK q \in DOMAIN f : \E i \in f[q].sent..(f[q].len - 1) : b = <<q, i>>  BY <1>3
  <2>2. PICK i \in f[q].sent..(f[q].len - 1) : b = <<q, i>>  BY <2>1
  <2>3. b[1] = q /\ b[2] = i  BY <2>2
  <2>4. f[q].sent \in Nat /\ f[q].len = SegLen /\ q \in Nat /\ q \in Grid  BY <1>2
  <2> HIDE DEF B, f
  <2>5. i \in Nat /\ f[q].sent <= i /\ i < SegLen  BY <1>1, <2>4
  <2>6. QED  BY <2>2, <2>3, <2>4, <2>5
<1> HIDE DEF B
<1>5. ASSUME NEW b \in B PROVE b[1] + b[2] \in x..(e - 1)
  <2> DEFINE q == b[1]
             i == b[2]
  <2>1. /\ q \in DOMAIN f /\ q \in Grid /\ q \in Nat /\ i \in Nat /\ f[q].sent <= i /\ i < SegLen
        /\ n <= q /\ q + SegLen <= e
    BY <1>2, <1>4
  <2>2. x <= q + i
    <3>1. CASE q = n
      <4>1. x = n + f[n].sent /\ f[n].sent \in Nat /\ f[n].sent <= i
        BY <1>2, <2>1, <3>1 DEF SentAt
      <4> HIDE DEF q, i, f, n
      <4>2. QED  BY <1>1, <2>1, <3>1, <4>1
    <3>2. CASE q # n
      <4>1. n + SegLen <= q
        <5>1. n < q  BY <1>1, <2>1, <3>2
        <5>2. QED  BY <1>1, <2>1, <5>1, GridFacts
      <4>2. SentAt(f, n) \in Nat /\ SentAt(f, n) <= SegLen
        <5>1. CASE n \in DOMAIN f  BY <1>2, <5>1 DEF SentAt
        <5>2. CASE n \notin DOMAIN f  BY <1>1, <5>2 DEF SentAt
        <5>3. QED  BY <5>1, <5>2
      <4>3. PICK k \in Nat : k = SentAt(f, n)  BY <4>2
      <4>4. x = n + k /\ k <= SegLen  BY <4>2, <4>3
      <4> HIDE DEF q, i, f, n
      <4>5. QED  BY <1>1, <2>1, <4>1, <4>4
    <3>3. QED  BY <3>1, <3>2
  <2> HIDE DEF q, i, e
  <2>3. q + i <= e - 1  BY <1>1, <2>1
  <2>4. QED  BY <1>1, <2>1, <2>2, <2>3 DEF q, i
<1>6. ASSUME NEW b \in B, NEW d \in B, b[1] + b[2] = d[1] + d[2] PROVE b = d
  <2> DEFINE q == b[1]
             i == b[2]
             r == d[1]
             j == d[2]
  <2>1. /\ q \in Grid /\ q \in Nat /\ i \in Nat /\ i < SegLen /\ b = <<q, i>>
        /\ r \in Grid /\ r \in Nat /\ j \in Nat /\ j < SegLen /\ d = <<r, j>>
    BY <1>4
  <2>2. (q < r => q + SegLen <= r) /\ (r < q => r + SegLen <= q)  BY <2>1, GridFacts
  <2>3. q + i = r + j  BY <1>6
  <2> HIDE DEF q, i, r, j
  <2>4. q = r /\ i = j  BY <1>1, <2>1, <2>2, <2>3
  <2>5. QED  BY <2>1, <2>4
<1>7. g \in Injection(B, x..(e - 1))
  <2>1. g \in [B -> x..(e - 1)]  BY <1>5
  <2>2. \A b, d \in B : g[b] = g[d] => b = d  BY <1>6
  <2> HIDE DEF g
  <2>3. QED  BY <2>1, <2>2 DEF Injection, IsInjective
<1> HIDE DEF g
<1>8. IsFiniteSet(x..(e - 1)) /\ Cardinality(x..(e - 1)) = IF x > e - 1 THEN 0 ELSE e - x
  <2>1. e - 1 \in Int  BY <1>1
  <2>2. PICK m \in Int : m = e - 1  BY <2>1
  <2>3. IsFiniteSet(x..m) /\ Cardinality(x..m) = IF x > m THEN 0 ELSE m - x + 1
    BY FS_Interval
  <2>4. m - x + 1 = e - x  BY <1>1, <2>2
  <2>5. QED  BY <2>2, <2>3, <2>4
<1>9. Cardinality(B) <= Cardinality(x..(e - 1))  BY <1>7, <1>8, FS_Injection
<1>10. Cardinality(B) \in Nat /\ ToForward(f) = Cardinality(B)
  BY <1>1, QueuedFinite DEF ToForward, B
<1> HIDE DEF e
<1>11. Cardinality(B) = 0 \/ Cardinality(B) <= e - x  BY <1>1, <1>8, <1>9, <1>10
<1>12. QED  BY <1>10, <1>11 DEF e

\* queue_tcp has no limit of its own, but the windows that were announced keep what
\* is queued and unsent within the buffer of the socket, whatever the scale cut off
\* them and however old they are when the app uses them.
THEOREM QueueAlwaysBounded == Direct => (Spec /\ NeverCleared => []QueueBounded)
<1> SUFFICES ASSUME Direct PROVE Spec /\ NeverCleared => []QueueBounded  OBVIOUS
<1>1. Inv /\ StreamInv /\ QueueInv => QueueBounded
  <2> SUFFICES ASSUME Inv, StreamInv, QueueInv, tcp.state \in Live
               PROVE  ToForward(tcp.forward) + srv.unsent <= SndBuf
    BY DEF QueueBounded
  <2>1. /\ tcp \in Session /\ app \in AppType /\ srv.unsent \in Int /\ srv.next \in Int
        /\ SndBuf \in Nat /\ srv.unsent < SndBuf
    BY TcpAssumption DEF TcpAssumption, Inv, ServerType, QueueInv, Linked
  <2>2. ToForward(tcp.forward) \in Nat  BY <2>1, QueuedFinite DEF Session
  <2>3. CASE tcp.forward = EmptyQueue
    <3>1. QueuedBytes(EmptyQueue) = {}  BY EmptyDomain DEF QueuedBytes
    <3>2. ToForward(tcp.forward) = 0  BY <2>3, <3>1, FS_EmptySet DEF ToForward
    <3>3. QED  BY <2>1, <3>2
  <2>4. CASE tcp.forward # EmptyQueue
    <3>1. tcp.state \notin {"LISTEN", "FIN_WAIT1", "LAST_ACK"}
      BY <2>4 DEF StreamInv, Tally, QueueInv, Linked, Begun
    <3>2. tcp.state \in Taking \union {"CLOSE_WAIT"}  BY <3>1 DEF Live, Taking
    <3>3. Neat(tcp, app)  BY <3>2 DEF QueueInv, Linked, Flow
    <3>4. /\ Fresh(tcp.forward, tcp.remote_seq)
          /\ srv.next = tcp.remote_seq + SentAt(tcp.forward, tcp.remote_seq)
      BY <2>4, <3>2 DEF StreamInv, Tally, Taking
    <3>5. ToForward(tcp.forward) = 0 \/ ToForward(tcp.forward) <= DataEnd(app) - srv.next
      BY <2>1, <2>4, <3>3, <3>4, QueueSpans
    <3>6. DataEnd(app) <= ReadUpTo(srv) + SndBuf
      BY <3>2 DEF QueueInv, Linked, Roomy
    <3>7. DataEnd(app) \in Int  BY <2>1 DEF DataEnd, AppType
    <3>8. QED  BY <2>1, <2>2, <3>5, <3>6, <3>7 DEF ReadUpTo
  <2>5. QED  BY <2>3, <2>4
<1>2. QED  BY <1>1, QueueHolds, InvHolds, StreamHolds, PTL

=============================================================================
