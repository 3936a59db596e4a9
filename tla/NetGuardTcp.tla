---------------------------- MODULE NetGuardTcp ----------------------------
(***************************************************************************)
(* One TCP session of the native NetGuard engine (jni/netguard/tcp.c) and  *)
(* the part of the event loop that drives it (session.c: handle_events).   *)
(*                                                                         *)
(* The engine terminates the app's TCP connection, which it sees as raw    *)
(* packets read from the tun device, and relays its bytes over an ordinary *)
(* socket to the server.  Three parties take steps: the engine's only      *)
(* thread, the kernel TCP of the app behind the tun, and the server        *)
(* behind the socket.                                                      *)
(*                                                                         *)
(* Data are abstracted to positions: the byte with sequence number q is q  *)
(* itself, so the server's stream is intact iff it receives consecutive    *)
(* numbers.  Time is a nondeterministic choice of the session check.       *)
(***************************************************************************)
EXTENDS Integers, Sequences, FiniteSets

CONSTANTS
    RemoteStart,  \* initial sequence number chosen by the app
    LocalStart,   \* initial sequence number chosen by the engine, rand()
    SegLen,       \* payload bytes of one segment of the app
    Segs,         \* segments the app sends before it closes, at most
    ServerBytes,  \* bytes the server sends, at most
    SndBuf,       \* SO_SNDBUF of the engine's socket
    WindowUnit,   \* 2 ^ recv_scale: bytes per unit of an announced window
    MaxWindow,    \* the largest window a header can announce (0xFFFF)
    AppBuf,       \* receive buffer of the app
    Mss,          \* maximum segment size announced by the app
    MaxHeader,    \* "Maximum header size" of get_send_window (40 in tcp.c)
    TunYield,     \* TUN_YIELD: packets handled per loop iteration
    UpBound,      \* bound on the packets waiting in the tun device
    Socks5,       \* is a SOCKS5 proxy configured
    Faults        \* the environment's misbehaviours that may happen

FaultKinds == {"tunwrite",   \* write() to the tun fails
               "idle",       \* the session times out
               "server",     \* connect fails, the server resets
               "abort",      \* the app resets its connection
               "retransmit", \* the app resends unacknowledged segments
               "repack",     \* ... and merges two of them into one
               "syndata",    \* the app's SYN carries data (TCP fast open)
               "reload",     \* the tunnel restarts and keeps its sessions
               "forbid"}     \* the address is not allowed (any more)

ASSUME TcpAssumption ==
    /\ RemoteStart \in Nat /\ LocalStart \in Nat
    /\ SegLen \in Nat \ {0} /\ Segs \in Nat /\ ServerBytes \in Nat
    /\ SndBuf \in Nat \ {0} /\ WindowUnit \in Nat \ {0} /\ MaxWindow \in Nat \ {0}
    /\ AppBuf \in Nat /\ Mss \in Nat \ {0}
    /\ MaxHeader \in Nat /\ TunYield \in Nat \ {0} /\ UpBound \in Nat \ {0}
    /\ Socks5 \in BOOLEAN /\ Faults \subseteq FaultKinds

VARIABLES
    tcp,    \* the session: struct ng_session and its struct tcp_session
    loop,   \* where the event loop is, and the events it has to handle
    up,     \* packets of the app waiting in the tun device
    app,    \* the app's kernel TCP (external)
    srv     \* the server behind the socket (external)

vars == <<tcp, loop, up, app, srv>>

-----------------------------------------------------------------------------
(* Session state *)

Live   == {"LISTEN", "SYN_RECV", "ESTABLISHED", "CLOSE_WAIT",
           "FIN_WAIT1", "LAST_ACK"}
States == Live \union {"CLOSING", "CLOSE", "NONE"}
Events == {"IN", "OUT", "ERR"}
Socks  == {"NONE", "HELLO", "AUTH", "CONNECT", "CONNECTED", "FAILED"}

\* The queue of segments to forward: a list sorted by sequence number without
\* repetitions, that is, a function from sequence numbers to segments.
EmptyQueue == [q \in {} |-> [len |-> 1, sent |-> 0]]
HeadIs(f, q) == q \in DOMAIN f /\ \A r \in DOMAIN f : q <= r
SegEnd(f, q) == q + f[q].len

\* No session in the list, or the memory of it has been freed.
NoSession ==
    [state |-> "NONE", socks5 |-> "NONE", socket |-> FALSE,
     events |-> {}, registered |-> FALSE,
     local_seq |-> 0, remote_seq |-> 0, acked |-> 0, forward |-> EmptyQueue,
     send_window |-> 0, unconfirmed |-> 0, recv_window |-> 0]

-----------------------------------------------------------------------------
(* The app's TCP: what the engine's packets do to it.  Packets written to  *)
(* the tun arrive at once; the app's own packets wait in up.               *)

NoApp == [st |-> "CLOSED", snd_una |-> RemoteStart, snd_nxt |-> RemoteStart,
          fin |-> FALSE, rcv_nxt |-> 0, unread |-> 0, wnd |-> 0,
          ackDue |-> FALSE]

\* p is [flags, seq, ack, len, win].  The window of a SYN is taken as it is, the
\* others are in units (RFC 7323).
AppRecv(a, p) ==
    CASE "RST" \in p.flags ->
           IF \/ a.st = "SYN_SENT" /\ "ACK" \in p.flags /\ p.ack = a.snd_nxt
              \/ a.st = "EST" /\ p.seq >= a.rcv_nxt
           THEN [a EXCEPT !.st = "RESET", !.ackDue = FALSE]
           ELSE a
      [] "RST" \notin p.flags /\ "SYN" \in p.flags ->
           IF a.st = "SYN_SENT" /\ p.ack = a.snd_nxt
           THEN [a EXCEPT !.st = "EST", !.snd_una = p.ack,
                          !.rcv_nxt = p.seq + 1, !.wnd = p.win,
                          !.ackDue = TRUE]
           ELSE a
      [] OTHER ->
           IF a.st # "EST" THEN a
           ELSE LET n == p.len + (IF "FIN" \in p.flags THEN 1 ELSE 0)
                    b == IF p.seq = a.rcv_nxt /\ n > 0
                         THEN [a EXCEPT !.rcv_nxt = @ + n,
                                        !.unread = @ + p.len, !.ackDue = TRUE]
                         ELSE a
                IN IF p.ack < a.snd_una THEN b
                   ELSE [b EXCEPT !.snd_una = p.ack, !.wnd = p.win * WindowUnit]

-----------------------------------------------------------------------------
(* Writing to the tun.  A handler works on a context c: the session, the   *)
(* two peers it talks to, and how many writes to the tun succeed before    *)
(* one fails.                                                              *)

write_tcp(c, flags, len) ==
    IF c.writes = 0 THEN c
    ELSE [c EXCEPT !.writes = @ - 1,
                   !.app = AppRecv(@, [flags |-> flags, len |-> len,
                                       seq |-> c.tcp.local_seq,
                                       ack |-> c.tcp.remote_seq,
                                       win |-> c.tcp.recv_window \div WindowUnit])]

\* write_syn_ack, write_ack, write_data, write_fin_ack: a failure closes.
write_or_close(c, flags, len) ==
    IF c.writes = 0 THEN [c EXCEPT !.tcp.state = "CLOSING"]
    ELSE write_tcp(c, flags, len)

write_syn_ack(c) == write_or_close(c, {"SYN", "ACK"}, 0)
write_ack(c) == write_or_close(c, {"ACK"}, 0)
write_data(c, n) == write_or_close(c, {"ACK"}, n)
write_fin_ack(c) == write_or_close(c, {"FIN", "ACK"}, 0)

\* Mutant: the reset of a session that is not connected does not count the SYN.
BadRst(c) ==
    [write_tcp(c, {"RST"} \union (IF c.tcp.state = "LISTEN" THEN {"ACK"} ELSE {}), 0)
        EXCEPT !.tcp.state = IF @ = "CLOSE" THEN @ ELSE "CLOSING"]

\* Mutant: the reset sent for a closed session starts its closing again.
BadRstState(c) ==
    LET listen == c.tcp.state = "LISTEN"
        d == IF listen THEN [c EXCEPT !.tcp.remote_seq = @ + 1] ELSE c
    IN [write_tcp(d, IF listen THEN {"RST", "ACK"} ELSE {"RST"}, 0)
           EXCEPT !.tcp.state = "CLOSING"]

write_rst(c) ==
    LET listen == c.tcp.state = "LISTEN"
        d == IF listen THEN [c EXCEPT !.tcp.remote_seq = @ + 1] ELSE c
    IN [write_tcp(d, IF listen THEN {"RST", "ACK"} ELSE {"RST"}, 0)
           EXCEPT !.tcp.state = IF @ = "CLOSE" THEN @ ELSE "CLOSING"]

-----------------------------------------------------------------------------
(* Windows *)

\* Mutant: what is in flight is not subtracted from the window of the app.
BadSendWindow(t) ==
    IF t.acked > 0 /\ t.send_window > MaxHeader THEN t.send_window - MaxHeader ELSE 0

\* Sequence numbers do not wrap here (see the README); acked is 0 before the
\* first acknowledgment, so that the window is closed until then.
get_send_window(t) ==
    LET behind == t.local_seq - t.acked + (t.unconfirmed + 1) * MaxHeader
    IN IF behind < t.send_window THEN t.send_window - behind ELSE 0

get_receive_buffer(c) ==
    IF ~c.tcp.socket \/ SndBuf <= c.srv.unsent THEN 0 ELSE SndBuf - c.srv.unsent

\* The bytes of the queue that were not sent: the i-th one of the segment q.
QueuedBytes(f) == UNION {{q} \X (f[q].sent..(f[q].len - 1)) : q \in DOMAIN f}
ToForward(f) == Cardinality(QueuedBytes(f))

\* Mutant: what the socket has not sent yet is not subtracted.
BadReceiveWindow(c) ==
    IF c.tcp.socket /\ ToForward(c.tcp.forward) < SndBuf
    THEN SndBuf - ToForward(c.tcp.forward) ELSE 0

get_receive_window(c) ==
    LET max == MaxWindow * WindowUnit
        window == IF get_receive_buffer(c) > max THEN max ELSE get_receive_buffer(c)
        toforward == ToForward(c.tcp.forward)
    IN  IF toforward < window THEN window - toforward ELSE 0

\* Does the rest of a segment fit the socket: tcp.c compares the unsigned
\* difference len - sent, which is huge when a shorter retransmission made
\* sent > len.
Fits(seg, room) == seg.sent <= seg.len /\ seg.len - seg.sent < room

\* May the segment q of the queue be sent now.
Sendable(f, q, seq, room) == HeadIs(f, q) /\ q = seq /\ Fits(f[q], room)

-----------------------------------------------------------------------------
(* check_tcp_socket: an event of the socket.  What the kernel answers to   *)
(* send and recv is the oracle o: the queued segments that are sent        *)
(* completely (run, up to end), the bytes sent of the next one (part), if  *)
(* the following send fails (serr), what recv returns (rd, n), the reply of    *)
(* the SOCKS5 proxy (rep) and whether the request can be sent (sok).       *)

\* e is the sequence number after the segments of run.
RunEnd(t, run, e) ==
    \/ run = {} /\ e = t.remote_seq
    \/ \E q \in run : e = SegEnd(t.forward, q) /\ \A r \in run : r <= q

\* The iterations of the forwarding loop that send(2) can produce.  The first
\* send on a socket reported writable takes at least a byte or fails; later
\* ones may be refused (EAGAIN).
SendOutcome(c, o) ==
    LET t == c.tcp
        f == t.forward
        room == get_receive_buffer(c)
        e == o.end
        start == t.remote_seq + f[t.remote_seq].sent
        next == [q \in DOMAIN f \ o.run |-> f[q]]
        left == IF o.run = {} THEN room ELSE room - (e - start)
    IN /\ RunEnd(t, o.run, e)
       /\ o.run # {} =>
             /\ t.remote_seq \in o.run
             /\ \A q \in o.run :
                   /\ \A r \in DOMAIN f \ o.run : q < r
                   /\ q # t.remote_seq => \E r \in o.run : SegEnd(f, r) = q
                   /\ Fits(f[q], IF q = t.remote_seq THEN room ELSE room - (q - start))
       /\ o.part > 0 \/ o.serr => Sendable(next, e, e, left)
       /\ o.part > 0 => ~o.serr /\ o.part < f[e].len - f[e].sent
       /\ c.srv.err => o.run = {} /\ o.part = 0
       /\ Sendable(f, t.remote_seq, t.remote_seq, room) =>
             o.run # {} \/ o.part > 0 \/ o.serr

\* The queue without the segments that were sent.
forwarded(t, o) ==
    [t EXCEPT !.remote_seq = o.end,
              !.forward = [q \in DOMAIN t.forward \ o.run |->
                             IF q = o.end
                             THEN [t.forward[q] EXCEPT !.sent = @ + o.part]
                             ELSE t.forward[q]]]

\* The server's stream with the bytes that were sent, from start up to at.
delivered(c, o) ==
    LET f == c.tcp.forward
        start == c.tcp.remote_seq + f[c.tcp.remote_seq].sent
        at == o.end + (IF o.part > 0 THEN f[o.end].sent + o.part ELSE 0)
    IN IF o.run = {} /\ o.part = 0 THEN c.srv
       ELSE [c.srv EXCEPT !.unsent = @ + (at - start), !.next = at,
                          !.intact = @ /\ start = c.srv.next]

forward_data(c, o) ==
    LET d == [c EXCEPT !.tcp = forwarded(c.tcp, o), !.srv = delivered(c, o)]
    IN IF o.serr THEN write_rst([d EXCEPT !.srv.err = TRUE]) ELSE d

\* Mutant: the socket is closed at the end of the stream but not forgotten.
BadSocketLeft(c, o) ==
    IF o.rd = "eof"
    THEN [write_fin_ack(c) EXCEPT
            !.tcp.local_seq = @ + 1,
            !.tcp.state = IF c.tcp.state = "ESTABLISHED" THEN "FIN_WAIT1" ELSE "LAST_ACK"]
    ELSE write_rst(c)

\* Mutant: the FIN sent to the app is not counted.
BadLocalFin(c, o) ==
    CASE o.rd = "err" -> write_rst(c)
      [] o.rd = "eof" ->
           [(IF c.tcp.forward # EmptyQueue THEN write_rst(c)
             ELSE [write_fin_ack(c) EXCEPT
                     !.tcp.state = IF c.tcp.state = "ESTABLISHED" THEN "FIN_WAIT1"
                                   ELSE "LAST_ACK"])
              EXCEPT !.tcp.socket = FALSE, !.tcp.registered = FALSE]
      [] o.rd = "data" ->
           [write_data([c EXCEPT !.srv.toRead = @ - o.n], o.n) EXCEPT
              !.tcp.local_seq = @ + o.n, !.tcp.unconfirmed = @ + 1]

\* End of the server's stream or an error, or data for the app.
read_socket(c, o) ==
    CASE o.rd = "err" -> write_rst(c)
      [] o.rd = "eof" ->
           LET s == c.tcp.state
               d == IF c.tcp.forward # EmptyQueue THEN write_rst(c)
                    ELSE IF c.writes = 0 THEN write_fin_ack(c)
                    ELSE [write_fin_ack(c) EXCEPT
                            !.tcp.local_seq = @ + 1,
                            !.tcp.state = IF s = "ESTABLISHED" THEN "FIN_WAIT1"
                                          ELSE "LAST_ACK"]
           IN [d EXCEPT !.tcp.socket = FALSE, !.tcp.registered = FALSE]
      [] o.rd = "data" ->
           LET d == [c EXCEPT !.srv.toRead = @ - o.n]
           IN IF c.writes = 0 THEN write_data(d, o.n)
              ELSE [write_data(d, o.n) EXCEPT !.tcp.local_seq = @ + o.n,
                                              !.tcp.unconfirmed = @ + 1]

ReadOutcome(c, o) ==
    CASE o.rd = "err" -> c.srv.err
      [] o.rd = "eof" -> ~c.srv.err /\ c.srv.toRead = 0 /\ c.srv.eof
      [] o.rd = "data" -> /\ ~c.srv.err
                          /\ o.n \in 1..c.srv.toRead
                          /\ o.n <= get_send_window(c.tcp) /\ o.n <= Mss

\* Mutant: the FIN behind the queued data is not confirmed.
BadNoConfirm(c, evs, o) ==
    LET fwd == "OUT" \in evs /\ (o.run # {} \/ o.part > 0)
        d == IF "OUT" \in evs THEN forward_data(c, o) ELSE c
        e == [d EXCEPT !.tcp.recv_window = get_receive_window(d)]
    IN IF fwd \/ (c.tcp.recv_window = 0 /\ e.tcp.recv_window > 0) THEN write_ack(e) ELSE e

\* Every state but LISTEN: forward to the server, acknowledge, read from it.
forward_and_ack(c, evs, o) ==
    LET fwd == "OUT" \in evs /\ (o.run # {} \/ o.part > 0)
        d == IF "OUT" \in evs THEN forward_data(c, o) ELSE c
        e == [d EXCEPT !.tcp.recv_window = get_receive_window(d)]
        confirmFin == /\ fwd /\ e.tcp.forward = EmptyQueue
                      /\ e.tcp.state = "CLOSE_WAIT"
    IN IF fwd \/ (c.tcp.recv_window = 0 /\ e.tcp.recv_window > 0)
       THEN write_ack([e EXCEPT !.tcp.remote_seq = @ + (IF confirmFin THEN 1 ELSE 0)])
       ELSE e

reads(c, evs) ==
    /\ c.tcp.state \in {"ESTABLISHED", "CLOSE_WAIT"}
    /\ "IN" \in evs /\ get_send_window(c.tcp) > 0

\* LISTEN: the socket is connected, or the proxy answered.
socks_reply(c, o) ==
    LET fail == write_rst([c EXCEPT !.tcp.socks5 = "FAILED"])
        to(s) == [c EXCEPT !.tcp.socks5 = s]
    IN CASE o.rep = "error" -> write_rst(c)
         [] o.rep = "bad" -> fail
         [] o.rep = "auth" -> IF c.tcp.socks5 = "HELLO" THEN to("AUTH") ELSE fail
         [] o.rep = "ok" -> IF c.tcp.socks5 = "CONNECT" THEN to("CONNECTED")
                            ELSE to("CONNECT")

connect(c, evs, o) ==
    LET d == IF c.tcp.socks5 = "NONE"
             THEN IF "OUT" \in evs
                  THEN [c EXCEPT !.tcp.socks5 = IF Socks5 THEN "HELLO" ELSE "CONNECTED"]
                  ELSE c
             ELSE IF "IN" \in evs
                  THEN socks_reply([c EXCEPT !.srv.socks = "idle"], o)
                  ELSE c
        syn == [d EXCEPT !.tcp.remote_seq = @ + 1]
    IN CASE d.tcp.socks5 \in {"HELLO", "AUTH", "CONNECT"} ->
              IF o.sok THEN [d EXCEPT !.srv.socks = "asked"]
              ELSE write_rst([d EXCEPT !.srv.err = TRUE])
         [] d.tcp.socks5 = "CONNECTED" ->
              IF d.writes = 0 THEN write_syn_ack(syn)
              ELSE [write_syn_ack(syn) EXCEPT !.tcp.local_seq = @ + 1,
                                              !.tcp.state = "SYN_RECV"]
         [] OTHER -> d

check_tcp_socket(c, evs, o) ==
    IF "ERR" \in evs THEN write_rst(c)
    ELSE IF c.tcp.state = "LISTEN" THEN connect(c, evs, o)
    ELSE LET d == forward_and_ack(c, evs, o)
         IN IF reads(d, evs) THEN read_socket(d, o) ELSE d

-----------------------------------------------------------------------------
(* handle_tcp: a packet of the app, p = [flags, seq, ack, len, win].       *)

\* Mutant: data that is already forwarded is queued again.
BadOldData(t, p) ==
    [t EXCEPT !.forward = [q \in DOMAIN @ \union {p.seq} |->
                             IF q \in DOMAIN @ THEN @[q] ELSE [len |-> p.len, sent |-> 0]]]

\* Mutant: a repeated segment replaces the queued one and what was sent of it.
BadRequeue(t, p) ==
    IF p.seq < t.remote_seq THEN t
    ELSE [t EXCEPT !.forward = [q \in DOMAIN @ \union {p.seq} |->
                                  IF q = p.seq THEN [len |-> p.len, sent |-> 0] ELSE @[q]]]

queue_tcp(t, p) ==
    IF p.seq < t.remote_seq THEN t
    ELSE LET f == t.forward
             seg == IF p.seq \in DOMAIN f
                    THEN [f[p.seq] EXCEPT !.len = p.len]
                    ELSE [len |-> p.len, sent |-> 0]
         IN [t EXCEPT !.forward = [q \in DOMAIN f \union {p.seq} |->
                                     IF q = p.seq THEN seg ELSE f[q]]]

\* Mutant: the FIN is counted and acknowledged although data is still queued.
BadFin(c) ==
    IF c.tcp.state \in {"ESTABLISHED", "FIN_WAIT1"}
    THEN [write_ack([c EXCEPT !.tcp.remote_seq = @ + 1]) EXCEPT
            !.tcp.state = IF c.tcp.state = "ESTABLISHED" THEN "CLOSE_WAIT" ELSE "CLOSE"]
    ELSE c

handle_fin(c) ==
    LET s == c.tcp.state
        counted == [c EXCEPT !.tcp.remote_seq = @ + 1]
        to(t) == IF c.writes = 0 THEN write_ack(counted)
                 ELSE [write_ack(counted) EXCEPT !.tcp.state = t]
    IN CASE s = "ESTABLISHED" ->
              IF c.tcp.forward = EmptyQueue THEN to("CLOSE_WAIT")
              ELSE [c EXCEPT !.tcp.state = "CLOSE_WAIT"]
         [] s = "FIN_WAIT1" -> to("CLOSE")
         [] OTHER -> c

handle_ack(c, p) ==
    LET s == c.tcp.state
    IN [c EXCEPT !.tcp.acked = p.ack,
                 !.tcp.state = IF s = "SYN_RECV" THEN "ESTABLISHED"
                               ELSE IF s = "LAST_ACK" THEN "CLOSING" ELSE s]

\* Mutant: a reset frees the session at once, under the events of the batch.
BadReset(c, p) ==
    CASE "RST" \in p.flags -> [c EXCEPT !.tcp = NoSession]
      [] "RST" \notin p.flags /\ ("ACK" \notin p.flags \/ p.ack = c.tcp.local_seq) ->
           IF "SYN" \in p.flags THEN c
           ELSE IF "FIN" \in p.flags THEN handle_fin(c)
           ELSE IF "ACK" \in p.flags THEN handle_ack(c, p) ELSE c
      [] OTHER -> c

\* Mutant: an acknowledgment of less than everything resets the session.
BadPreviousAck(c, p) ==
    IF "RST" \in p.flags THEN [c EXCEPT !.tcp.state = "CLOSING"]
    ELSE IF "ACK" \in p.flags /\ p.ack # c.tcp.local_seq THEN write_rst(c)
    ELSE IF "SYN" \in p.flags THEN c
    ELSE IF "FIN" \in p.flags THEN handle_fin(c)
    ELSE IF "ACK" \in p.flags THEN handle_ack(c, p) ELSE c

\* The header of a packet of a live session, after its data was queued.
handle_flags(c, p) ==
    CASE "RST" \in p.flags -> [c EXCEPT !.tcp.state = "CLOSING"]
      [] "RST" \notin p.flags /\ ("ACK" \notin p.flags \/ p.ack = c.tcp.local_seq) ->
           IF "SYN" \in p.flags THEN c
           ELSE IF "FIN" \in p.flags THEN handle_fin(c)
           ELSE IF "ACK" \in p.flags THEN handle_ack(c, p) ELSE c
      [] OTHER ->
           IF p.ack + 1 = c.tcp.local_seq THEN c
           ELSE IF p.ack > c.tcp.local_seq THEN write_rst(c)
           ELSE [c EXCEPT !.tcp.acked = IF p.ack <= @ THEN @ ELSE p.ack]

\* Mutant: packets without data are queued, too.
BadEmptyData(c, p) ==
    LET d == [c EXCEPT !.tcp.send_window = p.win, !.tcp.unconfirmed = 0]
    IN IF c.tcp.state \in {"CLOSING", "CLOSE"} THEN write_rst(c)
       ELSE IF ~c.tcp.socket \/ c.tcp.state = "CLOSE_WAIT" THEN write_rst(d)
       ELSE handle_flags([d EXCEPT !.tcp = queue_tcp(@, p)], p)

handle_session(c, p) ==
    LET d == [c EXCEPT !.tcp.send_window = p.win, !.tcp.unconfirmed = 0]
    IN IF c.tcp.state \in {"CLOSING", "CLOSE"} THEN write_rst(c)
       ELSE IF p.len > 0 /\ (~c.tcp.socket \/ c.tcp.state = "CLOSE_WAIT")
       THEN write_rst(d)
       ELSE handle_flags(IF p.len > 0 THEN [d EXCEPT !.tcp = queue_tcp(@, p)] ELSE d, p)

NewServer == [conn |-> "connecting", next |-> RemoteStart + 1, intact |-> TRUE,
              unsent |-> 0, toRead |-> 0, sent |-> 0, eof |-> FALSE,
              err |-> FALSE, socks |-> "idle"]

new_session(p) ==
    [state |-> "LISTEN", socks5 |-> "NONE", socket |-> TRUE,
     events |-> {"OUT", "ERR"}, registered |-> TRUE,
     local_seq |-> LocalStart, remote_seq |-> p.seq, acked |-> 0,
     forward |-> IF p.len = 0 THEN EmptyQueue
                 ELSE [q \in {p.seq} |-> [len |-> p.len, sent |-> 0]],
     send_window |-> p.win, unconfirmed |-> 0, recv_window |-> 0]

\* No session: open decides whether is_address_allowed and open_tcp_socket
\* both succeed.
handle_unknown(c, p, open) ==
    LET d == [c EXCEPT !.tcp = new_session(p), !.srv = NewServer]
    IN  IF "SYN" \notin p.flags
        THEN [write_rst([c EXCEPT !.tcp.local_seq = p.ack]) EXCEPT !.tcp = c.tcp]
        ELSE IF open THEN [d EXCEPT !.tcp.recv_window = get_receive_window(d)]
        ELSE c

handle_tcp(c, p, open) ==
    IF c.tcp.state = "NONE" THEN handle_unknown(c, p, open)
    ELSE handle_session(c, p)

-----------------------------------------------------------------------------
(* The session's part of the loop of handle_events.                        *)

\* Mutant: a half-closed session does not wait for its socket to be writable.
BadInterest(c) ==
    LET t == c.tcp
    IN CASE t.state = "LISTEN" ->
              IF t.socks5 = "NONE" THEN {"ERR", "OUT"} ELSE {"ERR", "IN"}
         [] t.state \in {"ESTABLISHED", "CLOSE_WAIT"} ->
              {"ERR"}
              \union (IF get_send_window(t) > 0 THEN {"IN"} ELSE {})
              \union (IF t.state = "ESTABLISHED" /\ t.forward # EmptyQueue
                      THEN {"OUT"} ELSE {})
         [] OTHER -> {"ERR"}

\* The events to wait for.
interest(c) ==
    LET t == c.tcp
    IN CASE t.state = "LISTEN" ->
              IF t.socks5 = "NONE" THEN {"ERR", "OUT"} ELSE {"ERR", "IN"}
         [] t.state \in {"ESTABLISHED", "CLOSE_WAIT"} ->
              {"ERR"}
              \union (IF get_send_window(t) > 0 THEN {"IN"} ELSE {})
              \union (IF \E q \in DOMAIN t.forward :
                            Sendable(t.forward, q, t.remote_seq, get_receive_buffer(c))
                      THEN {"OUT"} ELSE {})
         [] OTHER -> {"ERR"}

\* The "keep alive to update send window": an ACK one below remote_seq.
keep_alive(c) ==
    [write_ack([c EXCEPT !.tcp.remote_seq = @ - 1]) EXCEPT !.tcp.remote_seq = @ + 1]

monitor_tcp_session(c, probe) ==
    LET t == c.tcp
        evs == interest(c)
        d == IF /\ probe /\ t.state \in {"ESTABLISHED", "CLOSE_WAIT"}
                /\ get_send_window(t) = 0
             THEN keep_alive(c) ELSE c
    IN IF ~t.socket THEN c
       ELSE IF evs = t.events THEN d
       ELSE [d EXCEPT !.tcp.events = evs,
                      !.tcp.state = IF t.registered THEN @ ELSE "CLOSING"]

\* Mutant: a closing session without a socket is never closed.
BadCheck(c, idle, gone) ==
    LET d == IF idle /\ c.tcp.state \in Live
             THEN IF c.tcp.state = "LISTEN" THEN [c EXCEPT !.tcp.state = "CLOSING"]
                  ELSE write_rst(c)
             ELSE c
    IN IF c.tcp.state = "CLOSE" /\ gone THEN [c EXCEPT !.tcp = NoSession]
       ELSE IF d.tcp.state # "CLOSING" \/ ~d.tcp.socket THEN d
       ELSE [d EXCEPT !.tcp.socket = FALSE, !.tcp.registered = FALSE,
                      !.tcp.state = "CLOSE"]

\* idle: the timeout of the session's state has passed; gone: so has
\* TCP_KEEP_TIMEOUT since it was closed.
check_tcp_session(c, idle, gone) ==
    LET d == IF idle /\ c.tcp.state \in Live
             THEN IF c.tcp.state = "LISTEN" THEN [c EXCEPT !.tcp.state = "CLOSING"]
                  ELSE write_rst(c)
             ELSE c
    IN IF c.tcp.state = "CLOSE" /\ gone THEN [c EXCEPT !.tcp = NoSession]
       ELSE IF d.tcp.state # "CLOSING" THEN d
       ELSE [d EXCEPT !.tcp.socket = FALSE, !.tcp.registered = FALSE,
                      !.tcp.state = "CLOSE"]

MaxWrites == 3   \* tun writes of one handler, at most
Writes == IF "tunwrite" \in Faults THEN 0..MaxWrites ELSE {MaxWrites}
May(fault) == IF fault \in Faults THEN BOOLEAN ELSE {FALSE}

Context(w) == [tcp |-> tcp, app |-> app, srv |-> srv, writes |-> w]
Becomes(c) == tcp' = c.tcp /\ app' = c.app /\ srv' = c.srv

Idle == [pc |-> "top", tun |-> 0, evs |-> {}]
AfterBatch(l) == IF l.tun = 0 /\ l.evs = {} THEN Idle ELSE l

\* Top of the loop: monitor the session, check it unless the last check was
\* less than EPOLL_MIN_CHECK ago.  A timeout shrinks as the table fills, down to
\* nothing; TCP_KEEP_TIMEOUT does not, and is too long for a packet to wait in the
\* tun meanwhile.
Monitor(probe, check, idle, gone) ==
    /\ loop.pc = "top"
    /\ gone => up = <<>>
    /\ \E c \in {monitor_tcp_session(Context(w), probe) : w \in Writes} :
         Becomes(IF check THEN check_tcp_session(c, idle, gone) ELSE c)
    /\ loop' = [loop EXCEPT !.pc = "wait"]
    /\ UNCHANGED up

\* The events that the kernel reports on the socket.
Ready ==
    LET hasInput == IF tcp.state = "LISTEN" THEN srv.socks = "replied"
                    ELSE srv.toRead > 0 \/ srv.eof
    IN (IF srv.err THEN {"ERR"} ELSE {})
       \union (IF srv.conn = "connected" /\ hasInput THEN {"IN"} ELSE {})
       \union (IF srv.conn = "connected" /\ srv.unsent < SndBuf THEN {"OUT"} ELSE {})

\* epoll_wait
Wait ==
    /\ loop.pc = "wait"
    /\ loop' = AfterBatch(
          [pc |-> "batch",
           tun |-> IF up = <<>> THEN 0 ELSE TunYield,
           evs |-> IF tcp.socket /\ tcp.registered THEN tcp.events \intersect Ready
                   ELSE {}])
    /\ UNCHANGED <<tcp, up, app, srv>>

\* check_tun: one packet; the inner loop ends when the tun is drained.
HandleTun(open) ==
    /\ loop.pc = "batch" /\ loop.tun > 0 /\ up # <<>>
    /\ \E c \in {handle_tcp(Context(w), Head(up), open) : w \in Writes} : Becomes(c)
    /\ up' = Tail(up)
    /\ loop' = AfterBatch([loop EXCEPT !.tun = IF Len(up) = 1 THEN 0 ELSE @ - 1])

\* The answers of the kernel and of the proxy that the code tells apart.
Nothing == [run |-> {}, end |-> tcp.remote_seq, part |-> 0, serr |-> FALSE,
            rd |-> "eof", n |-> 1, rep |-> "ok", sok |-> TRUE]

ConnectOutcomes ==
    [run : {{}}, end : {tcp.remote_seq}, part : {0}, serr : {FALSE},
     rd : {"eof"}, n : {1},
     rep : {"ok", "auth", "bad"} \union (IF srv.err THEN {"error"} ELSE {}),
     sok : {TRUE} \union {~e : e \in May("server")}]

SendOutcomes(c, evs) ==
    LET f == c.tcp.forward
    IN IF "OUT" \notin evs THEN {Nothing}
       ELSE {o \in [run : SUBSET DOMAIN f,
                    end : {c.tcp.remote_seq} \union {SegEnd(f, q) : q \in DOMAIN f},
                    part : 0..(2 * SegLen - 1), serr : May("server"),
                    rd : {"eof"}, n : {1}, rep : {"ok"}, sok : {TRUE}] :
               SendOutcome(c, o)}

ReadOutcomes(c, evs, o) ==
    LET d == forward_and_ack(c, evs, o)
    IN IF ~reads(d, evs) THEN {o}
       ELSE {x \in [run : {o.run}, end : {o.end}, part : {o.part}, serr : {o.serr},
                    rd : {"data", "eof", "err"}, n : 1..Mss, rep : {"ok"}, sok : {TRUE}] :
               ReadOutcome(d, x)}

Outcomes(c, evs) ==
    IF "ERR" \in evs THEN {Nothing}
    ELSE IF c.tcp.state = "LISTEN" THEN ConnectOutcomes
    ELSE UNION {ReadOutcomes(c, evs, o) : o \in SendOutcomes(c, evs)}

\* The socket's event comes before or after the packets of the tun.
HandleSocket ==
    /\ loop.pc = "batch" /\ loop.evs # {} /\ loop.tun \in {0, TunYield}
    /\ \E w \in Writes :
         \E c \in {check_tcp_socket(Context(w), loop.evs, o) :
                      o \in Outcomes(Context(w), loop.evs)} : Becomes(c)
    /\ loop' = AfterBatch([loop EXCEPT !.evs = {}])
    /\ UNCHANGED up

\* The tunnel is restarted (ServiceSinkhole.reload): handle_events ends and
\* runs again with the sessions of the context and a new epoll instance.
check_allowed(c, allowed) ==
    IF c.tcp.state \in Live /\ ~allowed THEN write_rst(c) ELSE c

Reload(allowed) ==
    /\ "reload" \in Faults /\ loop.pc = "top"
    /\ \E w \in Writes :
         Becomes([check_allowed(Context(w), allowed) EXCEPT !.tcp.registered = FALSE])
    /\ UNCHANGED <<loop, up>>

\* The tunnel is stopped (jni_clear): every session is closed and freed.
clear ==
    /\ "reload" \in Faults /\ loop.pc = "top" /\ tcp.state # "NONE"
    /\ tcp' = NoSession
    /\ UNCHANGED <<loop, up, app, srv>>

-----------------------------------------------------------------------------
(* The app *)

DataEnd(a) == IF a.fin THEN a.snd_nxt - 1 ELSE a.snd_nxt

Emit(a, flags, seq, len) ==
    /\ Len(up) < UpBound
    /\ up' = Append(up, [flags |-> flags, seq |-> seq, ack |-> a.rcv_nxt,
                          len |-> len, win |-> AppBuf - a.unread])
    /\ app' = [a EXCEPT !.ackDue = FALSE]
    /\ UNCHANGED <<tcp, loop, srv>>

\* Data in the SYN are sent again if the SYN-ACK does not acknowledge them.
AppConnect ==
    /\ app.st = "CLOSED"
    /\ \E len \in {0} \union (IF "syndata" \in Faults THEN {SegLen} ELSE {}) :
         Emit([app EXCEPT !.st = "SYN_SENT", !.snd_nxt = @ + 1],
              {"SYN"}, RemoteStart, len)

AppResendSyn ==
    /\ Faults \intersect {"retransmit", "forbid", "tunwrite"} # {}
    /\ app.st = "SYN_SENT" /\ Emit(app, {"SYN"}, RemoteStart, 0)

AppSend(fin) ==
    /\ app.st = "EST" /\ ~app.fin /\ app.snd_nxt + SegLen <= app.snd_una + app.wnd
    /\ app.snd_nxt < RemoteStart + 1 + Segs * SegLen
    /\ Emit([app EXCEPT !.fin = fin, !.snd_nxt = @ + SegLen + (IF fin THEN 1 ELSE 0)],
            IF fin THEN {"ACK", "FIN"} ELSE {"ACK"}, app.snd_nxt, SegLen)

AppAck ==
    /\ app.st = "EST" /\ app.ackDue /\ Emit(app, {"ACK"}, app.snd_nxt, 0)

AppFin ==
    /\ app.st = "EST" /\ ~app.fin
    /\ Emit([app EXCEPT !.fin = TRUE, !.snd_nxt = @ + 1], {"ACK", "FIN"}, app.snd_nxt, 0)

\* The retransmission timer, at any time: what lies behind the last acknowledgment,
\* a segment, perhaps merged with the next one, and the FIN with the last one.
AppResend(k) ==
    /\ "retransmit" \in Faults /\ app.st = "EST"
    /\ k = 2 => "repack" \in Faults
    /\ app.snd_una + k * SegLen <= DataEnd(app)
    /\ Emit(app, IF app.fin /\ app.snd_una + k * SegLen = DataEnd(app)
                 THEN {"ACK", "FIN"} ELSE {"ACK"}, app.snd_una, k * SegLen)

AppResendFin ==
    /\ app.st = "EST" /\ app.fin /\ app.snd_una = DataEnd(app)
    /\ Emit(app, {"ACK", "FIN"}, app.snd_una, 0)

\* The application reads; the larger window is announced.
AppRead ==
    /\ app.unread > 0
    /\ app' = [app EXCEPT !.unread = 0, !.ackDue = TRUE]
    /\ UNCHANGED <<tcp, loop, up, srv>>

AppAbort ==
    /\ "abort" \in Faults /\ app.st \in {"SYN_SENT", "EST"}
    /\ Emit([app EXCEPT !.st = "ABORTED"], {"RST", "ACK"}, app.snd_nxt, 0)

(* The server *)

Server(s) == tcp.socket /\ srv' = s /\ UNCHANGED <<tcp, loop, up, app>>

ServerConnect ==
    srv.conn = "connecting" /\ ~srv.err /\ Server([srv EXCEPT !.conn = "connected"])

ServerSend ==
    /\ srv.conn = "connected" /\ ~srv.eof /\ srv.sent < ServerBytes
    /\ tcp.state # "LISTEN"
    /\ Server([srv EXCEPT !.sent = @ + 1, !.toRead = @ + 1])

ServerClose ==
    /\ srv.conn = "connected" /\ ~srv.eof /\ tcp.state # "LISTEN"
    /\ Server([srv EXCEPT !.eof = TRUE])

ServerDrain == srv.unsent > 0 /\ Server([srv EXCEPT !.unsent = 0])

ServerFail == "server" \in Faults /\ ~srv.err /\ Server([srv EXCEPT !.err = TRUE])

ProxyReply == srv.socks = "asked" /\ Server([srv EXCEPT !.socks = "replied"])

-----------------------------------------------------------------------------

Init ==
    /\ tcp = NoSession /\ loop = Idle /\ up = <<>>
    /\ app = NoApp /\ srv = NewServer

MonitorStep == \E probe, check \in BOOLEAN, idle \in May("idle"), gone \in BOOLEAN :
                  Monitor(probe, check, idle, gone)

TunStep == \E open \in {TRUE} \union {~x : x \in May("forbid")} : HandleTun(open)

Engine == \/ MonitorStep \/ Wait \/ TunStep \/ HandleSocket
          \/ \E a \in {TRUE} \union {~x : x \in May("forbid")} : Reload(a)
          \/ clear

App == \/ AppConnect \/ AppResendSyn \/ \E fin \in BOOLEAN : AppSend(fin)
       \/ AppAck \/ AppFin \/ \E k \in 1..2 : AppResend(k)
       \/ AppResendFin \/ AppRead \/ AppAbort

Peer == \/ ServerConnect \/ ServerSend \/ ServerClose \/ ServerDrain
        \/ ServerFail \/ ProxyReply

Next == Engine \/ App \/ Peer

Spec == Init /\ [][Next]_vars

\* The thread keeps running its loop, handling what epoll_wait reported; the
\* session check is made again and again, and finds the timeouts passed once
\* the session is quiet; the app acknowledges, reads, and retransmits a FIN
\* that is not acknowledged; the server reads.
LoopRuns ==
    /\ WF_loop(loop.pc = "top" /\ loop' = [loop EXCEPT !.pc = "wait"])
    /\ WF_vars(Wait)
    /\ WF_loop(loop.evs # {} /\ loop' = AfterBatch([loop EXCEPT !.evs = {}]))
    /\ WF_loop(/\ loop.tun > 0
               /\ \E n \in {0, loop.tun - 1} : loop' = AfterBatch([loop EXCEPT !.tun = n]))

TimeoutStep ==
    /\ tcp.state \in {"FIN_WAIT1", "LAST_ACK", "CLOSING", "CLOSE"}
    /\ Monitor(FALSE, TRUE, TRUE, TRUE)

Fairness ==
    /\ LoopRuns /\ SF_vars(TimeoutStep)
    /\ WF_vars(AppAck) /\ WF_vars(AppRead) /\ WF_vars(AppResendFin) /\ WF_vars(ServerDrain)

FairSpec == Spec /\ Fairness

-----------------------------------------------------------------------------
(* Properties *)

Segment == [len : Nat \ {0}, sent : Nat]
Queue(f) == /\ DOMAIN f \subseteq Nat /\ IsFiniteSet(DOMAIN f)
            /\ f \in [DOMAIN f -> Segment]

\* The shape and the values of the session, the loop, the packets and the peers.
SessionOK(t) ==
    /\ t = [state |-> t.state, socks5 |-> t.socks5, socket |-> t.socket,
            events |-> t.events, registered |-> t.registered,
            local_seq |-> t.local_seq, remote_seq |-> t.remote_seq,
            acked |-> t.acked, forward |-> t.forward,
            send_window |-> t.send_window, unconfirmed |-> t.unconfirmed,
            recv_window |-> t.recv_window]
    /\ t.state \in States /\ t.socks5 \in Socks
    /\ t.socket \in BOOLEAN /\ t.registered \in BOOLEAN /\ t.recv_window \in Nat
    /\ t.events \subseteq Events
    /\ t.local_seq \in Nat /\ t.remote_seq \in Int /\ t.acked \in Nat
    /\ t.unconfirmed \in Nat /\ t.send_window \in Int
    /\ Queue(t.forward)

AppType == [st : {"CLOSED", "SYN_SENT", "EST", "RESET", "ABORTED"},
            snd_una : Nat, snd_nxt : Nat, fin : BOOLEAN, rcv_nxt : Nat,
            unread : Nat, wnd : Nat, ackDue : BOOLEAN]
ServerType == [conn : {"connecting", "connected"}, next : Int, intact : BOOLEAN,
               unsent : Int, toRead : Int, sent : Nat, eof : BOOLEAN,
               err : BOOLEAN, socks : {"idle", "asked", "replied"}]
Packet == [flags : SUBSET {"SYN", "ACK", "FIN", "RST"}, seq : Nat, ack : Nat,
           len : Nat, win : Int]
LoopType == [pc : {"top", "wait", "batch"}, tun : 0..TunYield, evs : SUBSET Events]

TypeOK ==
    /\ SessionOK(tcp) /\ app \in AppType /\ srv \in ServerType
    /\ loop \in LoopType /\ up \in Seq(Packet)

\* The socket is open exactly in the states in which tcp.c uses it, and only
\* an open socket is in the epoll set: check_tcp_session frees a session in
\* CLOSE without closing anything, and monitor_tcp_session, handle_tcp and
\* check_tcp_socket pass s->socket to the kernel without looking at it.
SocketMatchesState ==
    /\ tcp.state \in {"LISTEN", "SYN_RECV", "ESTABLISHED", "CLOSE_WAIT"} => tcp.socket
    /\ tcp.state \in {"FIN_WAIT1", "LAST_ACK", "CLOSE", "NONE"} => ~tcp.socket
    /\ tcp.registered => tcp.socket

\* An event that waits in the batch of epoll_wait (its data.ptr is the session)
\* belongs to a session that still exists and has its socket, whatever the
\* packets handled earlier in the same batch did to it.
EventsHaveSession == loop.evs # {} => tcp.state # "NONE" /\ tcp.socket

\* What check_tcp_socket sends to the server is the app's stream: no byte is
\* skipped, repeated or reordered by retransmissions and partial sends.
ServerStreamIntact == srv.intact

\* remote_seq and the queue account for every byte given to the server, the
\* SYN and the FIN: the FIN is counted once, and only behind all the data.
RemoteSeqCounts ==
    LET t == tcp
        sent == IF t.remote_seq \in DOMAIN t.forward
                THEN t.forward[t.remote_seq].sent ELSE 0
    IN /\ t.state \in {"SYN_RECV", "ESTABLISHED"} => srv.next = t.remote_seq + sent
       /\ t.state = "CLOSE_WAIT" =>
            srv.next = IF t.forward = EmptyQueue THEN t.remote_seq - 1
                       ELSE t.remote_seq + sent
       /\ t.state = "FIN_WAIT1" => srv.next = t.remote_seq /\ t.forward = EmptyQueue
       /\ t.state = "LAST_ACK" => srv.next + 1 = t.remote_seq /\ t.forward = EmptyQueue

\* What the app was told to be delivered has been given to the server: an
\* acknowledgment never runs ahead of send(), and never covers a FIN before
\* the data in front of it.
AckedIsForwarded ==
    app.st = "EST" /\ tcp.state \in Live =>
        \/ app.snd_una <= srv.next
        \/ app.fin /\ app.snd_una = app.snd_nxt /\ srv.next = DataEnd(app)

\* local_seq is the app's rcv_nxt: every byte read from the server, and the
\* FIN, was written to the tun once, in order, with its own number.
AppInSync ==
    app.st = "EST" /\ tcp.state \in Live \ {"LISTEN"} =>
        /\ app.rcv_nxt = tcp.local_seq
        /\ tcp.local_seq = LocalStart + 1 + srv.sent - srv.toRead
                           + (IF tcp.state \in {"FIN_WAIT1", "LAST_ACK"} THEN 1 ELSE 0)

\* get_send_window keeps the engine within the buffer of the app, with packets
\* in flight, late acknowledgments and an app that does not read.
WindowRespected == app.unread <= AppBuf

\* queue_tcp takes whatever comes, without a limit of its own: the windows that were
\* announced, however old, whatever was forwarded and sent since and however the
\* scale cut them, keep what is queued and unsent within the buffer of the socket.
QueueBounded ==
    tcp.state \in Live => ToForward(tcp.forward) + srv.unsent <= SndBuf

\* A session that ends leaves no app waiting for its connection: the app was
\* reset (the reset acknowledges its SYN if it is not connected yet), reset the
\* connection itself, or both directions were closed.
AppLearnsOfEnd ==
    tcp.state = "CLOSING" => \/ app.st \in {"RESET", "ABORTED"}
                             \/ app.fin /\ app.rcv_nxt = tcp.local_seq /\ srv.eof

\* A session ends only because the server or the app ended or broke the
\* connection, never by the engine's own doing.
OnlyPeersEnd ==
    tcp.state \in {"CLOSING", "CLOSE"} => srv.eof \/ srv.err \/ app.st = "ABORTED"

\* No queued segment lies below remote_seq: such a segment is never the next to
\* send and hides the ones behind it, so nothing would be forwarded again.
QueueNotBlocked ==
    tcp.state \in Live => \A q \in DOMAIN tcp.forward : q >= tcp.remote_seq

\* A session only moves towards its end: one that is closing, or has lost its
\* socket to the server's EOF, never becomes usable again, and a packet for a
\* closed one, which is answered by write_rst, does not restart its closing (and
\* TCP_KEEP_TIMEOUT with it).
NeverReopens ==
    [][/\ tcp.state \in {"FIN_WAIT1", "LAST_ACK", "CLOSING"} =>
            tcp'.state \notin {"LISTEN", "SYN_RECV", "ESTABLISHED", "CLOSE_WAIT"}
       /\ tcp.state = "CLOSE" => tcp'.state \in {"CLOSE", "NONE"}]_vars

\* The phases that the session table tells apart (session.c counts the states
\* other than CLOSING and CLOSE).
Phase(t) == CASE t.state = "NONE" -> "none"
              [] t.state = "CLOSING" -> "closing"
              [] t.state = "CLOSE" -> "closed"
              [] OTHER -> "active"

Life == INSTANCE SessionLife WITH phase <- Phase(tcp), sock <- tcp.socket

\* The TCP session keeps the promises the session table relies on: it is freed
\* only after it was closed, its socket is closed before that and never used
\* again, and packets and socket events never skip a phase of its life.
ImplementsLife == Life!Spec

\* "Always forward data": what is queued for the server leaves the queue,
\* unless the session ends first.
QueueDrains ==
    /\ tcp.state \in {"ESTABLISHED", "CLOSE_WAIT"} /\ tcp.forward # EmptyQueue
    ~> tcp.forward = EmptyQueue \/ tcp.state \notin {"ESTABLISHED", "CLOSE_WAIT"}

\* A session whose socket is closed or that was reset does not linger: the
\* check closes it and frees it, whatever the app still sends.
EndedIsFreed ==
    tcp.state \in {"FIN_WAIT1", "LAST_ACK", "CLOSING", "CLOSE"} ~> tcp.state = "NONE"

=============================================================================
