# Inspector: verification of its packet relay, VPN service and console

Inspector is an Xposed module for Android that inspects apps: it hooks and dumps
them, gives a console to a client on a PC, and captures and relays the network
traffic of the inspected app through a VPN service. This directory models the
relay, the part of the program that runs on its own for hours and talks to two peers
that it does not control, and the three parts around it whose threads share state
without a common lock: the VPN service, the TLS proxy and the console server.

Paths below are relative to `src/app/src/main/`.

## The system

| component | source | state | operations |
|---|---|---|---|
| TCP relay | `jni/netguard/tcp.c` | per session: state, sequence numbers of both directions, queue of segments to forward, windows, socket, epoll interest | packet from the tun, socket event, monitor, timeout check, reset |
| session table and event loop | `jni/netguard/session.c`, `ip.c` | list of sessions, count, batch of epoll events | count and monitor, check and free, wait, dispatch, limit, restart, clear |
| UDP relay | `jni/netguard/udp.c` | per session: state, time of last use, socket | packet, block, socket event, check |
| ICMP relay | `jni/netguard/icmp.c` | per session: identifier, stop flag, time, socket | packet, socket event, check |
| JNI glue | `jni/netguard/netguard.c` | context: pipe, lock, stopping flag | run, stop, clear, calls to Java |
| parsers and writers | `jni/netguard/dns.c`, `dhcp.c`, `pcap.c`, `util.c` | none that sessions depend on | |
| VPN service | `java/eu/faircode/netguard/ServiceSinkhole.java` | the tun descriptor, the tunnel thread, rules, clients | start, reload, stop, callbacks |
| TLS proxy | `java/eu/faircode/netguard/SSLProxy.java` | handshake state per server, a proxy per connection | create, connect, forward |
| console server | `java/com/fuzhu8/inspector/advisor/AbstractInspector.java` | the connected console, a bounded cache of messages | accept, write, flush, close |
| packet capture callbacks | `java/com/fuzhu8/inspector/vpn/InspectorPacketCapture.java` | | formatting for the console |
| Java VPN worker | `java/com/fuzhu8/inspector/vpn/VpnWorker.java` | predecessor of the native engine | |
| hooking, dumping, Lua, vendored libraries | `java/com/fuzhu8/inspector/`, `jni/*` | | |

How they interact. The VPN service opens a tun device and runs the native engine
on a thread of its own (`jni_run`, `handle_events`). The engine reads raw packets
of the app from the tun, asks the service whether an address is allowed
(`is_address_allowed`), opens one protected socket per flow and relays: for TCP
it *is* the other end of the app's connection. A reload stops the thread and runs
it again with the same sessions; a stop also clears them. The TLS proxy is a
local address to which the service redirects a flow. The console server runs in
the inspected process and tells the service which uid to capture.

What is hard. One thread serves all sessions, but its peers act at any time
between its steps: the app's kernel TCP sends, acknowledges, retransmits, merges
segments, closes and resets; the server accepts parts of what is sent, sends,
closes and fails; writes to the tun fail between two updates; an epoll batch holds
pointers to sessions while earlier entries of the batch change them; the count of
sessions is older than the packets it limits; timeouts shrink as the table fills;
the tunnel restarts with the sessions of the previous one. In the Java parts threads
share plain fields: the command thread, the main thread and the threads they start all
read and null `vpn` and `tunnelThread`; a handshake's result is written by a thread that
knows only what was true when it began; two forwarding threads end each other by closing
streams; any hook of the app writes to a console that its own thread opens and closes.
`PROJECT.json` lists
these hazards line by line with the properties that would catch them.

## Modules

| module | what it is |
|---|---|
| `SessionLife` | abstract specification of one entry of the session table: none, active, closing, closed or blocked, and whether it owns a socket |
| `NetGuardTcp` | one TCP session, the loop that drives it, the app's TCP and the server |
| `NetGuardSessions` | the table: many sessions of all protocols, all of UDP and ICMP, the limit, the timeouts, restarts; a TCP session is what `SessionLife` allows |
| `TunnelLife` | abstract specification of the native context: its sessions have one user at a time, it is freed once and last |
| `VpnService` | `ServiceSinkhole`: intents, command thread, `onDestroy`, tunnel threads, and the calls of the native engine that start and stop it |
| `SslProxy` | the handshake table and the proxies of `SSLProxy` |
| `Console` | the console server of `AbstractInspector` |
| `NetGuardTcpProofs`, `NetGuardTcpStreamProofs`, `NetGuardTcpQueueProofs`, `NetGuardTcpAppProofs`, `NetGuardSessionsProofs`, `VpnServiceProofs`, `SslProxyProofs`, `ConsoleProofs` | theorems about the modules they are named after |
| `MCTcp`, `MCSessions`, `MCService`, `MCProxy`, `MCConsole` | instances for TLC |

`NetGuardTcp` implements `SessionLife` (`ImplementsLife`, proved), and
`NetGuardSessions` composes entries that follow it (`FollowsLife`, proved). This
is what justifies the abstraction of TCP in the table. `VpnService` implements
`TunnelLife` (`ImplementsTunnel`, model-checked for the schedules that the run `service`
admits; the code does not ensure them), which is what `NetGuardSessions` takes for granted
when its thread is started, stopped and cleared (`Start`, `Stop`, `clear`).

### NetGuardTcp

`tcp` is `struct ng_session` with its `struct tcp_session`; the fields keep their
names. `loop` is the place of the thread in `handle_events` (top, wait, batch),
the packets it may still read in this iteration (`TUN_YIELD`) and the events of
the session in the batch. `up` is the tun device in the direction of the engine,
`app` and `srv` are the peers.

Every C function is an operator with its name, from a context (session, peers,
number of tun writes that will succeed) to a context; a write that fails in the
middle of a handler is a smaller number of writes. The actions are the steps of
the loop: `Monitor` (`monitor_tcp_session`, then `check_tcp_session` unless the
last check was too recent), `Wait`, `HandleTun` (one packet), `HandleSocket` (the
session's event, before or after the packets), `Reload` and `clear`. The pieces of
`check_tcp_socket` are `connect` and `socks_reply` (LISTEN and SOCKS5),
`forward_data`, `forward_and_ack` and `read_socket`, those of `handle_tcp` are
`new_session`, `handle_unknown`, `handle_session`, `handle_flags`, `handle_fin`,
`handle_ack`.

Abstractions:

- A byte is its sequence number. The server remembers which number it expects and
  whether it always got that one.
- The queue of segments, a sorted list without repetitions, is a function from
  first number to length and bytes sent.
- The iterations of the forwarding loop of one event are one choice: the segments
  sent completely, the bytes of the next one, and whether then `send` failed.
- `recv_window` is kept in bytes and announced in units: `WindowUnit` is
  `1 << recv_scale`, `MaxWindow` the largest number a header holds. In the other direction
  windows are bytes; the SYN's own window, which is not scaled, is taken for scaled by
  `tcp.c:736`, but the acknowledgment that follows replaces it before data is read.
- A segment of which more was sent than it is long (after repackaging) counts nothing in
  `ToForward`, where the C difference would wrap.
- Time is the choice of the check whether the timeout of the state has passed
  (20 seconds and more: not while a packet waits in the tun; in a full table the scaled
  timeouts are shorter than that, which `NetGuardSessions` has).
- Packets written to the tun arrive at once; packets of the app wait in `up`
  in order. `netguard.c:22`: "It is assumed that no packets will get lost and
  that packets arrive in order". Retransmissions are still possible, because the
  engine acknowledges only what the server's socket has taken.
- Sequence numbers do not wrap.

The environment's misbehaviours are switched on by the constant `Faults`.

### NetGuardSessions

`ses` gives the session at every address, `loop` the place of the thread with the
count taken at the top and the events of the batch, `fds` the open descriptors
(an allocation of its own, so that a leak or a double close shows), `reply` the last
echo reply. A packet is its flow. `age` is `now - time` up to a bound. The scale of
the timeouts is computed as in C, where the quotient is truncated. The TCP session
is `AfterPacket`, `check_tcp_socket` and `check_tcp_session`, choices within
`SessionLife`. `Stop`, `Start` and `clear` are a tunnel that ends, is run again with
its sessions and a new epoll set, or is cleared.

### VpnService

`intents` is the queue of the command handler, `field` the three shared fields, `act`
the place of the command thread and of `onDestroy` in `handleIntent`, `start`, `reload`,
`stop`, `stopNative`, `stopVPN` and `startNative`; a step reads or writes one shared
field, since there is no lock. `tun` holds the descriptors by number, `thr` the threads:
for each tunnel either the one that calls `jni_run` or the one that forwards it to a VPN
server with its `StreamForward`. `ctx` is the native context: the `stopping` flag, the
bytes in the pipe that wakes the loop up, whether it has sessions, whether it was freed.
The second read of a field is modelled where the code has one (`ReadThread`, `stopVPN`,
`StartThread`), including the `NullPointerException` that ends a command.

Two faults are schedules that the code does not exclude: `stale`, a server thread that
was stopped but has not ended when the next tunnel is established, and `early`, a
service that is destroyed while the command thread works. Without them the model waits
where the code does not (`startVPN`, `onDestroy`). Left out are an `IOException` of
`close()` that skips `vpn = null` (`:578`) and a server thread that nulls
`vpnServerThread` between the two reads of `stopNative` (`:618`).

### SslProxy

`status` and `context` are the static maps of `SSLProxy` and `ServerCertificate`, `hand`
the handshake threads with the listener that runs on a thread of its own, `engine` the
call of `create` by the engine's thread, `proxy` the proxies: the place of the accepting
thread, the sockets, the exception shared by the forwarding threads, their places, and
what the capture was told (`events`). `create` is called by one thread only, the
engine's, so that its read and its write of the table are one step. Closing a stream
closes its socket; a thread that reads from it then gets an exception. Data is only the
fact that a buffer was forwarded. The fault `race` lets a proxy thread run before the
constructor has assigned `serverSocket`; without it the thread waits for the assignment,
where the code does not. Left out are a `setSoTimeout` that fails, on the new server socket
(`:117`, the socket is then lost) or after the latch (`:178`), and an exception of the
implicit `close()` of a handshake that succeeded (`:74`).

### Console

`console` is the field, a number of the connections in `conn` or 0; `wire` is what each
client was sent, a frame being a head and a body (`writeTo` writes a type, then the
rest). `thr` has the place of every thread in `writeToConsole`, `flushCache`,
`closeConsole` and `run`, `lock` who is in a synchronized method. `offered` remembers
the order in which messages were cached. `capture` is what the VPN service was told.
`closeConsole` is four steps (check, `onClosed`, `close`, null), which a writer does with
the lock and `run` without. An unchecked exception (`Throws`) goes to the caller of a
writer and to the catch of `run`. A body may fail or throw when its head is on the wire
and the socket is in order (`outputBody`: a string too long for `writeUTF`, a file that
cannot be read, a null string). A client is up, full (it reads no more, and a write waits),
left or broken. What a command does is what it prints; `run` prints through the same
`writeToConsole`.

## Runs

| run | instance | shows |
|---|---|---|
| `tcp_retransmit` | 3 segments of 2 bytes, send buffer 4, windows in units of 2, retransmission from the last acknowledgment at any time | the server's stream is the app's (`ServerStreamIntact`); `remote_seq` counts every byte, SYN and FIN once (`RemoteSeqCounts`); nothing is acknowledged before the socket took it (`AckedIsForwarded`); what is queued and unsent fits the buffer of the socket (`QueueBounded`); no segment below `remote_seq` (`QueueNotBlocked`) |
| `tcp_faults` | 1 segment, SOCKS5, all faults but retransmission | socket, state and epoll set agree (`SocketMatchesState`), events of a batch have a session (`EventsHaveSession`), counts survive failing writes, no way back (`NeverReopens`), refinement (`ImplementsLife`) |
| `tcp_peers` | 3 bytes from the server, buffer of the app 2, resets and errors | bytes and FIN for the app are numbered right (`AppInSync`) and fit its buffer (`WindowRespected`); only the peers end a session (`OnlyPeersEnd`) and the app learns of it (`AppLearnsOfEnd`) |
| `tcp_liveness` | 1 segment, errors, resets, timeouts, fairness | queued data leaves the queue (`QueueDrains`); ended sessions are freed (`EndedIsFreed`) |
| `sessions` | 3 addresses, 4 flows (UDP, DNS, ICMP, TCP), limit 1, batch of 2, all faults | `SocketMatchesState`, `NoDescriptorLeak`, `EventsHaveSession`, `OneSessionPerFlow`, `SessionsLimited` (limit and one batch), `FollowsLife` |
| `sessions_time` | 3 addresses, 3 flows, limit 2, batch of 2, DNS exempt, network errors, ages up to 2, fairness | ended and blocked sessions are freed (`EndedIsFreed`); what is closed as idle was idle, or the table is over-full by a whole percent (`OnlyIdleTimedOut`) |
| `service` | 4 intents, tunnels that cannot be established, engines that end by themselves, forwarding to a server, fairness | no tunnel is closed under its engine and the fields know a running engine (`EngineHasTun`), none is lost (`TunsAccounted`), waiting for an engine ends (`JoinReturns`), refinement (`ImplementsTunnel`) |
| `ssl_proxy` | 1 server, 3 handshake threads, 1 proxy, all faults but `race`, fairness | the table agrees with its threads (`StatusHonest`), the capture is told in order (`EventsInOrder`), sockets are closed (`NoSocketLeak`), threads end (`ThreadsEnd`) |
| `console` | 2 threads of the app, one of them the main thread, 3 messages, a cache of 2, 2 connections, fairness | frames are not mixed, half a frame is that of a lost message (`FramesSeparate`), messages are accounted for and cached ones keep their order (`Accounted`), nothing but a client that does not read keeps the lock (`LockReleased`) |

Three runs show where the code does not do what it says; each is a finding in
`PROJECT.json`.

| run | what happens |
|---|---|
| `tcp_merge` | `queue_tcp` lets a merged retransmission cover queued segments; once it is sent they lie below `remote_seq`, in front of the queue, and nothing is forwarded again |
| `sessions_echo` | requests with different identifiers share a session; a reply is given the identifier of another request |
| `service_stale` | a server thread that was "Stopped" ends later and closes and forgets the tunnel established since, under the engine that runs on it |

Data in the SYN has the effect of `tcp_merge`, too: it is queued at the number of
the SYN, which `remote_seq` passes (`tcp.c:765`). It is part of `tcp_faults`, where
`QueueNotBlocked` is not checked for this reason.

A passing run leaves out the environment that its question excludes, and these are the
places to look at in the code:

- Merging is off in `tcp_retransmit` (`tcp_merge`).
- `tcp_peers` and `tcp_liveness` have neither retransmitted data nor restarts. With
  retransmitted data `OnlyPeersEnd` fails: the app's last segment, retransmitted after its
  FIN, resets the session as "data while remote closed" (`tcp.c:865`). With a restart that
  keeps the sessions it fails because their sockets are not in the new epoll set, so that
  the first change of interest closes them (`tcp.c:156`); in this repository nothing calls
  `ServiceSinkhole.reload`, which would do that.
- `tcp_peers`, which asks who ends a session, has no timeouts, no forbidden addresses and
  no failing writes, the engine's intended reasons to end one.
- `sessions_time` has neither restarts nor failing `socket()` calls (`sessions` has them).
- `service` lets server threads end before the next tunnel is established
  (`service_stale`) and has no command under way in `onDestroy`: with the fault `early`,
  `EngineHasTun`, `TunsAccounted`, `JoinReturns` and `ImplementsTunnel` all fail, and with
  `stale` `ImplementsTunnel` does, too. That no engine runs on a freed context is therefore
  a fact about these schedules, not about the code.
- `ssl_proxy` assigns `serverSocket` before the proxy thread runs: with the fault `race`
  the thread meets a null field, its exception handler does, too, and `NoSocketLeak` fails
  (`SSLProxy.java:109`).

Some things the code does not ensure, and no property claims; the models have them:

- The app may be told a window of zero for good. A `recv_window` below the unit is
  announced as zero (`tcp.c:1265`); if nothing is queued, no EPOLLOUT is waited for, and a
  window that was positive is not announced again when it grows (`tcp.c:539`).
- Sessions in use are closed as idle when the table is over-full by a whole percent, where
  the scale of the timeouts is negative (`udp.c:25`). `SESSION_MAX` is 409: a batch of ten
  packets that find 408 sessions makes 418, 102 %. DNS sessions, which the limit exempts as
  `fwd53` is false, do so without a batch. `OnlyIdleTimedOut` says that nothing less does.
- The console carries on behind half a frame. When `outputBody` throws on a socket that is
  in order, `run` sleeps for a second with the console open, or a writer's caller just gets
  the exception; what other threads write then follows the cut-off frame
  (`AbstractInspector.java:728-735`), and the client cannot tell. `FramesSeparate` says what
  is left: bodies stay with their heads, and no message that is cut off counts as sent.
- A client that stops reading holds the lock, and with it every thread that prints, for as
  long as it stays connected: the writes have no timeout (`:1061`, `:1073`).
- The console's thread and the service do not survive every race of the two callers of
  `closeConsole`: a writer sets the field to null between the check and the `close()` of the
  thread's own `closeConsole`, whose exception ends the thread (`:1206`); and a writer that
  fails during `onConnected` closes the console before `CONSOLE_CONNECTED` is sent, after
  which the service keeps a capture without a console. New messages may overtake cached
  ones between `:701` and `:711`.

### Bounds

Two segments are enough for every relation of a retransmission to the queue (equal,
before, behind, partly sent) and for a FIN behind queued data; a send buffer of two
segments has both a first segment that fits and a second that does not. The third segment
in `tcp_retransmit` is what an app could send that does not respect the window, and a unit
of two bytes cuts an odd window off. The server's
three bytes exceed the app's buffer of two, so that the window closes with data in
flight. `UpBound` (2) lets a packet overtake the engine's reaction to the previous
one. In the table three addresses exceed the limit by a batch of two (`sessions`), so
that the stale count matters, and flows are more than addresses, so that addresses
are reused. With a limit of two, a batch of two and DNS exempt, `sessions_time` reaches
tables that are full and over-full. Ages up to one more than the longest keep time tell expired from fresh.
In `service` four intents are the shortest sequence with two tunnels and both ways to
end each; a descriptor and a thread are created per intent at most. In `ssl_proxy` a third
handshake thread is there to show that it is never used; servers do not interact and
neither do proxies, so that one of each is enough; three events let both directions be
told between the first and the last. In `console` three messages overflow a cache of two,
and the second connection is what a late `closeConsole` may meet.
Each property is checked against a mutant of the code (`Bad...` operators beside the
operators they replace) that the same run refutes.

The runs of the native engine check deadlock: its loop never stops by itself. The
service may be destroyed, a proxy ends, and a console's thread may die: their runs do not.

### Fairness

The thread runs (`epoll_wait` returns, what it returned is handled): weak fairness of
the loop's steps. In `NetGuardTcp` the check is repeated and, when the session is
ending and quiet, finds its timeout passed: strong fairness of that step, because
packets may arrive in between. In `NetGuardSessions` seconds pass and the check
comes again (`EPOLL_MIN_CHECK` delays it, nothing cancels it). The peers acknowledge,
read and retransmit a FIN, as any TCP does; no peer is assumed to send, close or be
quiet. In `VpnService` the command thread, `onDestroy` and the engine run; intents, the
network and the server need not happen. In `SslProxy` the threads run and what has a
timeout in the code ends by it (`connect` 5 s, the latch, `accept` 30 s, reads from the
app 1 s); peers need not do anything. In `Console` the threads run, except that a write to a client that does not read
need not return (`Blocked`); a client need not read or leave, and who gets the lock is
open.

## Proofs

A theorem holds for every value of the constants that the assumption of its module
admits: any number of flows, threads, messages and descriptors, any sizes of segments,
buffers, queues and batches, and any combination of faults unless a hypothesis excludes
one. Each module proves an inductive invariant, with one lemma per function or action,
and derives its theorems from it. Some have a hypothesis, which excludes a fault for
which TLC finds a counterexample, or one that the invariant does not cover; the
subsections say which.

| module | theorems | hypothesis |
|---|---|---|
| `NetGuardTcpProofs` | `TypeCorrect`, `SocketSafe`, `EventsSafe`, `NoReopening`, `TcpImplementsLife` | |
| `NetGuardTcpStreamProofs` | `RemoteSeqAlwaysCounts` | |
| | `ServerStreamAlwaysIntact` | `Plain`: no data in a SYN |
| `NetGuardTcpQueueProofs` | `QueueNeverBlocked`, `AckedIsAlwaysForwarded`, `QueueAlwaysBounded` | `Direct`: no data in a SYN, no merged segments; `NeverCleared`: no `jni_clear` |
| `NetGuardTcpAppProofs` | `AppAlwaysInSync`, `WindowAlwaysRespected` | `NeverCleared` |
| | `AppAlwaysLearnsOfEnd` | `Heard`: no failing write to the tun, no restart |
| | `OnlyPeersEverEnd` | `Calm`: besides no idle timeout, no retransmitted data, no SOCKS5 proxy |
| `NetGuardSessionsProofs` | `TypeCorrect`, `SocketAlwaysMatches`, `NoDescriptorEverLeaks`, `EventsAlwaysHaveSession`, `FlowsAreUnambiguous`, `SessionsAlwaysLimited`, `EntriesFollowLife`, `OnlyOverloadClosesUsed`, `OverloadAlwaysExplained` | |
| `VpnServiceProofs` | `TypeCorrect`, `EngineAlwaysAlone` | |
| | `EngineAlwaysHasTun`, `TunsAlwaysAccounted` | `Orderly`: neither `stale` nor `early` |
| `SslProxyProofs` | `TypeCorrect`, `StatusAlwaysHonest`, `EventsAlwaysInOrder` | |
| | `NoSocketEverLeaks` | not `race` |
| `ConsoleProofs` | `TypeCorrect`, `FramesStaySeparate`, `MessagesAlwaysAccounted` | |

### NetGuardTcpProofs

The inductive invariant `Inv` (theorem `InvHolds`) has the types, `Sound`
(`SocketMatchesState` of the session) and two facts about the loop: it has events
only while it handles a batch, and then the session has its socket.
`EventsHaveSession` is not inductive without the first, and `SocketMatchesState` not
without the second: `check_tcp_socket` works on the socket without looking at it, so an
event for a session in FIN_WAIT1 would write to a socket that is closed. The invariant
survives a batch because a packet never closes a socket (`Handled`), only marks the
session as closing; sockets are closed by the session's own event, which is then
consumed, and by the check, which runs when no events wait.

There is one lemma for each function of `tcp.c` about contexts (it returns a context,
keeps `Sound`, and says what it does to the socket: `Stays`, `Onward`, `Handled`), then
one for each action, then the theorems. Refinement adds `Onward`, what a step may do to
the pair of states, and `StepOfLife`, which finds the abstract step.

### NetGuardTcpStreamProofs

`ServerStreamIntact` says of the past only that the server got the byte it expected; for
it to be inductive, the engine's own account must predict that byte. `StreamInv` has
four parts:

- `Tally` relates the state of the session, `remote_seq`, the queue and the byte the
  server expects. While the session lives only the segment at `remote_seq` may have been
  sent in part (`Fresh`): when `remote_seq` passes it, the next one starts from its first
  byte. The server expects `remote_seq` plus the bytes sent of that segment; one less
  than `remote_seq` once the FIN of the app was counted. A session that was reset still
  forwards when its socket has a pending event, hence the part about CLOSING.
- `Waiting`: in LISTEN the proxy has not confirmed yet, so that the SYN is counted once.
- `Ahead` and `Proper`: what the app sends, and what waits in the tun, is its SYN at the
  initial number and data behind it.

A retransmission may replace a queued segment, also one of which a part was sent
(`queue_tcp`); the lemmas about `queue_tcp` are where the proof would fail if it forgot
the bytes sent. `Plain` is needed only for the stream: data in a SYN is queued at the
number of the SYN, and a session that is reset in LISTEN while an event is pending would
forward it from there. `remote_seq` counts rightly even then.

### NetGuardTcpQueueProofs

`QueueNotBlocked`, `AckedIsForwarded` and `QueueBounded` relate the queue to what the
app has sent and was told, so the invariant has to follow the packets in the tun as well.
`QueueInv` is `Linked` of the session, the app, the server and the tun:

- `Neat`: the queued segments begin at numbers of a grid, `SegLen` apart, from
  `remote_seq` up to the end of the app's data, and `remote_seq` is on the grid. Sending
  whole segments keeps it there, so it stops at the beginning of every queued segment and
  never passes one.
- `Coming`: so do the packets in the tun, and every segment of the app was forwarded, is
  queued or waits in the tun, in front of any FIN. `handle_fin` compares no numbers; when
  it finds the queue empty, all data was therefore forwarded and `remote_seq` is the FIN's
  own number. Otherwise `check_tcp_socket` counts the FIN behind the last segment.
- `Told`: a connected app knows `remote_seq`. Each handler that moves `remote_seq`
  acknowledges before it returns, and one whose write fails ends the session.
- `Roomy`: what the app has sent, and what the last window it was told lets it send, ends
  at most `SndBuf` behind the last byte that the server has read (`ReadUpTo`). That number
  only grows, so that an old window stays safe whatever is queued, sent and drained since;
  the scale only rounds a window down. A new window is counted from `remote_seq`, less what
  is queued (`get_receive_window`) and what the socket still holds (`get_receive_buffer`), and
  ends within the same bound; the mutant forgets what the socket holds.
- `Begun`: a session begins with the SYN of an app that has sent nothing else, so that
  LISTEN has an empty queue; and the socket buffer of a live session is not full, since
  `Fits` leaves a byte free.

`QueueSpans` turns the invariant into `QueueBounded`: the unsent bytes of the queue lie
between what `send` has taken and the end of the app's data.

`SendLinked` and `EmptyLinked` handle what the app puts in the tun, `TakesLinked` what
`queue_tcp` takes from it, `ForwardQueue` the run of segments that `send` accepts. With
merged segments or data in a SYN the grid is lost and TLC finds `QueueNotBlocked`
violated. `NeverCleared` excludes
only `jni_clear` while packets wait: a SYN that was sent twice then begins a session for an
app that is connected already, which `Begun` does not cover. Restarts that keep their
sessions are covered.

### NetGuardTcpAppProofs

The four properties are about the app, which `tcp.c` knows only from packets that have
waited in the tun. `AppInv` (theorem `AppHolds`) is `Bound` of the session, the app, the
server and the tun, and says that an error event is pending only if the server has failed.
The parts of `Bound`:

- `Met`: the session belongs to the app's attempt to connect. An app in SYN_SENT has only
  SYNs in the tun and a session in LISTEN or none; a session past LISTEN has an app that is
  connected or has aborted. So the SYN-ACK is written to an app that waits for it.
- `InFlight`: a packet in the tun acknowledges no more than the app has received, and the
  window it announces ends (`ack + win`) no later than the app's window now (`Edge`);
  packets wait in the order of their acknowledgments. `Edge` never moves back: a received
  byte takes its place from the buffer, a read byte gives one.
- `Credit`: the same for the session, `acked + send_window <= Edge`. `get_send_window` is
  at most this sum less `local_seq`, which is `rcv_nxt` by the next part, so what is read fits the
  free buffer, however old the acknowledgment is (`WindowFits`). The order of the packets
  is what lets `handle_session` replace `acked` and `send_window` together.
- `InSync`: `AppInSync`, and which states have seen the FIN of which side.
- `Parted`, under `Heard`: `AppLearnsOfEnd`, and an open socket is registered, so that
  `monitor_tcp_session` does not end a session which epoll does not know. A timeout ends a
  session and closes it in one step of the check, which this property does not speak of.
- `Blameless`, under `Calm`: `OnlyPeersEnd`, and no data is behind a FIN, neither in the tun
  nor for a session in CLOSE_WAIT, whose `handle_session` would answer it with a reset.

An app changes in three ways only: an acknowledgment leaves it alone (`Idles`), a reset or
an end closes it (`Shuts`), data and FIN move it forward (`Receives`); `IdlesInFlight`,
`EndedBound` and `ReceivedBound` carry the parts over, and each function of `tcp.c` has a
lemma that says which of the three it does, also when its write fails (`FailedTied`).

A write that fails, or a session that a restart has taken out of epoll, ends without a
word to the app, hence `Heard`; the idle timeout and a refusing proxy end a session without
a peer, and retransmitted data behind a FIN is reset (see the runs), hence `Calm`. Neither
excludes blocked addresses, data in a SYN, errors of the server or resets of the app.
`NeverCleared` is needed because a SYN that was sent twice may begin a second session, after
`jni_clear`, for an app that is connected; what it then counts agrees with the app only
because the model's initial number `LocalStart` is a constant, where the code draws a new one.

### NetGuardSessionsProofs

`IInv` is `TypeOK`, the checked invariants and three parts. `EntryInv`: a free entry is
blank, and the socket of an entry is as its state says. `LoopInv`: events and packets
exist only within a batch. `LimitInv`: `SessionsLimited` bounds the table by a count that
is older than the packets it limits, so the invariant says by how much the table may
exceed that count, which is the number of packets handled since (`Handled`); the
cardinality theorems of the library do the counting. Most actions change entries without
adding one, many at once when the loop checks or clears: `Evolves` relates an entry
before and after such a step, and the lemmas lift it to tables of any size. `Opens` is
the only step that adds an entry, and the only one that can break `OneSessionPerFlow`.

The timeouts shrink as the table fills, by an integer percentage. `OnlyOverloadClosesUsed`
shows for every limit and every timeout, and without an assumption on batches or DNS, that a
check closes a session which was just used only when the active sessions exceed
`maxsessions` by a whole percent (`Overloaded`): up to there the percentage, which C
truncates, is not negative (`ScaleFacts`). `OverloadAlwaysExplained` says what can bring the
table there. By `SessionsLimited` the sessions that are not exempt exceed the limit by less
than a batch; the rest are DNS sessions. A limit of more than `100 * (TunYield - 1)` would
be overloaded by DNS alone; the program's limit is 409 and its batch 10, so that it is not
protected, and the theorem says by how much.

### VpnServiceProofs

No lock protects the fields, so that the invariant `SInv` has to say which order keeps
the threads apart: one actor at a time (`ActorInv`), one thread at a time whose fields
are set (`ThreadInv`, `FieldInv`), a server thread that closes its own descriptor or finds
it closed (`ServerInv`), an owner for every open descriptor (`TunsInv`), and what an actor
knows past each of its steps, above all that no engine is live once it has passed `join`
(`CommandInv`). With `stale` the second fails, with `early` the first, and so do the
two theorems (see the runs).

`EngineAlwaysAlone` is what survives both faults: two engines never live at once, so that
the sessions never have two. It rests on `tunnelThread` alone. `KnownInv`: the command
thread, which alone starts engines, finds the live one in the field whenever it tests it;
the field forgets a live engine only when `onDestroy` joins an earlier one (or none) while
the last command starts another, and then the command thread is retired, its queue empty
and its looper quit (`Retired`). A command that waits in `join` waits for the live engine,
so that none is live when it goes on. `vpn`, which a late server thread nulls, plays no part.

### SslProxyProofs

A status of the table stands for several threads of which only the last may write it.
`StatusInv` gives, for each status, the sets of threads that run, failed and succeeded;
`HandInv` what a thread has done where it is. That a second handshake is started only
after exactly one has failed is what bounds the number of threads in `StatusHonest`.
`ProxyInv` says which threads of a proxy run and what the capture has been told: the
forwarding threads exist only while the proxy's thread awaits them, which is why nothing
follows `Finish`.

### ConsoleProofs

`FramesSeparate` is not inductive: that a body finds its own head in front of it depends
on who may write in between. The invariant `IInv` adds four parts. `LockInv`: a thread at a
step of a synchronized method has the lock (run in its `finally` has not, which is why
`closeConsole` is not part of this for run). `MsgInv`: the console of a writer was opened,
and is the one in the field or closed. `ConnInv`: a console is new only while run is about
to open it, run accepts one only while the field is null, and when run sets the field to
null the console in it is closed. `FrameInv`: the head of a thread that writes a body is the
last piece of its connection, and every other head is followed by its body or belongs to a
message that is lost. Whether the body failed on a broken socket, in a file or with an
unchecked exception makes no difference to it, as each of them gives the message up. Most
actions touch neither connections nor wires nor the field: `QuietStep` handles these at
once, and each needs only its own thread's facts (`Quiet`).

`Accounted` needs to know where every message is, which `AccountInv` says in four parts.
`CarryInv`: the message of a thread is nowhere else, except that its head may be on the
wire; run has taken the one that it flushes from the front of the queue, and any other was
never in it. `QueueInv`: the queue is the end of everything that was ever offered, each
message once. `WireInv`: a message begins at one place of one connection, and what was
offered begins in the order of the offers. `WholeInv`: every message is somewhere, and a
part of one is on the wire only while the rest is to come or was given up. That the order
continues from one client to the next rests on `UseInv`: the console in the field is the
last one accepted, so a head is always written behind all others.

A step moves at most one message. There is one lemma for each way to do so (`StillStep`,
`CallStep`, `OfferStep`, `DropStep`, `PollStep`, `HeadStep`, `BodyStep`) and one for each
action that says which of them it is (`...Books`). `OfferStep` is where the lock matters:
while a thread caches a message, run is not between `poll` and the write, or the new
message could not be told from the one that is flushed (`NoFlush`). `Accounted` itself
speaks of the first place of a message among bounded positions; `HeadOf` and `PositionIs`
show that this is where its frame begins, and `FewFrames`, with a pigeonhole argument, that
the bound of `2 * MessageBound` pieces on a connection excludes none.

### Only model-checked

- Liveness under fairness (`QueueDrains`, `EndedIsFreed`, `JoinReturns`, `ThreadsEnd`,
  `LockReleased`), which the prover does not do.
- `ImplementsTunnel`: it holds only for schedules that the code does not ensure, where a
  theorem would say little. Every other invariant and action property that a passing run
  checks is stated by a theorem, some under the hypotheses of the table above.

## Not modelled

Sequence numbers that wrap (`get_send_window` uses 0x10000 there, `tcp.c:172`), IP and
TCP header parsing and checksums, uid lookup, DNS parsing, pcap records, usage statistics,
redirection to other addresses (it changes the peer, not the session). DHCP answers
(`dhcp.c`, "This is untested"): they also overwrite the address of their own session, and
leave its time as it is (`udp.c:320-324`).
`jni_get_stats` walks the list under a lock that the loop does not hold while it frees,
but nothing calls it. Of the Java parts: the builder's settings, certificates, the
redirect rules and their update flag, the commands of the console, the packet file and
the decoders of the capture, the announcement of the console. The Java VPN worker is the
predecessor of the native engine and is not started any more.

Hooking, dumping, Lua and the vendored libraries are left out: their behaviour is that of
the runtimes and projects they belong to. They are nearly all lines of the repository
(capstone, unicorn with QEMU, libpcap, libevent, OpenSSL headers, Lua, smali); a model of
them would say nothing about Inspector. The program's own concurrent parts are the
components listed as modelled or partly modelled in `PROJECT.json`.

## Plan

The modules, the runs and the proofs above are done. The liveness properties stay with
TLC. What would add most next is `ImplementsTunnel` without its schedules, should
`onDestroy` wait for the command thread and a server thread close only its own tunnel.
