------------------------------ MODULE SslProxy ------------------------------
(***************************************************************************)
(* The TLS proxy (SSLProxy): the table of handshakes, which decides for    *)
(* every connection of the app whether it is refused, passed through or    *)
(* redirected to a proxy, and the proxies, each with a thread that accepts *)
(* the app and connects to the server and two threads that forward.        *)
(*                                                                         *)
(* create is called by the engine's thread (isAddressAllowed), one call at *)
(* a time.  The capture of the console comes and goes at any time.         *)
(***************************************************************************)
EXTENDS Integers, Sequences, FiniteSets

CONSTANTS
    Servers,     \* server addresses
    Handshakes,  \* threads that try a handshake
    Proxies,     \* proxies that may be created
    DataBound,   \* bound on what the capture is told before a buffer is forwarded
    Faults       \* the misbehaviours of the environment that may happen

FaultKinds == {"connect",  \* the server is not reached or does not speak TLS
               "latch",    \* the listener is later than the timeout of the latch
               "context",  \* createSSLContext fails
               "bind",     \* no server socket can be opened
               "stream",   \* reading or writing a stream fails
               "race"}     \* a proxy thread runs before its constructor ends

ASSUME ProxyAssumption ==
    /\ IsFiniteSet(Handshakes)
    /\ DataBound \in Nat
    /\ Faults \subseteq FaultKinds
    /\ "none" \notin Servers

Directions == {"TX", "RX"}

VARIABLES
    status,    \* handshakeStatusMap
    context,   \* serverSSLContextMap: the servers with a context
    hand,      \* the handshake threads
    engine,    \* the engine's thread in create
    proxy,     \* the proxies
    capture    \* does vpn.getPacketCapture() return one

vars == <<status, context, hand, engine, proxy, capture>>

\* first: was the status null; listener: "none", "pending", "late" (the thread
\* has given up) or "done"; failed: did createSSLContext fail.
NoHandshake == [pc |-> "none", server |-> "none", first |-> FALSE,
                listener |-> "none", failed |-> FALSE]

\* The sockets are "none", "open" or "closed"; assigned: is the field serverSocket
\* set; events: what the capture was told.
NoProxy == [pc |-> "none", assigned |-> FALSE, serverSocket |-> "none",
            local |-> "none", socket |-> "none", exception |-> FALSE,
            forward |-> [d \in Directions |-> "none"], events |-> <<>>]

EngineIdle == [pc |-> "idle", proxy |-> "none", verdict |-> "none"]

Statuses == {"none", "handshaking", "failed1", "failed2", "success"}

HandshakeState ==
    [pc : {"none", "connect", "await", "success", "failed"},
     server : Servers \union {"none"}, first : BOOLEAN,
     listener : {"none", "pending", "late", "done"}, failed : BOOLEAN]

SocketState == {"none", "open", "closed"}
ForwardPcs == {"none", "loop", "read", "tell", "close_in", "close_out", "done"}

ProxyState ==
    [pc : {"none", "accept", "connect", "streams", "await", "done"},
     assigned : BOOLEAN, serverSocket : SocketState, local : SocketState,
     socket : SocketState, exception : BOOLEAN, forward : [Directions -> ForwardPcs],
     events : Seq(Directions \union {"Establish", "Finish"})]

EngineState == [pc : {"idle", "assign"}, proxy : Proxies \union {"none"},
                verdict : {"none", "refused", "passed", "redirected"}]

May(fault) == IF fault \in Faults THEN BOOLEAN ELSE {FALSE}

Failed(s) == {h \in Handshakes : hand[h].server = s /\ hand[h].pc = "failed"}
Running(s) == {h \in Handshakes : hand[h].server = s /\ hand[h].pc \in {"connect", "await"}}
Succeeded(s) == {h \in Handshakes : hand[h].server = s /\ hand[h].pc = "success"}

-----------------------------------------------------------------------------
(* SSLProxy.create *)

Verdict(v) == engine' = [EngineIdle EXCEPT !.verdict = v]

\* The first and, after one failure, the second packet start a handshake; the
\* packet is refused.
StartHandshake(s) ==
    /\ engine.pc = "idle" /\ status[s] \in {"none", "failed1"}
    /\ \E h \in Handshakes :
         /\ hand[h].pc = "none"
         /\ hand' = [hand EXCEPT ![h] =
              [NoHandshake EXCEPT !.pc = "connect", !.server = s,
                                  !.first = status[s] = "none"]]
    /\ status' = [status EXCEPT ![s] = "handshaking"]
    /\ Verdict("refused")
    /\ UNCHANGED <<context, proxy, capture>>

Refuse(s) ==
    /\ engine.pc = "idle" /\ status[s] = "handshaking" /\ Verdict("refused")
    /\ UNCHANGED <<status, context, hand, proxy, capture>>

\* Two failures: create returns a verdict without a redirection.  A success without
\* a context: create throws, and isAddressAllowed leaves the packet allowed.
PassThrough(s) ==
    /\ engine.pc = "idle"
    /\ status[s] = "failed2" \/ (status[s] = "success" /\ s \notin context)
    /\ Verdict("passed")
    /\ UNCHANGED <<status, context, hand, proxy, capture>>

\* The constructor opens the server socket and starts the thread, before the
\* field serverSocket is assigned.  (A failing setSoTimeout is not told from a
\* failing bind; it would leave the socket to the garbage collector.)
startSSLServerSocket(s) ==
    /\ engine.pc = "idle" /\ status[s] = "success" /\ s \in context
    /\ \/ \E p \in Proxies :
            /\ proxy[p].pc = "none"
            /\ proxy' = [proxy EXCEPT ![p] = [@ EXCEPT !.pc = "accept", !.serverSocket = "open"]]
            /\ engine' = [EngineIdle EXCEPT !.pc = "assign", !.proxy = p]
       \/ "bind" \in Faults /\ Verdict("refused") /\ UNCHANGED proxy
    /\ UNCHANGED <<status, context, hand, capture>>

redirect ==
    /\ engine.pc = "assign"
    /\ proxy' = [proxy EXCEPT ![engine.proxy] = [@ EXCEPT !.assigned = TRUE]]
    /\ Verdict("redirected")
    /\ UNCHANGED <<status, context, hand, capture>>

create(s) == StartHandshake(s) \/ Refuse(s) \/ PassThrough(s) \/ startSSLServerSocket(s)

-----------------------------------------------------------------------------
(* A handshake thread: connectServer, then the status *)

Fails(x) == [x EXCEPT !.pc = "failed",
                      !.listener = IF @ = "pending" THEN "late" ELSE @]

HandshakeFails(h) ==
    /\ status' = [status EXCEPT ![hand[h].server] =
                                IF hand[h].first THEN "failed1" ELSE "failed2"]
    /\ hand' = [hand EXCEPT ![h] = Fails(@)]

\* connect and startHandshake; the listener is notified by another thread.
Connect(h) ==
    /\ hand[h].pc = "connect"
    /\ \E fails \in May("connect") :
         IF fails THEN HandshakeFails(h)
         ELSE /\ hand' = [hand EXCEPT ![h] = [@ EXCEPT !.pc = "await", !.listener = "pending"]]
              /\ UNCHANGED status
    /\ UNCHANGED <<context, engine, proxy, capture>>

\* Mutant: the context is filed under another key than the server's address.
BadListener(h) ==
    /\ hand[h].listener \in {"pending", "late"}
    /\ hand' = [hand EXCEPT ![h].listener = "done"]
    /\ context' = context \union {h}
    /\ UNCHANGED <<status, engine, proxy, capture>>

\* handshakeCompleted: the context is created, then the latch is counted down.
\* A listener that is late still creates it.
Listener(h) ==
    /\ hand[h].listener \in {"pending", "late"}
    /\ \E fails \in May("context") :
         /\ hand' = [hand EXCEPT ![h] = [@ EXCEPT !.listener = "done", !.failed = fails]]
         /\ context' = IF fails THEN context ELSE context \union {hand[h].server}
    /\ UNCHANGED <<status, engine, proxy, capture>>

\* Mutant: the latch is not waited for.
BadAwait(h) ==
    /\ hand[h].pc = "await"
    /\ status' = [status EXCEPT ![hand[h].server] = "success"]
    /\ hand' = [hand EXCEPT ![h].pc = "success"]
    /\ UNCHANGED <<context, engine, proxy, capture>>

Await(h) ==
    /\ hand[h].pc = "await"
    /\ \/ /\ hand[h].listener = "done"
          /\ status' = [status EXCEPT ![hand[h].server] = "success"]
          /\ hand' = [hand EXCEPT ![h] = [@ EXCEPT !.pc = "success"]]
       \/ hand[h].listener = "pending" /\ "latch" \in Faults /\ HandshakeFails(h)
    /\ UNCHANGED <<context, engine, proxy, capture>>

-----------------------------------------------------------------------------
(* A proxy thread *)

Closed(sock) == IF sock = "open" THEN "closed" ELSE sock

\* The catch and the finally of run.  A server socket that is not assigned yet is
\* null: the message of the catch throws again, and nothing is closed.
Abandoned(x) ==
    IF x.assigned
    THEN [x EXCEPT !.pc = "done", !.serverSocket = "closed",
                   !.local = Closed(@), !.socket = Closed(@)]
    ELSE [x EXCEPT !.pc = "done"]

\* accept, with a timeout of 30 seconds.  It throws when the field is still null.
accept(p) ==
    /\ proxy[p].pc = "accept"
    /\ proxy[p].assigned \/ "race" \in Faults
    /\ \/ proxy' = [proxy EXCEPT ![p] = Abandoned(@)]
       \/ /\ proxy[p].assigned
          /\ proxy' = [proxy EXCEPT ![p] = [@ EXCEPT !.pc = "connect", !.local = "open"]]
    /\ UNCHANGED <<status, context, hand, engine, capture>>

Told(x, e) == IF capture THEN Append(x.events, e) ELSE x.events

\* connectServer; it closes its socket itself when it fails.
connectServer(p) ==
    /\ proxy[p].pc = "connect"
    /\ \/ "connect" \in Faults /\ proxy' = [proxy EXCEPT ![p] = Abandoned(@)]
       \/ proxy' = [proxy EXCEPT ![p] = [@ EXCEPT !.pc = "streams", !.socket = "open"]]
    /\ UNCHANGED <<status, context, hand, engine, capture>>

\* The capture is told, the two threads are started, the server socket is closed.
Established(x) ==
    [x EXCEPT !.pc = "await", !.serverSocket = "closed", !.events = Told(x, "Establish"),
              !.forward = [d \in Directions |-> "loop"]]

\* Mutant: only the app's socket is closed when its streams fail.
BadEstablish(p) ==
    /\ proxy[p].pc = "streams"
    /\ proxy' = [proxy EXCEPT ![p] = [@ EXCEPT !.pc = "done", !.serverSocket = "closed",
                                               !.local = "closed"]]
    /\ UNCHANGED <<status, context, hand, engine, capture>>

\* The streams of the app's socket throw when it does not trust the certificate.
Establish(p) ==
    /\ proxy[p].pc = "streams"
    /\ \/ "stream" \in Faults /\ proxy' = [proxy EXCEPT ![p] = Abandoned(@)]
       \/ proxy' = [proxy EXCEPT ![p] = Established(@)]
    /\ UNCHANGED <<status, context, hand, engine, capture>>

Finished(x) ==
    [x EXCEPT !.pc = "done", !.events = Told(x, "Finish"),
              !.local = Closed(@), !.socket = Closed(@)]

\* Mutant: a latch of one, and the other thread is not waited for.
BadFinish(p) ==
    /\ proxy[p].pc = "await" /\ \E d \in Directions : proxy[p].forward[d] = "done"
    /\ proxy' = [proxy EXCEPT ![p] = Finished(@)]
    /\ UNCHANGED <<status, context, hand, engine, capture>>

\* Both threads have counted the latch down.
Finish(p) ==
    /\ proxy[p].pc = "await" /\ \A d \in Directions : proxy[p].forward[d] = "done"
    /\ proxy' = [proxy EXCEPT ![p] = Finished(@)]
    /\ UNCHANGED <<status, context, hand, engine, capture>>

-----------------------------------------------------------------------------
(* doForward: the threads of a proxy, from the app (TX) and from the server *)

At(x, d, pc) == [x EXCEPT !.forward[d] = pc]
Input(x, d) == IF d = "TX" THEN x.local ELSE x.socket
Output(x, d) == IF d = "TX" THEN x.socket ELSE x.local
Closing(x, d, input) ==
    IF (d = "TX") = input THEN [x EXCEPT !.local = Closed(@)]
    ELSE [x EXCEPT !.socket = Closed(@)]

\* while (socketException == null)
Loop(p, d) ==
    /\ proxy[p].forward[d] = "loop"
    /\ proxy' = [proxy EXCEPT ![p] = At(@, d, IF @.exception THEN "close_in" ELSE "read")]
    /\ UNCHANGED <<status, context, hand, engine, capture>>

\* Reading from the app has a timeout of a second, reading from the server none.
SocketTimeout(p) ==
    /\ proxy[p].forward["TX"] = "read" /\ proxy[p].local = "open"
    /\ proxy' = [proxy EXCEPT ![p] = At(@, "TX", "loop")]
    /\ UNCHANGED <<status, context, hand, engine, capture>>

\* A buffer is read and written; then the capture is told.
Forward(p, d) ==
    /\ proxy[p].forward[d] = "read"
    /\ Input(proxy[p], d) = "open" /\ Output(proxy[p], d) = "open"
    /\ Len(proxy[p].events) < DataBound
    /\ proxy' = [proxy EXCEPT ![p] = At(@, d, "tell")]
    /\ UNCHANGED <<status, context, hand, engine, capture>>

Tell(p, d) ==
    /\ proxy[p].forward[d] = "tell"
    /\ proxy' = [proxy EXCEPT ![p] = [At(@, d, "read") EXCEPT !.events = Told(proxy[p], d)]]
    /\ UNCHANGED <<status, context, hand, engine, capture>>

\* The peer ends its stream, or reading or writing throws.
Ends(p, d) ==
    /\ proxy[p].forward[d] = "read" /\ Input(proxy[p], d) = "open"
    /\ \E throws \in IF Output(proxy[p], d) = "closed" THEN BOOLEAN ELSE May("stream") :
         proxy' = [proxy EXCEPT ![p] = [At(@, d, "close_in") EXCEPT
                                          !.exception = proxy[p].exception \/ throws]]
    /\ UNCHANGED <<status, context, hand, engine, capture>>

\* Reading throws because the other thread has closed the socket.
Interrupted(p, d) ==
    /\ proxy[p].forward[d] = "read" /\ Input(proxy[p], d) = "closed"
    /\ proxy' = [proxy EXCEPT ![p] = [At(@, d, "close_in") EXCEPT !.exception = TRUE]]
    /\ UNCHANGED <<status, context, hand, engine, capture>>

\* closeQuietly(inputStream), which closes its socket.
CloseInput(p, d) ==
    /\ proxy[p].forward[d] = "close_in"
    /\ proxy' = [proxy EXCEPT ![p] = Closing(At(@, d, "close_out"), d, TRUE)]
    /\ UNCHANGED <<status, context, hand, engine, capture>>

\* Mutant: the output is left to the other thread.
BadCloseOutput(p, d) ==
    /\ proxy[p].forward[d] = "close_out"
    /\ proxy' = [proxy EXCEPT ![p] = At(@, d, "done")]
    /\ UNCHANGED <<status, context, hand, engine, capture>>

\* closeQuietly(outputStream) and countDown.
CloseOutput(p, d) ==
    /\ proxy[p].forward[d] = "close_out"
    /\ proxy' = [proxy EXCEPT ![p] = Closing(At(@, d, "done"), d, FALSE)]
    /\ UNCHANGED <<status, context, hand, engine, capture>>

\* The steps of a forwarding thread that do not wait for a peer.
Runs(p, d) ==
    \/ Loop(p, d) \/ (d = "TX" /\ SocketTimeout(p)) \/ Tell(p, d) \/ Interrupted(p, d)
    \/ CloseInput(p, d) \/ CloseOutput(p, d)

-----------------------------------------------------------------------------

\* The console enables or disables the capture of the service.
setPacketCapture ==
    /\ capture' = ~capture
    /\ UNCHANGED <<status, context, hand, engine, proxy>>

Init ==
    /\ status = [s \in Servers |-> "none"] /\ context = {}
    /\ hand = [h \in Handshakes |-> NoHandshake]
    /\ engine = EngineIdle
    /\ proxy = [p \in Proxies |-> NoProxy]
    /\ capture \in BOOLEAN

Next ==
    \/ \E s \in Servers : create(s)
    \/ redirect
    \/ \E h \in Handshakes : Connect(h) \/ Listener(h) \/ Await(h)
    \/ \E p \in Proxies :
         \/ accept(p) \/ connectServer(p) \/ Establish(p) \/ Finish(p)
         \/ \E d \in Directions : Runs(p, d) \/ Forward(p, d) \/ Ends(p, d)
    \/ setPacketCapture

Spec == Init /\ [][Next]_vars

\* The threads run, and connecting, the latch of connectServer and accept end by
\* their timeouts.  Nothing is assumed of the peers, of the listener's thread or
\* of the packets.
Fairness ==
    /\ WF_vars(redirect)
    /\ \A h \in Handshakes : WF_vars(Connect(h)) /\ WF_vars(Await(h))
    /\ \A p \in Proxies :
         /\ WF_vars(accept(p) \/ connectServer(p) \/ Establish(p) \/ Finish(p))
         /\ \A d \in Directions : WF_vars(Runs(p, d))

FairSpec == Spec /\ Fairness

-----------------------------------------------------------------------------
(* Properties *)

\* The statuses, the threads, the sockets and the events.
TypeOK ==
    /\ status \in [Servers -> Statuses] /\ context \subseteq Servers
    /\ hand \in [Handshakes -> HandshakeState]
    /\ engine \in EngineState
    /\ proxy \in [Proxies -> ProxyState]
    /\ capture \in BOOLEAN

\* The table tells the truth of the threads, although each of them writes what it
\* learned when it ends: one handshake at a time and at most two failures for a
\* server, after which it is passed through; a success is one whose context is
\* there, unless creating it failed.
StatusHonest ==
    \A s \in Servers :
       /\ Cardinality(Running(s)) = IF status[s] = "handshaking" THEN 1 ELSE 0
       /\ (status[s] = "success") <=> (Succeeded(s) # {})
       /\ Cardinality(Failed(s)) <= 2
       /\ (status[s] = "failed2") <=> (Cardinality(Failed(s)) = 2)
       /\ status[s] = "failed1" => Cardinality(Failed(s)) = 1
       /\ status[s] = "success" =>
             s \in context \/ \E h \in Succeeded(s) : hand[h].failed

\* The capture, which may come and go, hears of a connection in order: its
\* establishment first, its end last, each at most once, whichever thread is
\* forwarding when the other one ends.
EventsInOrder ==
    \A p \in Proxies : \A i \in 1..Len(proxy[p].events) :
       /\ proxy[p].events[i] = "Establish" => i = 1
       /\ proxy[p].events[i] = "Finish" => i = Len(proxy[p].events)

\* When a proxy's thread is done, all it opened is closed, wherever it failed, and
\* no thread still forwards.
NoSocketLeak ==
    \A p \in Proxies : proxy[p].pc = "done" =>
       /\ "open" \notin {proxy[p].serverSocket, proxy[p].local, proxy[p].socket}
       /\ \A d \in Directions : proxy[p].forward[d] \in {"none", "done"}

\* No thread waits for ever although reading from a server has no timeout.  Once
\* one direction of a connection has ended, the other one ends, too, and the proxy
\* with it; and a handshake ends, so that its server's connections are not refused
\* for good.
ThreadsEnd ==
    /\ \A p \in Proxies :
         (\E d \in Directions : proxy[p].forward[d] \in {"close_in", "close_out", "done"})
            ~> (proxy[p].pc = "done")
    /\ \A s \in Servers : (status[s] = "handshaking") ~> (status[s] # "handshaking")

=============================================================================
