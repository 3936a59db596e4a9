--------------------------- MODULE SslProxyProofs ---------------------------
(***************************************************************************)
(* TypeOK, StatusHonest, EventsInOrder and NoSocketLeak of the TLS proxy,  *)
(* for every number of servers, handshake threads and proxies.             *)
(*                                                                         *)
(* The table holds one status for a server while several threads may have  *)
(* tried it: StatusInv names the sets of threads that each status stands   *)
(* for, and HandInv what a thread has done when it is where it is.         *)
(* ProxyInv says the same of a proxy: which of its threads run, what they  *)
(* have told the capture, and that the field serverSocket is assigned once *)
(* the app was accepted.                                                   *)
(***************************************************************************)
EXTENDS SslProxy, FiniteSetTheorems, TLAPS

One(S) == \E a \in Handshakes : S = {a}
Two(S) == \E a, b \in Handshakes : a # b /\ S = {a, b}

\* A thread that was started has a server; its listener has run when it succeeded,
\* and a listener that did not fail has left a context.
HandOK(h) ==
    /\ hand[h].pc = "none" => hand[h].listener = "none"
    /\ hand[h].pc # "none" => hand[h].server \in Servers
    /\ hand[h].pc = "connect" => hand[h].listener = "none"
    /\ hand[h].pc = "await" => hand[h].listener \in {"pending", "done"}
    /\ hand[h].pc = "success" => hand[h].listener = "done"
    /\ hand[h].listener = "done" /\ ~hand[h].failed => hand[h].server \in context

HandInv == \A h \in Handshakes : HandOK(h)

\* The threads of a server that run, failed or succeeded.
Run(f, s) == {h \in Handshakes : f[h].server = s /\ f[h].pc \in {"connect", "await"}}
Fail(f, s) == {h \in Handshakes : f[h].server = s /\ f[h].pc = "failed"}
Succ(f, s) == {h \in Handshakes : f[h].server = s /\ f[h].pc = "success"}

\* Who runs and who failed for a server, as its status has it.  The thread of a
\* second handshake has first = FALSE, and that is how its failure is counted.
StatusOK(s) ==
    /\ status[s] # "handshaking" => Run(hand, s) = {}
    /\ status[s] = "handshaking" => One(Run(hand, s))
    /\ \A h \in Run(hand, s) : IF hand[h].first THEN Fail(hand, s) = {} ELSE One(Fail(hand, s))
    /\ status[s] = "none" => Fail(hand, s) = {}
    /\ status[s] = "failed1" => One(Fail(hand, s))
    /\ status[s] = "failed2" => Two(Fail(hand, s))
    /\ status[s] = "success" => Fail(hand, s) = {} \/ One(Fail(hand, s))
    /\ (status[s] = "success") <=> (Succ(hand, s) # {})

StatusInv == \A s \in Servers : StatusOK(s)

\* The constructor's proxy exists.
EngineInv == engine.pc = "assign" => engine.proxy \in Proxies /\ proxy[engine.proxy].pc # "none"

\* The capture hears of nothing before the establishment, and of the end when the
\* thread of the proxy ends.
Ordered(ev) == \A i \in 1..Len(ev) : /\ ev[i] = "Establish" => i = 1
                                     /\ ev[i] = "Finish" => i = Len(ev)
Unfinished(ev) == \A i \in 1..Len(ev) : ev[i] # "Finish"

\* Threads forward only while the thread of the proxy awaits them.
ProxyOK(x) ==
    /\ x.pc = "none" => x = NoProxy
    /\ x.pc \in {"connect", "streams"} => x.assigned
    /\ x.pc # "await" => \A d \in Directions : x.forward[d] \in {"none", "done"}
    /\ x.pc = "await" => x.serverSocket = "closed"
    /\ x.pc \in {"accept", "connect", "streams"} =>
         x.events = <<>> /\ \A d \in Directions : x.forward[d] = "none"
    /\ x.pc # "done" => Unfinished(x.events)
    /\ Ordered(x.events)
    /\ x.pc = "done" /\ "race" \notin Faults =>
         "open" \notin {x.serverSocket, x.local, x.socket}

ProxyInv == \A p \in Proxies : ProxyOK(proxy[p])

IInv == TypeOK /\ HandInv /\ StatusInv /\ EngineInv /\ ProxyInv

-----------------------------------------------------------------------------
(* What a step of one thread does to hand and to the sets of threads *)

\* No thread but h may have changed.
Only(f, g, h) == \A x \in Handshakes : x # h => g[x] = f[x]

\* One thread of hand is set, the others stay.
LEMMA HandSet ==
  ASSUME hand \in [Handshakes -> HandshakeState], NEW h \in Handshakes,
         NEW r \in HandshakeState, hand' = [hand EXCEPT ![h] = r]
  PROVE  /\ hand' \in [Handshakes -> HandshakeState]
         /\ hand'[h] = r /\ Only(hand, hand', h)
  BY DEF Only

\* A thread that is set joins or leaves the three sets of a server.
LEMMA SetsFacts ==
  ASSUME NEW f, NEW g, NEW h \in Handshakes, NEW s, Only(f, g, h)
  PROVE  /\ Run(g, s) = IF g[h].server = s /\ g[h].pc \in {"connect", "await"}
                        THEN Run(f, s) \union {h} ELSE Run(f, s) \ {h}
         /\ Fail(g, s) = IF g[h].server = s /\ g[h].pc = "failed"
                         THEN Fail(f, s) \union {h} ELSE Fail(f, s) \ {h}
         /\ Succ(g, s) = IF g[h].server = s /\ g[h].pc = "success"
                         THEN Succ(f, s) \union {h} ELSE Succ(f, s) \ {h}
  <1>1. Run(g, s) = IF g[h].server = s /\ g[h].pc \in {"connect", "await"}
                    THEN Run(f, s) \union {h} ELSE Run(f, s) \ {h}
    BY DEF Run, Only
  <1>2. Fail(g, s) = IF g[h].server = s /\ g[h].pc = "failed"
                     THEN Fail(f, s) \union {h} ELSE Fail(f, s) \ {h}
    BY DEF Fail, Only
  <1>3. Succ(g, s) = IF g[h].server = s /\ g[h].pc = "success"
                     THEN Succ(f, s) \union {h} ELSE Succ(f, s) \ {h}
    BY DEF Succ, Only
  <1> QED BY <1>1, <1>2, <1>3

\* A thread that was and is in none of the sets of a server leaves them alone.
LEMMA SetsSame ==
  ASSUME NEW f, NEW g, NEW h \in Handshakes, NEW s, Only(f, g, h), g[h].server # s,
         h \notin Run(f, s), h \notin Fail(f, s), h \notin Succ(f, s)
  PROVE  Run(g, s) = Run(f, s) /\ Fail(g, s) = Fail(f, s) /\ Succ(g, s) = Succ(f, s)
  BY DEF Run, Fail, Succ, Only

\* A server whose sets and status stay keeps what StatusOK says.
LEMMA StatusFrame ==
  ASSUME NEW s, StatusOK(s), status'[s] = status[s],
         Run(hand', s) = Run(hand, s), Fail(hand', s) = Fail(hand, s), Succ(hand', s) = Succ(hand, s),
         \A x \in Run(hand, s) : hand'[x].first = hand[x].first
  PROVE  StatusOK(s)'
  BY DEF StatusOK, One, Two

\* A thread has one server, and a server that no thread joins or leaves keeps its
\* status.
LEMMA OtherServer ==
  ASSUME NEW h \in Handshakes, Only(hand, hand', h),
         NEW s, hand[h].server # s, hand'[h].server # s,
         StatusOK(s), status'[s] = status[s]
  PROVE  StatusOK(s)'
  <1>1. h \notin Run(hand, s) /\ h \notin Fail(hand, s) /\ h \notin Succ(hand, s)
    BY DEF Run, Fail, Succ
  <1>2. Run(hand', s) = Run(hand, s) /\ Fail(hand', s) = Fail(hand, s) /\ Succ(hand', s) = Succ(hand, s)
    BY <1>1, SetsSame
  <1>3. \A x \in Run(hand, s) : hand'[x].first = hand[x].first
    BY <1>1 DEF Run, Only
  <1> QED BY <1>2, <1>3, StatusFrame

\* A step that leaves the table and the threads alone keeps what is known of them.
LEMMA HandFrame ==
  ASSUME HandInv, StatusInv, UNCHANGED <<status, context, hand>>
  PROVE  HandInv' /\ StatusInv'
  BY DEF HandInv, HandOK, StatusInv, StatusOK, One, Two, Run, Fail, Succ

-----------------------------------------------------------------------------
(* The table of handshakes *)

\* The thread is new and the status is none or failed1, so that nobody runs.
LEMMA StartHandshakeInv ==
  ASSUME TypeOK, HandInv, StatusInv, NEW s \in Servers, StartHandshake(s)
  PROVE  /\ hand' \in [Handshakes -> HandshakeState] /\ status' \in [Servers -> Statuses]
         /\ HandInv' /\ StatusInv'
  <1>1. PICK h \in Handshakes :
          /\ hand[h].pc = "none"
          /\ hand' = [hand EXCEPT ![h] =
               [NoHandshake EXCEPT !.pc = "connect", !.server = s,
                                   !.first = status[s] = "none"]]
    BY DEF StartHandshake
  <1> DEFINE r == [NoHandshake EXCEPT !.pc = "connect", !.server = s,
                                      !.first = status[s] = "none"]
  <1>2. /\ status[s] \in {"none", "failed1"} /\ context' = context
        /\ status' = [status EXCEPT ![s] = "handshaking"]
        /\ status \in [Servers -> Statuses]
        /\ hand \in [Handshakes -> HandshakeState]
    BY DEF StartHandshake, TypeOK
  <1>3. /\ r \in HandshakeState /\ r.pc = "connect" /\ r.server = s
        /\ r.first = (status[s] = "none") /\ r.listener = "none"
    BY DEF NoHandshake, HandshakeState
  <1>4. hand' = [hand EXCEPT ![h] = r]
    BY <1>1
  <1> HIDE DEF r
  <1>5. /\ hand' \in [Handshakes -> HandshakeState] /\ hand'[h] = r
        /\ Only(hand, hand', h)
    BY <1>2, <1>3, <1>4, HandSet
  <1>6. /\ status' \in [Servers -> Statuses] /\ status'[s] = "handshaking"
        /\ \A z \in Servers : z # s => status'[z] = status[z]
    BY <1>2 DEF Statuses
  <1>7. HandInv'
    BY <1>2, <1>3, <1>5 DEF HandInv, HandOK, Only
  <1>8. \A z \in Servers : h \notin Run(hand, z) /\ h \notin Fail(hand, z) /\ h \notin Succ(hand, z)
    BY <1>1 DEF Run, Fail, Succ
  <1>9. ASSUME NEW z \in Servers PROVE StatusOK(z)'
    <2>1. StatusOK(z) BY DEF StatusInv
    <2>2. CASE z = s
      <3>1. Run(hand, s) = {} /\ Succ(hand, s) = {}
            /\ (status[s] = "none" => Fail(hand, s) = {})
            /\ (status[s] = "failed1" => One(Fail(hand, s)))
        BY <1>2, <2>1, <2>2 DEF StatusOK
      <3>2. Run(hand', s) = {h} /\ Fail(hand', s) = Fail(hand, s) /\ Succ(hand', s) = {}
        <4>1. Run(hand', s) = Run(hand, s) \union {h}
          BY <1>3, <1>5, SetsFacts
        <4>2. Fail(hand', s) = Fail(hand, s) \ {h} /\ Succ(hand', s) = Succ(hand, s) \ {h}
          BY <1>3, <1>5, SetsFacts
        <4>3. Fail(hand', s) = Fail(hand, s)
          BY <1>8, <4>2
        <4> QED BY <3>1, <4>1, <4>2, <4>3
      <3>3. One(Run(hand', s)) BY <3>2 DEF One
      <3>4. One(Fail(hand', s)) <=> One(Fail(hand, s)) BY <3>2 DEF One
      <3>5. IF hand'[h].first THEN Fail(hand', s) = {} ELSE One(Fail(hand', s))
        BY <1>2, <1>3, <1>5, <3>1, <3>2, <3>4
      <3> QED BY <1>6, <2>2, <3>2, <3>3, <3>5 DEF StatusOK
    <2>3. CASE z # s
      <3>1. Run(hand', z) = Run(hand, z) /\ Fail(hand', z) = Fail(hand, z) /\ Succ(hand', z) = Succ(hand, z)
        BY <1>3, <1>5, <1>8, <2>3, SetsSame
      <3>2. \A x \in Run(hand, z) : hand'[x].first = hand[x].first
        BY <1>5, <1>8 DEF Run, Only
      <3> QED BY <1>6, <2>1, <2>3, <3>1, <3>2, StatusFrame
    <2> QED BY <2>2, <2>3
  <1> QED BY <1>5, <1>6, <1>7, <1>9 DEF StatusInv

\* A running thread fails: the status counts its failure as its own first says.
LEMMA HandshakeFailsInv ==
  ASSUME TypeOK, HandInv, StatusInv, NEW h \in Handshakes,
         hand[h].pc \in {"connect", "await"}, HandshakeFails(h), context' = context
  PROVE  /\ hand' \in [Handshakes -> HandshakeState] /\ status' \in [Servers -> Statuses]
         /\ HandInv' /\ StatusInv'
  <1> DEFINE r == Fails(hand[h])
             f == IF hand[h].first THEN "failed1" ELSE "failed2"
  <1>1. /\ hand \in [Handshakes -> HandshakeState] /\ status \in [Servers -> Statuses]
        /\ hand[h] \in HandshakeState
    BY DEF TypeOK
  <1>2. PICK s \in Servers : s = hand[h].server /\ HandOK(h)
    BY <1>1 DEF HandInv, HandOK
  <1>3. /\ r \in HandshakeState /\ r.pc = "failed" /\ r.server = s
        /\ r.failed = hand[h].failed
        /\ r.listener = "done" => hand[h].listener = "done"
    BY <1>1, <1>2 DEF HandshakeState, Fails
  <1>4. hand' = [hand EXCEPT ![h] = r] /\ status' = [status EXCEPT ![s] = f]
    BY <1>2 DEF HandshakeFails
  <1>5. h \in Run(hand, s)
    BY <1>2 DEF Run
  <1> HIDE DEF r
  <1>6. /\ hand' \in [Handshakes -> HandshakeState] /\ hand'[h] = r
        /\ Only(hand, hand', h)
    BY <1>1, <1>3, <1>4, HandSet
  <1>7. /\ status' \in [Servers -> Statuses] /\ status'[s] = f
        /\ \A z \in Servers : z # s => status'[z] = status[z]
    BY <1>1, <1>2, <1>4 DEF Statuses
  <1>8. HandInv'
    <2>1. HandOK(h)'
      BY <1>2, <1>3, <1>6 DEF HandOK
    <2>2. \A x \in Handshakes : x # h => HandOK(x)'
      BY <1>6 DEF HandInv, HandOK, Only
    <2> QED BY <2>1, <2>2 DEF HandInv
  <1>9. StatusOK(s)'
    <2>1. StatusOK(s) BY <1>2 DEF StatusInv
    <2>2. /\ Run(hand, s) = {h} /\ Succ(hand, s) = {}
          /\ IF hand[h].first THEN Fail(hand, s) = {} ELSE One(Fail(hand, s))
      BY <1>5, <2>1 DEF StatusOK, One
    <2>3. h \notin Fail(hand, s)
      BY <1>5 DEF Fail, Run
    <2>4. /\ Run(hand', s) = {} /\ Fail(hand', s) = Fail(hand, s) \union {h} /\ Succ(hand', s) = {}
      BY <1>3, <1>6, <2>2, SetsFacts
    <2>5. CASE hand[h].first
      <3>1. Fail(hand', s) = {h} BY <2>2, <2>4, <2>5
      <3> QED BY <1>7, <2>4, <2>5, <3>1 DEF StatusOK, One
    <2>6. CASE ~hand[h].first
      <3>1. PICK a \in Handshakes : Fail(hand, s) = {a} BY <2>2, <2>6 DEF One
      <3>2. Fail(hand', s) = {a, h} /\ a # h BY <2>3, <2>4, <3>1
      <3>3. Two(Fail(hand', s)) BY <3>2 DEF Two
      <3> QED BY <1>7, <2>4, <2>6, <3>3 DEF StatusOK
    <2> QED BY <2>5, <2>6
  <1>10. ASSUME NEW z \in Servers, z # s PROVE StatusOK(z)'
    <2>1. hand[h].server # z /\ hand'[h].server # z BY <1>2, <1>3, <1>6, <1>10
    <2>2. StatusOK(z) /\ status'[z] = status[z] BY <1>7, <1>10 DEF StatusInv
    <2> QED BY <1>6, <2>1, <2>2, OtherServer
  <1> QED BY <1>6, <1>7, <1>8, <1>9, <1>10 DEF StatusInv

\* A step that leaves every thread where it is keeps the sets of all servers.
LEMMA SamePlaces ==
  ASSUME StatusInv, status' = status,
         \A x \in Handshakes : /\ hand'[x].pc = hand[x].pc
                               /\ hand'[x].server = hand[x].server
                               /\ hand'[x].first = hand[x].first
  PROVE  StatusInv'
  <1> SUFFICES ASSUME NEW s \in Servers PROVE StatusOK(s)'
    BY DEF StatusInv
  <1>1. Run(hand', s) = Run(hand, s) BY DEF Run
  <1>2. Fail(hand', s) = Fail(hand, s) BY DEF Fail
  <1>3. Succ(hand', s) = Succ(hand, s) BY DEF Succ
  <1>4. \A x \in Run(hand, s) : hand'[x].first = hand[x].first BY DEF Run
  <1> QED BY <1>1, <1>2, <1>3, <1>4, StatusFrame DEF StatusInv

\* A thread that has connected still runs, and one that could not has failed.
LEMMA ConnectInv ==
  ASSUME TypeOK, HandInv, StatusInv, NEW h \in Handshakes, Connect(h)
  PROVE  /\ hand' \in [Handshakes -> HandshakeState] /\ status' \in [Servers -> Statuses]
         /\ HandInv' /\ StatusInv'
  <1>1. /\ hand[h].pc = "connect" /\ context' = context
        /\ hand \in [Handshakes -> HandshakeState] /\ status \in [Servers -> Statuses]
        /\ hand[h] \in HandshakeState
    BY DEF Connect, TypeOK
  <1>2. CASE HandshakeFails(h)
    BY <1>1, <1>2, HandshakeFailsInv
  <1>3. CASE /\ hand' = [hand EXCEPT ![h] = [@ EXCEPT !.pc = "await", !.listener = "pending"]]
             /\ status' = status
    <2> DEFINE r == [hand[h] EXCEPT !.pc = "await", !.listener = "pending"]
    <2>1. /\ r \in HandshakeState /\ r.pc = "await" /\ r.listener = "pending"
          /\ r.server = hand[h].server /\ r.first = hand[h].first
      BY <1>1 DEF HandshakeState
    <2>2. hand' = [hand EXCEPT ![h] = r] BY <1>3
    <2> HIDE DEF r
    <2>3. hand' \in [Handshakes -> HandshakeState] /\ hand'[h] = r /\ Only(hand, hand', h)
      BY <1>1, <2>1, <2>2, HandSet
    <2>4. HandInv'
      BY <1>1, <2>1, <2>3 DEF HandInv, HandOK, Only
    <2>5. StatusInv'
      <3> SUFFICES ASSUME NEW s \in Servers PROVE StatusOK(s)'
        BY DEF StatusInv
      <3>1. Run(hand', s) = Run(hand, s) BY <1>1, <2>1, <2>3 DEF Run, Only
      <3>2. Fail(hand', s) = Fail(hand, s) BY <1>1, <2>1, <2>3 DEF Fail, Only
      <3>3. Succ(hand', s) = Succ(hand, s) BY <1>1, <2>1, <2>3 DEF Succ, Only
      <3>4. \A x \in Run(hand, s) : hand'[x].first = hand[x].first
        BY <2>1, <2>3 DEF Run, Only
      <3> QED BY <1>3, <3>1, <3>2, <3>3, <3>4, StatusFrame DEF StatusInv
    <2> QED BY <1>1, <1>3, <2>3, <2>4, <2>5
  <1> QED BY <1>2, <1>3 DEF Connect

\* The listener leaves the threads where they are, and a context unless it fails.
LEMMA ListenerInv ==
  ASSUME TypeOK, HandInv, StatusInv, NEW h \in Handshakes, Listener(h)
  PROVE  /\ hand' \in [Handshakes -> HandshakeState] /\ context' \subseteq Servers
         /\ HandInv' /\ StatusInv'
  <1>1. PICK fails \in May("context") :
          /\ hand' = [hand EXCEPT ![h] = [@ EXCEPT !.listener = "done", !.failed = fails]]
          /\ context' = IF fails THEN context ELSE context \union {hand[h].server}
    BY DEF Listener
  <1>2. /\ hand[h].listener \in {"pending", "late"} /\ status' = status
        /\ hand \in [Handshakes -> HandshakeState] /\ hand[h] \in HandshakeState
        /\ context \subseteq Servers /\ fails \in BOOLEAN
    BY <1>1 DEF Listener, TypeOK, May
  <1>3. HandOK(h) /\ hand[h].pc # "none" /\ hand[h].pc # "connect" /\ hand[h].server \in Servers
    BY <1>2 DEF HandInv, HandOK
  <1> DEFINE r == [hand[h] EXCEPT !.listener = "done", !.failed = fails]
  <1>4. /\ r \in HandshakeState /\ r.pc = hand[h].pc /\ r.listener = "done"
        /\ r.server = hand[h].server /\ r.first = hand[h].first /\ r.failed = fails
    BY <1>2 DEF HandshakeState
  <1>5. hand' = [hand EXCEPT ![h] = r] BY <1>1
  <1> HIDE DEF r
  <1>6. hand' \in [Handshakes -> HandshakeState] /\ hand'[h] = r /\ Only(hand, hand', h)
    BY <1>2, <1>4, <1>5, HandSet
  <1>7. context' \subseteq Servers /\ context \subseteq context'
        /\ (~fails => hand[h].server \in context')
    BY <1>1, <1>2, <1>3
  <1>8. HandOK(h)'
    BY <1>3, <1>4, <1>6, <1>7 DEF HandOK
  <1>9. \A x \in Handshakes : x # h => HandOK(x)'
    BY <1>6, <1>7 DEF HandInv, HandOK, Only
  <1>10. StatusInv'
    <2>1. \A x \in Handshakes : /\ hand'[x].pc = hand[x].pc
                                /\ hand'[x].server = hand[x].server
                                /\ hand'[x].first = hand[x].first
      BY <1>4, <1>6 DEF Only
    <2> QED BY <1>2, <2>1, SamePlaces
  <1> QED BY <1>6, <1>7, <1>8, <1>9, <1>10 DEF HandInv

\* A thread whose latch was counted down succeeds and is the only one that ran.
LEMMA AwaitInv ==
  ASSUME TypeOK, HandInv, StatusInv, NEW h \in Handshakes, Await(h)
  PROVE  /\ hand' \in [Handshakes -> HandshakeState] /\ status' \in [Servers -> Statuses]
         /\ HandInv' /\ StatusInv'
  <1>1. /\ hand[h].pc = "await" /\ context' = context
        /\ hand \in [Handshakes -> HandshakeState] /\ status \in [Servers -> Statuses]
        /\ hand[h] \in HandshakeState
    BY DEF Await, TypeOK
  <1>2. CASE HandshakeFails(h)
    BY <1>1, <1>2, HandshakeFailsInv
  <1>3. CASE /\ hand[h].listener = "done"
             /\ status' = [status EXCEPT ![hand[h].server] = "success"]
             /\ hand' = [hand EXCEPT ![h] = [@ EXCEPT !.pc = "success"]]
    <2> DEFINE r == [hand[h] EXCEPT !.pc = "success"]
    <2>1. /\ r \in HandshakeState /\ r.pc = "success" /\ r.listener = "done"
          /\ hand[h].listener = "done"
          /\ r.server = hand[h].server /\ r.failed = hand[h].failed
      BY <1>1, <1>3 DEF HandshakeState
    <2>2. hand' = [hand EXCEPT ![h] = r] BY <1>3
    <2> HIDE DEF r
    <2>3. hand' \in [Handshakes -> HandshakeState] /\ hand'[h] = r /\ Only(hand, hand', h)
      BY <1>1, <2>1, <2>2, HandSet
    <2>4. PICK s \in Servers : s = hand[h].server /\ h \in Run(hand, s)
      BY <1>1 DEF HandInv, HandOK, Run
    <2>5. /\ status' \in [Servers -> Statuses] /\ status'[s] = "success"
          /\ \A z \in Servers : z # s => status'[z] = status[z]
      BY <1>1, <1>3, <2>4 DEF Statuses
    <2>6. HandInv'
      BY <1>1, <2>1, <2>3 DEF HandInv, HandOK, Only
    <2>7. StatusOK(s)'
      <3>1. StatusOK(s) BY DEF StatusInv
      <3>2. /\ Run(hand, s) = {h}
            /\ Fail(hand, s) = {} \/ One(Fail(hand, s))
        BY <2>4, <3>1 DEF StatusOK, One
      <3>3. h \notin Fail(hand, s) BY <1>1 DEF Fail
      <3>4. /\ Run(hand', s) = {} /\ Succ(hand', s) # {}
        BY <2>1, <2>3, <2>4, <3>2, SetsFacts
      <3>5. Fail(hand', s) = Fail(hand, s)
        BY <1>1, <2>1, <2>3 DEF Fail, Only
      <3> QED BY <2>5, <3>2, <3>4, <3>5 DEF StatusOK, One
    <2>8. ASSUME NEW z \in Servers, z # s PROVE StatusOK(z)'
      <3>1. hand[h].server # z /\ hand'[h].server # z BY <2>1, <2>3, <2>4, <2>8
      <3>2. StatusOK(z) /\ status'[z] = status[z] BY <2>5, <2>8 DEF StatusInv
      <3> QED BY <2>3, <3>1, <3>2, OtherServer
    <2> QED BY <2>3, <2>5, <2>6, <2>7, <2>8 DEF StatusInv
  <1> QED BY <1>2, <1>3 DEF Await

-----------------------------------------------------------------------------
(* What is known of a proxy, step by step *)

\* A proxy's step concerns that proxy only.
LEMMA ProxyStep ==
  ASSUME IInv, NEW p \in Proxies, NEW x \in ProxyState, ProxyOK(x), x.pc # "none",
         proxy' = [proxy EXCEPT ![p] = x],
         UNCHANGED <<status, context, hand, engine, capture>>
  PROVE  IInv'
  <1>1. /\ proxy' \in [Proxies -> ProxyState] /\ proxy'[p] = x
        /\ \A q \in Proxies : q # p => proxy'[q] = proxy[q]
    BY DEF IInv, TypeOK
  <1>2. TypeOK'
    BY <1>1 DEF IInv, TypeOK
  <1>3. HandInv' /\ StatusInv'
    BY HandFrame DEF IInv
  <1>4. EngineInv'
    BY <1>1 DEF IInv, EngineInv
  <1>5. ProxyInv'
    BY <1>1 DEF IInv, ProxyInv
  <1> QED BY <1>2, <1>3, <1>4, <1>5 DEF IInv

\* Setting where a thread of a proxy is leaves the rest of the proxy alone.
LEMMA AtFacts ==
  ASSUME NEW x \in ProxyState, NEW d \in Directions, NEW pc \in ForwardPcs
  PROVE  /\ At(x, d, pc) \in ProxyState
         /\ At(x, d, pc).pc = x.pc /\ At(x, d, pc).events = x.events
         /\ At(x, d, pc).serverSocket = x.serverSocket
         /\ At(x, d, pc).local = x.local /\ At(x, d, pc).socket = x.socket
  BY DEF At, ProxyState

\* While a proxy's thread awaits the forwarding threads.
LEMMA Awaiting ==
  ASSUME NEW x \in ProxyState, x.pc = "await"
  PROVE  ProxyOK(x) <=> /\ x.serverSocket = "closed"
                        /\ Unfinished(x.events) /\ Ordered(x.events)
  BY DEF ProxyOK

\* A thread that forwards is awaited.
LEMMA Forwarding ==
  ASSUME NEW x \in ProxyState, ProxyOK(x), NEW d \in Directions,
         x.forward[d] \notin {"none", "done"}
  PROVE  x.pc = "await"
  BY DEF ProxyOK

Events == Directions \union {"Establish", "Finish"}

\* What is told comes after all that was told before.
LEMMA AppendFacts ==
  ASSUME NEW ev \in Seq(Events), NEW e \in Events
  PROVE  /\ Append(ev, e) \in Seq(Events)
         /\ e # "Establish" /\ Unfinished(ev) /\ Ordered(ev) => Ordered(Append(ev, e))
         /\ e # "Finish" /\ Unfinished(ev) => Unfinished(Append(ev, e))
  BY DEF Ordered, Unfinished

\* The capture is told, or is not there.
LEMMA ToldFacts ==
  ASSUME NEW x \in ProxyState, NEW e \in Events
  PROVE  /\ Told(x, e) \in Seq(Events)
         /\ e # "Establish" /\ Unfinished(x.events) /\ Ordered(x.events) => Ordered(Told(x, e))
         /\ e # "Finish" /\ Unfinished(x.events) => Unfinished(Told(x, e))
  <1>1. x.events \in Seq(Events)
    BY DEF ProxyState, Events
  <1>2. CASE capture
    BY <1>1, <1>2, AppendFacts DEF Told
  <1>3. CASE ~capture
    BY <1>1, <1>3 DEF Told
  <1> QED BY <1>2, <1>3

\* The first event may be the establishment.
LEMMA ToldFirst ==
  ASSUME NEW x \in ProxyState, x.events = <<>>
  PROVE  Unfinished(Told(x, "Establish")) /\ Ordered(Told(x, "Establish"))
  BY DEF Told, Unfinished, Ordered

\* The catch and the finally close all that the proxy opened.
LEMMA AbandonedOK ==
  ASSUME NEW x \in ProxyState, ProxyOK(x), x.pc \in {"accept", "connect", "streams"},
         x.assigned \/ "race" \in Faults
  PROVE  Abandoned(x) \in ProxyState /\ ProxyOK(Abandoned(x)) /\ Abandoned(x).pc = "done"
  <1>1. /\ x.events = <<>> /\ \A d \in Directions : x.forward[d] = "none"
    BY DEF ProxyOK
  <1>2. CASE x.assigned
    <2>1. Abandoned(x) = [x EXCEPT !.pc = "done", !.serverSocket = "closed",
                            !.local = Closed(x.local), !.socket = Closed(x.socket)]
      BY <1>2 DEF Abandoned
    <2>2. /\ Closed(x.local) \in SocketState \ {"open"}
          /\ Closed(x.socket) \in SocketState \ {"open"}
      BY DEF ProxyState, SocketState, Closed
    <2> DEFINE c == Closed(x.local)
               k == Closed(x.socket)
    <2> HIDE DEF c, k
    <2>3. /\ Abandoned(x) \in ProxyState /\ Abandoned(x).pc = "done"
          /\ Abandoned(x).serverSocket = "closed"
          /\ Abandoned(x).local # "open" /\ Abandoned(x).socket # "open"
          /\ Abandoned(x).events = x.events /\ Abandoned(x).forward = x.forward
      BY <2>1, <2>2 DEF ProxyState, SocketState
    <2> QED BY <1>1, <2>3 DEF ProxyOK, Ordered
  <1>3. CASE ~x.assigned
    <2>1. /\ Abandoned(x) \in ProxyState /\ Abandoned(x).pc = "done"
          /\ Abandoned(x).events = x.events /\ Abandoned(x).forward = x.forward
      BY <1>3 DEF Abandoned, ProxyState
    <2> QED BY <1>1, <1>3, <2>1 DEF ProxyOK, Ordered
  <1> QED BY <1>2, <1>3

-----------------------------------------------------------------------------
(* The steps of a proxy *)

\* accept: the app is there, or the thread ends.
LEMMA AcceptInv ==
  ASSUME IInv, NEW p \in Proxies, accept(p)
  PROVE  IInv'
  <1>1. /\ proxy[p].pc = "accept" /\ (proxy[p].assigned \/ "race" \in Faults)
        /\ UNCHANGED <<status, context, hand, engine, capture>>
        /\ proxy[p] \in ProxyState /\ ProxyOK(proxy[p])
    BY DEF accept, IInv, TypeOK, ProxyInv
  <1>2. CASE proxy' = [proxy EXCEPT ![p] = Abandoned(@)]
    BY <1>1, <1>2, AbandonedOK, ProxyStep
  <1>3. CASE /\ proxy[p].assigned
             /\ proxy' = [proxy EXCEPT ![p] = [@ EXCEPT !.pc = "connect", !.local = "open"]]
    <2> DEFINE x == [proxy[p] EXCEPT !.pc = "connect", !.local = "open"]
    <2>1. /\ x \in ProxyState /\ x.pc = "connect" /\ x.assigned = proxy[p].assigned
          /\ x.forward = proxy[p].forward /\ x.events = proxy[p].events
      BY <1>1 DEF ProxyState, SocketState
    <2>2. proxy' = [proxy EXCEPT ![p] = x] BY <1>3
    <2> HIDE DEF x
    <2>3. ProxyOK(x) BY <1>1, <1>3, <2>1 DEF ProxyOK
    <2> QED BY <1>1, <2>1, <2>2, <2>3, ProxyStep
  <1> QED BY <1>2, <1>3 DEF accept

\* connectServer: the server is there, or the thread ends.
LEMMA ConnectServerInv ==
  ASSUME IInv, NEW p \in Proxies, connectServer(p)
  PROVE  IInv'
  <1>1. /\ proxy[p].pc = "connect" /\ proxy[p].assigned
        /\ UNCHANGED <<status, context, hand, engine, capture>>
        /\ proxy[p] \in ProxyState /\ ProxyOK(proxy[p])
    BY DEF connectServer, IInv, TypeOK, ProxyInv, ProxyOK
  <1>2. CASE proxy' = [proxy EXCEPT ![p] = Abandoned(@)]
    BY <1>1, <1>2, AbandonedOK, ProxyStep
  <1>3. CASE proxy' = [proxy EXCEPT ![p] = [@ EXCEPT !.pc = "streams", !.socket = "open"]]
    <2> DEFINE x == [proxy[p] EXCEPT !.pc = "streams", !.socket = "open"]
    <2>1. /\ x \in ProxyState /\ x.pc = "streams" /\ x.assigned = proxy[p].assigned
          /\ x.forward = proxy[p].forward /\ x.events = proxy[p].events
      BY <1>1 DEF ProxyState, SocketState
    <2>2. proxy' = [proxy EXCEPT ![p] = x] BY <1>3
    <2> HIDE DEF x
    <2>3. ProxyOK(x) BY <1>1, <2>1 DEF ProxyOK
    <2> QED BY <1>1, <2>1, <2>2, <2>3, ProxyStep
  <1> QED BY <1>2, <1>3 DEF connectServer

\* Establish: the first event is told and the two threads are started, or the
\* thread ends.
LEMMA EstablishInv ==
  ASSUME IInv, NEW p \in Proxies, Establish(p)
  PROVE  IInv'
  <1>1. /\ proxy[p].pc = "streams" /\ proxy[p].assigned /\ proxy[p].events = <<>>
        /\ UNCHANGED <<status, context, hand, engine, capture>>
        /\ proxy[p] \in ProxyState /\ ProxyOK(proxy[p])
    BY DEF Establish, IInv, TypeOK, ProxyInv, ProxyOK
  <1>2. CASE proxy' = [proxy EXCEPT ![p] = Abandoned(@)]
    BY <1>1, <1>2, AbandonedOK, ProxyStep
  <1>3. CASE proxy' = [proxy EXCEPT ![p] = Established(@)]
    <2> DEFINE x == Established(proxy[p])
               ev == Told(proxy[p], "Establish")
               fw == [d \in Directions |-> "loop"]
    <2>1. ev \in Seq(Events) /\ Unfinished(ev) /\ Ordered(ev)
      BY <1>1, ToldFacts, ToldFirst DEF Events
    <2>2. fw \in [Directions -> ForwardPcs]
      BY DEF ForwardPcs
    <2>3. x = [proxy[p] EXCEPT !.pc = "await", !.serverSocket = "closed", !.events = ev,
                               !.forward = fw]
      BY DEF Established
    <2> HIDE DEF ev, fw, x
    <2>4. /\ x \in ProxyState /\ x.pc = "await" /\ x.serverSocket = "closed" /\ x.events = ev
      BY <1>1, <2>1, <2>2, <2>3 DEF ProxyState, SocketState, Events
    <2>5. ProxyOK(x) BY <2>1, <2>4, Awaiting
    <2>6. proxy' = [proxy EXCEPT ![p] = x] BY <1>3 DEF x
    <2> QED BY <1>1, <2>4, <2>5, <2>6, ProxyStep
  <1> QED BY <1>2, <1>3 DEF Establish

\* Finish: the end is told once both threads have ended, and the sockets are closed.
LEMMA FinishInv ==
  ASSUME IInv, NEW p \in Proxies, Finish(p)
  PROVE  IInv'
  <1>1. /\ proxy[p].pc = "await" /\ \A d \in Directions : proxy[p].forward[d] = "done"
        /\ UNCHANGED <<status, context, hand, engine, capture>>
        /\ proxy[p] \in ProxyState /\ ProxyOK(proxy[p])
        /\ proxy' = [proxy EXCEPT ![p] = Finished(proxy[p])]
    BY DEF Finish, IInv, TypeOK, ProxyInv
  <1> DEFINE x == Finished(proxy[p])
             ev == Told(proxy[p], "Finish")
             c == Closed(proxy[p].local)
             k == Closed(proxy[p].socket)
  <1>2. ev \in Seq(Events) /\ Ordered(ev)
    BY <1>1, Awaiting, ToldFacts DEF Events
  <1>3. c \in SocketState \ {"open"} /\ k \in SocketState \ {"open"}
    BY <1>1 DEF ProxyState, SocketState, Closed
  <1>4. x = [proxy[p] EXCEPT !.pc = "done", !.events = ev, !.local = c, !.socket = k]
    BY DEF Finished
  <1> HIDE DEF ev, c, k, x
  <1>5. /\ x \in ProxyState /\ x.pc = "done" /\ x.events = ev
        /\ x.local # "open" /\ x.socket # "open"
        /\ x.serverSocket = proxy[p].serverSocket /\ x.forward = proxy[p].forward
    BY <1>1, <1>2, <1>3, <1>4 DEF ProxyState, SocketState, Events
  <1>6. ProxyOK(x)
    BY <1>1, <1>2, <1>5, Awaiting DEF ProxyOK
  <1>7. proxy' = [proxy EXCEPT ![p] = x] BY <1>1 DEF x
  <1> QED BY <1>1, <1>5, <1>6, <1>7, ProxyStep

-----------------------------------------------------------------------------
(* The steps of a forwarding thread *)

\* A step of a forwarding thread that tells nothing: the proxy is still awaiting, and
\* the server socket and the events are as they were.
LEMMA ForwardStep ==
  ASSUME IInv, NEW p \in Proxies, NEW d \in Directions,
         proxy[p].forward[d] \notin {"none", "done"},
         NEW x \in ProxyState, x.pc = proxy[p].pc, x.events = proxy[p].events,
         x.serverSocket = proxy[p].serverSocket,
         proxy' = [proxy EXCEPT ![p] = x],
         UNCHANGED <<status, context, hand, engine, capture>>
  PROVE  IInv'
  <1>1. proxy[p] \in ProxyState /\ ProxyOK(proxy[p])
    BY DEF IInv, TypeOK, ProxyInv
  <1>2. proxy[p].pc = "await" BY <1>1, Forwarding
  <1>3. ProxyOK(x) BY <1>1, <1>2, Awaiting
  <1> QED BY <1>2, <1>3, ProxyStep

\* Closing one of the sockets leaves the rest of the proxy alone.
LEMMA ClosingFacts ==
  ASSUME NEW x \in ProxyState, NEW d, NEW input
  PROVE  /\ Closing(x, d, input) \in ProxyState
         /\ Closing(x, d, input).pc = x.pc /\ Closing(x, d, input).events = x.events
         /\ Closing(x, d, input).serverSocket = x.serverSocket
  <1> DEFINE c == Closed(x.local)
             k == Closed(x.socket)
  <1>1. c \in SocketState /\ k \in SocketState
    BY DEF ProxyState, SocketState, Closed
  <1>2. Closing(x, d, input) = IF (d = "TX") = input THEN [x EXCEPT !.local = c]
                               ELSE [x EXCEPT !.socket = k]
    BY DEF Closing
  <1> HIDE DEF c, k
  <1>3. CASE (d = "TX") = input
    <2>1. Closing(x, d, input) = [x EXCEPT !.local = c] BY <1>2, <1>3
    <2> QED BY <1>1, <2>1 DEF ProxyState
  <1>4. CASE ~((d = "TX") = input)
    <2>1. Closing(x, d, input) = [x EXCEPT !.socket = k] BY <1>2, <1>4
    <2> QED BY <1>1, <2>1 DEF ProxyState
  <1> QED BY <1>3, <1>4

\* The exception of a proxy may be set on the way.
LEMMA ExceptionFacts ==
  ASSUME NEW x \in ProxyState, NEW b \in BOOLEAN
  PROVE  /\ [x EXCEPT !.exception = b] \in ProxyState
         /\ [x EXCEPT !.exception = b].pc = x.pc
         /\ [x EXCEPT !.exception = b].events = x.events
         /\ [x EXCEPT !.exception = b].serverSocket = x.serverSocket
  BY DEF ProxyState

\* Loop, SocketTimeout and Forward move one thread.
LEMMA MoveInv ==
  ASSUME IInv, NEW p \in Proxies, NEW d \in Directions,
         Loop(p, d) \/ (d = "TX" /\ SocketTimeout(p)) \/ Forward(p, d)
  PROVE  IInv'
  <1>1. /\ proxy[p] \in ProxyState /\ proxy[p].forward[d] \notin {"none", "done"}
        /\ UNCHANGED <<status, context, hand, engine, capture>>
    BY DEF IInv, TypeOK, Loop, SocketTimeout, Forward
  <1>2. PICK pc \in ForwardPcs : proxy' = [proxy EXCEPT ![p] = At(@, d, pc)]
    BY DEF Loop, SocketTimeout, Forward, ForwardPcs
  <1> DEFINE x == At(proxy[p], d, pc)
  <1>3. /\ x \in ProxyState /\ x.pc = proxy[p].pc /\ x.events = proxy[p].events
        /\ x.serverSocket = proxy[p].serverSocket
    BY <1>1, AtFacts
  <1> HIDE DEF x
  <1>4. proxy' = [proxy EXCEPT ![p] = x] BY <1>2 DEF x
  <1> QED BY <1>1, <1>3, <1>4, ForwardStep

\* Ends and Interrupted move one thread and may set the exception.
LEMMA EndsInv ==
  ASSUME IInv, NEW p \in Proxies, NEW d \in Directions, Ends(p, d) \/ Interrupted(p, d)
  PROVE  IInv'
  <1>1. /\ proxy[p] \in ProxyState /\ proxy[p].forward[d] \notin {"none", "done"}
        /\ UNCHANGED <<status, context, hand, engine, capture>>
    BY DEF IInv, TypeOK, Ends, Interrupted
  <1>2. PICK b \in BOOLEAN :
          proxy' = [proxy EXCEPT ![p] = [At(@, d, "close_in") EXCEPT !.exception = b]]
    BY DEF Ends, Interrupted, May
  <1> DEFINE y == At(proxy[p], d, "close_in")
             x == [y EXCEPT !.exception = b]
  <1>3. /\ y \in ProxyState /\ y.pc = proxy[p].pc /\ y.events = proxy[p].events
        /\ y.serverSocket = proxy[p].serverSocket
    BY <1>1, AtFacts DEF ForwardPcs
  <1>4. proxy' = [proxy EXCEPT ![p] = x] BY <1>2
  <1> HIDE DEF y
  <1>5. /\ x \in ProxyState /\ x.pc = proxy[p].pc /\ x.events = proxy[p].events
        /\ x.serverSocket = proxy[p].serverSocket
    BY <1>3, ExceptionFacts
  <1> HIDE DEF x
  <1> QED BY <1>1, <1>4, <1>5, ForwardStep

\* CloseInput and CloseOutput move one thread and close one socket.
LEMMA CloseInv ==
  ASSUME IInv, NEW p \in Proxies, NEW d \in Directions, CloseInput(p, d) \/ CloseOutput(p, d)
  PROVE  IInv'
  <1>1. /\ proxy[p] \in ProxyState /\ proxy[p].forward[d] \notin {"none", "done"}
        /\ UNCHANGED <<status, context, hand, engine, capture>>
    BY DEF IInv, TypeOK, CloseInput, CloseOutput
  <1>2. PICK pc \in ForwardPcs, input \in BOOLEAN :
          proxy' = [proxy EXCEPT ![p] = Closing(At(@, d, pc), d, input)]
    BY DEF CloseInput, CloseOutput, ForwardPcs
  <1> DEFINE y == At(proxy[p], d, pc)
             x == Closing(y, d, input)
  <1>3. /\ y \in ProxyState /\ y.pc = proxy[p].pc /\ y.events = proxy[p].events
        /\ y.serverSocket = proxy[p].serverSocket
    BY <1>1, AtFacts
  <1>4. proxy' = [proxy EXCEPT ![p] = x] BY <1>2
  <1> HIDE DEF y
  <1>5. /\ x \in ProxyState /\ x.pc = proxy[p].pc /\ x.events = proxy[p].events
        /\ x.serverSocket = proxy[p].serverSocket
    BY <1>3, ClosingFacts
  <1> HIDE DEF x
  <1> QED BY <1>1, <1>4, <1>5, ForwardStep

\* Tell: the direction is appended while the proxy awaits its threads.
LEMMA TellInv ==
  ASSUME IInv, NEW p \in Proxies, NEW d \in Directions, Tell(p, d)
  PROVE  IInv'
  <1>1. /\ proxy[p] \in ProxyState /\ proxy[p].forward[d] \notin {"none", "done"}
        /\ UNCHANGED <<status, context, hand, engine, capture>> /\ ProxyOK(proxy[p])
        /\ proxy' = [proxy EXCEPT ![p] = [At(@, d, "read") EXCEPT !.events = Told(proxy[p], d)]]
    BY DEF IInv, TypeOK, ProxyInv, Tell
  <1> DEFINE y == At(proxy[p], d, "read")
             ev == Told(proxy[p], d)
             x == [y EXCEPT !.events = ev]
  <1>2. proxy[p].pc = "await" BY <1>1, Forwarding
  <1>3. /\ proxy[p].serverSocket = "closed"
        /\ Unfinished(proxy[p].events) /\ Ordered(proxy[p].events)
    BY <1>1, <1>2, Awaiting
  <1>4. d \in Events /\ d # "Establish" /\ d # "Finish"
    BY DEF Directions, Events
  <1>5. ev \in Seq(Events) /\ Ordered(ev) /\ Unfinished(ev)
    BY <1>1, <1>3, <1>4, ToldFacts
  <1>6. y \in ProxyState /\ y.pc = "await" /\ y.serverSocket = "closed"
    BY <1>1, <1>2, <1>3, AtFacts DEF ForwardPcs
  <1>7. proxy' = [proxy EXCEPT ![p] = x] BY <1>1
  <1> HIDE DEF y, ev
  <1>8. x \in ProxyState /\ x.pc = "await" /\ x.serverSocket = "closed" /\ x.events = ev
    BY <1>5, <1>6 DEF ProxyState, Events
  <1> HIDE DEF x
  <1>9. ProxyOK(x) BY <1>5, <1>8, Awaiting
  <1> QED BY <1>1, <1>7, <1>8, <1>9, ProxyStep

-----------------------------------------------------------------------------
(* The engine, and the invariant *)

\* A verdict leaves the engine idle.
LEMMA VerdictFacts ==
  ASSUME NEW v \in {"refused", "passed", "redirected"}, Verdict(v)
  PROVE  engine' \in EngineState /\ engine'.pc = "idle"
  BY DEF Verdict, EngineIdle, EngineState

\* A step of the table or of a handshake thread leaves the proxies alone.
LEMMA TableStep ==
  ASSUME IInv, hand' \in [Handshakes -> HandshakeState], status' \in [Servers -> Statuses],
         context' \subseteq Servers, HandInv', StatusInv', UNCHANGED <<proxy, capture>>,
         engine' = engine \/ (engine' \in EngineState /\ engine'.pc = "idle")
  PROVE  IInv'
  <1>1. TypeOK' BY DEF IInv, TypeOK
  <1>2. EngineInv' BY DEF IInv, EngineInv
  <1>3. ProxyInv' BY DEF IInv, ProxyInv
  <1> QED BY <1>1, <1>2, <1>3 DEF IInv

\* create decides on a packet.
LEMMA CreateInv ==
  ASSUME IInv, NEW s \in Servers, create(s)
  PROVE  IInv'
  <1>0. TypeOK /\ HandInv /\ StatusInv BY DEF IInv
  <1>1. CASE StartHandshake(s)
    <2>1. engine' \in EngineState /\ engine'.pc = "idle"
      BY <1>1, VerdictFacts DEF StartHandshake
    <2>2. UNCHANGED <<context, proxy, capture>> /\ context' \subseteq Servers
      BY <1>0, <1>1 DEF StartHandshake, TypeOK
    <2> QED BY <1>0, <1>1, <2>1, <2>2, StartHandshakeInv, TableStep
  <1>2. CASE \/ Refuse(s) \/ PassThrough(s)
             \/ /\ Verdict("refused") /\ UNCHANGED <<status, context, hand, proxy, capture>>
    <2>1. engine' \in EngineState /\ engine'.pc = "idle"
      BY <1>2, VerdictFacts DEF Refuse, PassThrough
    <2>2. UNCHANGED <<status, context, hand, proxy, capture>>
      BY <1>2 DEF Refuse, PassThrough
    <2>3. /\ hand' \in [Handshakes -> HandshakeState] /\ status' \in [Servers -> Statuses]
          /\ context' \subseteq Servers
      BY <1>0, <2>2 DEF TypeOK
    <2>4. HandInv' /\ StatusInv' BY <1>0, <2>2, HandFrame
    <2> QED BY <2>1, <2>2, <2>3, <2>4, TableStep
  <1>3. ASSUME NEW p \in Proxies, proxy[p].pc = "none",
               proxy' = [proxy EXCEPT ![p] = [@ EXCEPT !.pc = "accept", !.serverSocket = "open"]],
               engine' = [EngineIdle EXCEPT !.pc = "assign", !.proxy = p],
               UNCHANGED <<status, context, hand, capture>>
        PROVE  IInv'
    <2> DEFINE x == [proxy[p] EXCEPT !.pc = "accept", !.serverSocket = "open"]
    <2>1. proxy[p] \in ProxyState /\ proxy[p] = NoProxy /\ proxy \in [Proxies -> ProxyState]
      BY <1>0, <1>3 DEF IInv, TypeOK, ProxyInv, ProxyOK
    <2>2. /\ x \in ProxyState /\ x.pc = "accept"
          /\ x.forward = proxy[p].forward /\ x.events = proxy[p].events
      BY <2>1 DEF ProxyState, SocketState
    <2>3. proxy' = [proxy EXCEPT ![p] = x] BY <1>3
    <2> HIDE DEF x
    <2>4. /\ proxy[p].events = <<>> /\ \A d \in Directions : proxy[p].forward[d] = "none"
      BY <2>1 DEF NoProxy
    <2>5. ProxyOK(x) BY <2>2, <2>4 DEF ProxyOK, Unfinished, Ordered
    <2>6. /\ proxy' \in [Proxies -> ProxyState] /\ proxy'[p] = x
          /\ \A q \in Proxies : q # p => proxy'[q] = proxy[q]
      BY <2>1, <2>2, <2>3
    <2>7. engine' \in EngineState /\ engine'.proxy = p
      BY <1>3 DEF EngineIdle, EngineState
    <2>8. TypeOK' BY <1>0, <1>3, <2>6, <2>7 DEF TypeOK
    <2>9. HandInv' /\ StatusInv' BY <1>0, <1>3, HandFrame
    <2>10. EngineInv' BY <2>2, <2>6, <2>7 DEF EngineInv
    <2>11. ProxyInv' BY <2>5, <2>6 DEF IInv, ProxyInv
    <2> QED BY <2>8, <2>9, <2>10, <2>11 DEF IInv
  <1>4. CASE startSSLServerSocket(s)
    BY <1>2, <1>3, <1>4 DEF startSSLServerSocket
  <1> QED BY <1>1, <1>2, <1>4 DEF create

\* redirect: the field is assigned, wherever the thread is by now.
LEMMA RedirectInv ==
  ASSUME IInv, redirect
  PROVE  IInv'
  <1>1. PICK p \in Proxies : p = engine.proxy /\ proxy[p].pc # "none"
    BY DEF redirect, IInv, EngineInv
  <1>2. /\ proxy[p] \in ProxyState /\ ProxyOK(proxy[p]) /\ proxy \in [Proxies -> ProxyState]
        /\ UNCHANGED <<status, context, hand, capture>>
        /\ proxy' = [proxy EXCEPT ![p] = [@ EXCEPT !.assigned = TRUE]]
    BY <1>1 DEF redirect, IInv, TypeOK, ProxyInv
  <1> DEFINE x == [proxy[p] EXCEPT !.assigned = TRUE]
  <1>3. /\ x \in ProxyState /\ x.pc = proxy[p].pc /\ x.events = proxy[p].events
        /\ x.forward = proxy[p].forward /\ x.assigned = TRUE
        /\ x.serverSocket = proxy[p].serverSocket
        /\ x.local = proxy[p].local /\ x.socket = proxy[p].socket
    BY <1>2 DEF ProxyState
  <1>4. proxy' = [proxy EXCEPT ![p] = x] BY <1>2
  <1> HIDE DEF x
  <1>5. ProxyOK(x) BY <1>1, <1>2, <1>3 DEF ProxyOK
  <1>6. /\ proxy' \in [Proxies -> ProxyState] /\ proxy'[p] = x
        /\ \A q \in Proxies : q # p => proxy'[q] = proxy[q]
    BY <1>2, <1>3, <1>4
  <1>7. engine' \in EngineState /\ engine'.pc = "idle"
    BY VerdictFacts DEF redirect
  <1>8. TypeOK' BY <1>2, <1>6, <1>7 DEF IInv, TypeOK
  <1>9. HandInv' /\ StatusInv' BY <1>2, HandFrame DEF IInv
  <1>10. EngineInv' BY <1>7 DEF EngineInv
  <1>11. ProxyInv' BY <1>5, <1>6 DEF IInv, ProxyInv
  <1> QED BY <1>8, <1>9, <1>10, <1>11 DEF IInv

\* The initial states satisfy the invariant.
LEMMA InitInv == Init => IInv
  <1> SUFFICES ASSUME Init PROVE IInv
    OBVIOUS
  <1>1. NoHandshake \in HandshakeState
    BY DEF NoHandshake, HandshakeState
  <1>2. NoProxy \in ProxyState
    BY DEF NoProxy, ProxyState, SocketState, ForwardPcs
  <1>3. EngineIdle \in EngineState /\ EngineIdle.pc = "idle"
    BY DEF EngineIdle, EngineState
  <1>4. TypeOK
    BY <1>1, <1>2, <1>3 DEF Init, TypeOK, Statuses
  <1>5. \A h \in Handshakes : hand[h] = NoHandshake
    BY DEF Init
  <1>6. HandInv
    BY <1>5 DEF HandInv, HandOK, NoHandshake
  <1>7. \A s \in Servers : status[s] = "none" /\ Run(hand, s) = {} /\ Fail(hand, s) = {}
                           /\ Succ(hand, s) = {}
    BY <1>5 DEF Init, Run, Fail, Succ, NoHandshake
  <1>8. StatusInv
    BY <1>7 DEF StatusInv, StatusOK
  <1>9. EngineInv
    BY <1>3 DEF Init, EngineInv
  <1>10. ProxyOK(NoProxy)
    BY DEF ProxyOK, NoProxy, Unfinished, Ordered
  <1>11. ProxyInv
    BY <1>10 DEF Init, ProxyInv
  <1> QED BY <1>4, <1>6, <1>8, <1>9, <1>11 DEF IInv

\* Every step preserves the invariant.
LEMMA NextInv == IInv /\ [Next]_vars => IInv'
  <1> SUFFICES ASSUME IInv, [Next]_vars PROVE IInv'
    OBVIOUS
  <1>0. TypeOK /\ HandInv /\ StatusInv BY DEF IInv
  <1>1. ASSUME NEW s \in Servers, create(s) PROVE IInv'
    BY <1>1, CreateInv
  <1>2. CASE redirect
    BY <1>2, RedirectInv
  <1>3. ASSUME NEW h \in Handshakes, Connect(h) \/ Await(h) PROVE IInv'
    <2>1. /\ UNCHANGED <<context, engine, proxy, capture>> /\ context' \subseteq Servers
      BY <1>0, <1>3 DEF Connect, Await, TypeOK
    <2>2. /\ hand' \in [Handshakes -> HandshakeState] /\ status' \in [Servers -> Statuses]
          /\ HandInv' /\ StatusInv'
      BY <1>0, <1>3, ConnectInv, AwaitInv
    <2> QED BY <2>1, <2>2, TableStep
  <1>4. ASSUME NEW h \in Handshakes, Listener(h) PROVE IInv'
    <2>1. UNCHANGED <<status, engine, proxy, capture>> /\ status' \in [Servers -> Statuses]
      BY <1>0, <1>4 DEF Listener, TypeOK
    <2>2. /\ hand' \in [Handshakes -> HandshakeState] /\ context' \subseteq Servers
          /\ HandInv' /\ StatusInv'
      BY <1>0, <1>4, ListenerInv
    <2> QED BY <2>1, <2>2, TableStep
  <1>5. ASSUME NEW p \in Proxies,
               accept(p) \/ connectServer(p) \/ Establish(p) \/ Finish(p)
        PROVE  IInv'
    BY <1>5, AcceptInv, ConnectServerInv, EstablishInv, FinishInv
  <1>6. ASSUME NEW p \in Proxies, NEW d \in Directions,
               Runs(p, d) \/ Forward(p, d) \/ Ends(p, d)
        PROVE  IInv'
    BY <1>6, MoveInv, EndsInv, CloseInv, TellInv DEF Runs
  <1>7. CASE setPacketCapture
    <2>1. HandInv' /\ StatusInv' BY <1>0, <1>7, HandFrame DEF setPacketCapture
    <2>2. TypeOK' BY <1>0, <1>7 DEF setPacketCapture, TypeOK
    <2>3. EngineInv' /\ ProxyInv' BY <1>7 DEF setPacketCapture, IInv, EngineInv, ProxyInv
    <2> QED BY <2>1, <2>2, <2>3 DEF IInv
  <1>8. CASE UNCHANGED vars
    <2>1. HandInv' /\ StatusInv' BY <1>0, <1>8, HandFrame DEF vars
    <2>2. TypeOK' BY <1>0, <1>8 DEF vars, TypeOK
    <2>3. EngineInv' /\ ProxyInv' BY <1>8 DEF vars, IInv, EngineInv, ProxyInv
    <2> QED BY <2>1, <2>2, <2>3 DEF IInv
  <1> QED BY <1>1, <1>2, <1>3, <1>4, <1>5, <1>6, <1>7, <1>8 DEF Next

\* The invariant holds in every reachable state.
LEMMA Invariance == Spec => []IInv
  BY InitInv, NextInv, PTL DEF Spec

-----------------------------------------------------------------------------
(* The theorems *)

\* The sets that StatusInv names have the cardinalities that StatusHonest counts.
LEMMA Counted == IInv => StatusHonest
  <1> SUFFICES ASSUME IInv, NEW s \in Servers
               PROVE  /\ Cardinality(Running(s)) = IF status[s] = "handshaking" THEN 1 ELSE 0
                      /\ (status[s] = "success") <=> (Succeeded(s) # {})
                      /\ Cardinality(Failed(s)) <= 2
                      /\ (status[s] = "failed2") <=> (Cardinality(Failed(s)) = 2)
                      /\ status[s] = "failed1" => Cardinality(Failed(s)) = 1
                      /\ status[s] = "success" =>
                            s \in context \/ \E h \in Succeeded(s) : hand[h].failed
    BY DEF StatusHonest
  <1>1. /\ Running(s) = Run(hand, s) /\ Failed(s) = Fail(hand, s)
        /\ Succeeded(s) = Succ(hand, s)
    BY DEF Running, Failed, Succeeded, Run, Fail, Succ
  <1>2. StatusOK(s) /\ status[s] \in Statuses
    BY DEF IInv, StatusInv, TypeOK
  <1>3. Cardinality({}) = 0
    BY FS_EmptySet
  <1>4. ASSUME NEW S, One(S) PROVE Cardinality(S) = 1
    BY <1>4, FS_Singleton DEF One
  <1>5. ASSUME NEW S, Two(S) PROVE Cardinality(S) = 2
    <2>1. PICK a, b \in Handshakes : a # b /\ S = {a, b} BY <1>5 DEF Two
    <2>2. IsFiniteSet({a}) /\ Cardinality({a}) = 1 BY FS_Singleton
    <2> DEFINE A == {a}
    <2>5. b \notin A BY <2>1
    <2> HIDE DEF A
    <2>6. Cardinality(A \union {b}) = Cardinality(A) + 1
      BY <2>2, <2>5, FS_AddElement DEF A
    <2>3. Cardinality({a} \union {b}) = 2 BY <2>2, <2>6 DEF A
    <2>4. {a} \union {b} = S BY <2>1
    <2> QED BY <2>3, <2>4
  <1>6. Cardinality(Running(s)) = IF status[s] = "handshaking" THEN 1 ELSE 0
    BY <1>1, <1>2, <1>3, <1>4 DEF StatusOK
  <1>7. /\ status[s] = "none" => Cardinality(Failed(s)) = 0
        /\ status[s] = "failed1" => Cardinality(Failed(s)) = 1
        /\ status[s] = "failed2" => Cardinality(Failed(s)) = 2
        /\ status[s] = "success" => Cardinality(Failed(s)) \in {0, 1}
    BY <1>1, <1>2, <1>3, <1>4, <1>5 DEF StatusOK
  <1>8. status[s] = "handshaking" => Cardinality(Failed(s)) \in {0, 1}
    <2>1. SUFFICES ASSUME status[s] = "handshaking"
                   PROVE  Fail(hand, s) = {} \/ One(Fail(hand, s))
      BY <1>1, <1>3, <1>4
    <2>2. PICK h \in Handshakes : Run(hand, s) = {h}
      BY <1>2, <2>1 DEF StatusOK, One
    <2> QED BY <1>2, <2>2 DEF StatusOK
  <1>9. status[s] = "success" => s \in context \/ \E h \in Succeeded(s) : hand[h].failed
    <2>1. SUFFICES ASSUME status[s] = "success"
                   PROVE  s \in context \/ \E h \in Succeeded(s) : hand[h].failed
      OBVIOUS
    <2>2. PICK h \in Handshakes : hand[h].server = s /\ hand[h].pc = "success"
      BY <1>2, <2>1 DEF StatusOK, Succ
    <2>3. hand[h].failed \/ s \in context
      BY <2>2 DEF IInv, HandInv, HandOK
    <2> QED BY <2>2, <2>3 DEF Succeeded
  <1>10. (status[s] = "success") <=> (Succeeded(s) # {})
    BY <1>1, <1>2 DEF StatusOK
  <1> QED BY <1>2, <1>6, <1>7, <1>8, <1>9, <1>10 DEF Statuses

\* The statuses, the threads, the sockets and the events always have their types.
THEOREM TypeCorrect == Spec => []TypeOK
  <1>1. IInv => TypeOK BY DEF IInv
  <1> QED BY <1>1, Invariance, PTL

\* The table of handshakes tells the truth of the threads that write it: one
\* handshake at a time, at most two failures, and a success with its context unless
\* createSSLContext failed, for any number of servers and threads.
THEOREM StatusAlwaysHonest == Spec => []StatusHonest
  BY Counted, Invariance, PTL

\* The capture hears of a connection in order, whichever thread is forwarding when
\* the other one ends, and even when a proxy's thread overtakes its constructor.
THEOREM EventsAlwaysInOrder == Spec => []EventsInOrder
  <1>1. IInv => EventsInOrder
    BY DEF IInv, ProxyInv, ProxyOK, Ordered, EventsInOrder
  <1> QED BY <1>1, Invariance, PTL

\* Unless a proxy's thread overtakes the constructor that assigns its server socket,
\* it leaves nothing open and no thread behind when it is done.
THEOREM NoSocketEverLeaks == ("race" \notin Faults) => (Spec => []NoSocketLeak)
  <1> SUFFICES ASSUME "race" \notin Faults PROVE Spec => []NoSocketLeak
    OBVIOUS
  <1>1. IInv => NoSocketLeak
    <2> SUFFICES ASSUME IInv, NEW p \in Proxies, proxy[p].pc = "done"
                 PROVE  /\ "open" \notin {proxy[p].serverSocket, proxy[p].local, proxy[p].socket}
                        /\ \A d \in Directions : proxy[p].forward[d] \in {"none", "done"}
      BY DEF NoSocketLeak
    <2> QED BY DEF IInv, ProxyInv, ProxyOK
  <1> QED BY <1>1, Invariance, PTL

=============================================================================
