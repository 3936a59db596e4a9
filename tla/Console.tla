------------------------------ MODULE Console ------------------------------
(***************************************************************************)
(* The console server inside an app (AbstractInspector): the thread run,   *)
(* which accepts one client after the other, and the threads of the app,   *)
(* whose hooks call writeToConsole at any time.  A message is written to   *)
(* the client under the object's lock, or cached while there is no client; *)
(* closeConsole, which both sides call, has no lock of its own.            *)
(*                                                                         *)
(* A frame is written in several pieces, here a head and a body.  A step   *)
(* reads or writes one shared field.  Messages and consoles are numbered in  *)
(* the order of their calls and connections; 0 is none, or null.           *)
(***************************************************************************)
EXTENDS Integers, Sequences, FiniteSets

CONSTANTS
    Writers,       \* threads of the app
    MainThread,    \* the one among them that must not use the network
    MessageBound,  \* bound on the messages (InspectCache) that are written
    ConsoleBound,  \* bound on the connections that are accepted
    CacheBound     \* messages kept in cacheQueue (10000)

ASSUME ConsoleAssumption ==
    /\ MainThread \in Writers /\ "run" \notin Writers /\ "none" \notin Writers
    /\ MessageBound \in Nat /\ ConsoleBound \in Nat /\ CacheBound \in Nat \ {0}

Threads == Writers \union {"run"}
Messages == 1..MessageBound
Consoles == 1..ConsoleBound

VARIABLES
    console,  \* the field console
    conn,     \* the connections: our side and the client's
    wire,     \* what was written to each of them
    cache,    \* cacheQueue
    offered,  \* what was ever put into it, in order
    sent,     \* the number of messages
    gone,     \* messages that are lost (an exception) or dropped (no room)
    lock,     \* who is in a synchronized method of the inspector
    thr,      \* the threads
    capture   \* was the VPN service told that a console is connected

vars == <<console, conn, wire, cache, offered, sent, gone, lock, thr, capture>>

\* op: "write" or "flush"; file: must msg not be cached (canCache); con: the console that writeTo was given, or the local
\* variable of run; ret: where the caller continues.
ThreadAt(pc, con) == [pc |-> pc, op |-> "none", msg |-> 0, file |-> FALSE, con |-> con,
                      ret |-> "idle"]

InFlight(m) == \E t \in Threads : thr[t].msg = m
IsOn(c, m) == \E i \in 1..Len(wire[c]) : wire[c][i].msg = m
OnWire(m) == \E c \in Consoles : IsOn(c, m)
Cached(m) == \E i \in 1..Len(cache) : cache[i] = m

Goto(t, pc) == thr' = [thr EXCEPT ![t].pc = pc]
Picks(t, c, pc) == thr' = [thr EXCEPT ![t].pc = pc, ![t].con = c]
Released(t) == lock' = IF lock = t THEN "none" ELSE lock
Returned(t, pc) ==
    /\ Released(t)
    /\ thr' = [thr EXCEPT ![t] = ThreadAt(pc, thr[t].con)]

-----------------------------------------------------------------------------
(* writeToConsole *)

Calls(t, file, ret) ==
    /\ sent < MessageBound /\ sent' = sent + 1
    /\ thr' = [thr EXCEPT ![t] = [pc |-> "enter", op |-> "write", msg |-> sent + 1,
                                  file |-> file, con |-> thr[t].con, ret |-> ret]]

\* A hook, or anything else in the app, prints.
writeToConsole(t, file) ==
    /\ t \in Writers /\ thr[t].pc = "idle"
    /\ Calls(t, file, "idle")
    /\ UNCHANGED <<console, conn, wire, cache, offered, gone, lock, capture>>

Enter(t) ==
    /\ thr[t].pc = "enter" /\ lock = "none"
    /\ lock' = t /\ Goto(t, "check")
    /\ UNCHANGED <<console, conn, wire, cache, offered, sent, gone, capture>>

\* Mutant: the queue is not limited.
BadOffer(q, m) == Append(q, m)

\* offer, then poll while there are too many.
Offer(q, m) ==
    LET r == Append(q, m) IN SubSeq(r, IF Len(r) > CacheBound THEN 2 ELSE 1, Len(r))

CheckConsole(t) ==
    /\ thr[t].pc = "check"
    /\ IF console # 0 /\ t # MainThread
       THEN Goto(t, "get") /\ UNCHANGED <<cache, offered, gone, lock>>
       ELSE /\ IF thr[t].file
               THEN gone' = gone \union {thr[t].msg} /\ UNCHANGED <<cache, offered>>
               ELSE /\ cache' = Offer(cache, thr[t].msg)
                    /\ offered' = Append(offered, thr[t].msg)
                    /\ gone' = gone \union {cache[i] : i \in 1..(Len(cache) + 1 - Len(cache'))}
            /\ Returned(t, thr[t].ret)
    /\ UNCHANGED <<console, conn, wire, sent, capture>>

\* An unchecked exception leaves writeToConsole or flushCache: the message is lost.
\* run catches it, a writer's caller gets it.
Throws(t) ==
    /\ gone' = gone \union {thr[t].msg}
    /\ Returned(t, IF t = "run" THEN "caught" ELSE "idle")

\* writeTo(console): the field is read again.  It may be null by now, and a console
\* that is not open yet has no stream.
GetConsole(t) ==
    /\ thr[t].pc = "get"
    /\ IF console = 0 THEN Throws(t)
       ELSE IF conn[console].server = "new" THEN Throws(t)
       ELSE /\ Picks(t, console, "head")
            /\ UNCHANGED <<gone, lock>>
    /\ UNCHANGED <<console, conn, wire, cache, offered, sent, capture>>

\* An IOException: the writer closes the console, keeping the lock; flushCache leaves
\* that to run, which first opens a new server socket or waits a second.
Fails(t) ==
    /\ gone' = gone \union {thr[t].msg}
    /\ IF thr[t].op = "write"
       THEN /\ thr' = [thr EXCEPT ![t] = [@ EXCEPT !.pc = "close_check", !.msg = 0,
                                                   !.file = FALSE]]
            /\ UNCHANGED lock
       ELSE Returned(t, "recover")

Piece(t, piece) ==
    wire' = [wire EXCEPT ![thr[t].con] = Append(@, [msg |-> thr[t].msg, piece |-> piece])]

\* Writing to a socket that we closed fails, and to one that has failed before;
\* if the client has just left it may fail or not.  It waits, without a timeout, for
\* a client that does not read ("full").
CanWrite(c) == conn[c].server = "open" /\ conn[c].client \in {"up", "left"}
CanFail(c) == conn[c].server = "closed" \/ conn[c].client \in {"left", "broken"}
Broken(c) == conn' = [conn EXCEPT ![c].client = IF @ = "left" THEN "broken" ELSE @]

WriteHead(t) ==
    /\ thr[t].pc = "head"
    /\ \/ /\ CanWrite(thr[t].con)
          /\ Piece(t, "head") /\ Goto(t, "body") /\ UNCHANGED <<conn, gone, lock>>
       \/ /\ CanFail(thr[t].con)
          /\ Fails(t) /\ Broken(thr[t].con) /\ UNCHANGED wire
    /\ UNCHANGED <<console, cache, offered, sent, capture>>

\* The rest of the frame: outputBody.  It may throw although the socket is in order,
\* an IOException (a file that cannot be read, a string too long for writeUTF) or an
\* unchecked one (a string that is null), when the head is already written.
WriteBody(t) ==
    /\ thr[t].pc = "body"
    /\ \/ /\ CanWrite(thr[t].con)
          /\ Piece(t, "body") /\ UNCHANGED <<conn, gone>>
          /\ IF thr[t].op = "write" THEN Returned(t, thr[t].ret)
             ELSE /\ thr' = [thr EXCEPT ![t] = [@ EXCEPT !.pc = "poll", !.msg = 0]]
                  /\ UNCHANGED lock
       \/ Fails(t) /\ Broken(thr[t].con) /\ UNCHANGED wire
       \/ Throws(t) /\ UNCHANGED <<conn, wire>>
    /\ UNCHANGED <<console, cache, offered, sent, capture>>

-----------------------------------------------------------------------------
(* closeConsole: of a writer that failed, with the lock, or of run, without *)

InFinally(t) == t = "run" /\ lock # t

CloseDone(t) ==
    IF InFinally(t) THEN Goto(t, "announce") /\ UNCHANGED lock
    ELSE Returned(t, thr[t].ret)

CloseCheck(t) ==
    /\ thr[t].pc = "close_check"
    /\ IF console = 0 THEN CloseDone(t) ELSE Goto(t, "on_closed") /\ UNCHANGED lock
    /\ UNCHANGED <<console, conn, wire, cache, offered, sent, gone, capture>>

\* CONSOLE_DISCONNECTED, on which the service forgets its capture.
onClosed(t) ==
    /\ thr[t].pc = "on_closed"
    /\ capture' = FALSE /\ Goto(t, "close")
    /\ UNCHANGED <<console, conn, wire, cache, offered, sent, gone, lock>>

\* If the other side has set the field to null since, close() throws: out of the
\* finally of run, which ends the thread.
Close(t) ==
    /\ thr[t].pc = "close"
    /\ IF console = 0
       THEN /\ IF InFinally(t) THEN Goto(t, "dead") /\ UNCHANGED lock
               ELSE Returned(t, IF t = "run" THEN "caught" ELSE "idle")
            /\ UNCHANGED conn
       ELSE /\ conn' = [conn EXCEPT ![console].server = IF @ = "open" THEN "closed" ELSE @]
            /\ Goto(t, "forget") /\ UNCHANGED lock
    /\ UNCHANGED <<console, wire, cache, offered, sent, gone, capture>>

Forget(t) ==
    /\ thr[t].pc = "forget"
    /\ console' = 0 /\ CloseDone(t)
    /\ UNCHANGED <<conn, wire, cache, offered, sent, gone, capture>>

-----------------------------------------------------------------------------
(* run *)

RunGoto(from, to) == thr["run"].pc = from /\ Goto("run", to)

\* The console is in the field before it is open.  A timeout, or an error, leads
\* to the finally and to another round.
accept ==
    /\ \/ RunGoto("accept", "close_check") /\ UNCHANGED <<console, conn>>
       \/ \E c \in Consoles :
            /\ thr["run"].pc = "accept"
            /\ conn[c].server = "none" /\ \A b \in 1..(c - 1) : conn[b].server # "none"
            /\ conn' = [conn EXCEPT ![c].server = "new"]
            /\ console' = c
            /\ Picks("run", c, "open")
    /\ UNCHANGED <<wire, cache, offered, sent, gone, lock, capture>>

\* The streams of a socket that has failed cannot be had.
Open ==
    /\ \/ /\ RunGoto("open", "greet")
          /\ conn' = [conn EXCEPT ![thr["run"].con].server = "open"]
       \/ RunGoto("open", "recover") /\ UNCHANGED conn
    /\ UNCHANGED <<console, wire, cache, offered, sent, gone, lock, capture>>

\* What run prints itself: in onConnected, after it, and in the catch.  At the
\* bound it goes on without.
RunPrints ==
    /\ thr["run"].pc \in {"greet", "hello", "caught"}
    /\ LET ret == CASE thr["run"].pc = "greet" -> "on_connected"
                    [] thr["run"].pc = "hello" -> "loop"
                    [] thr["run"].pc = "caught" -> "close_check"
       IN  IF sent < MessageBound THEN Calls("run", FALSE, ret)
           ELSE Goto("run", ret) /\ UNCHANGED sent
    /\ UNCHANGED <<console, conn, wire, cache, offered, gone, lock, capture>>

\* CONSOLE_CONNECTED, with which the service gets its capture.
onConnected ==
    /\ RunGoto("on_connected", "hello") /\ capture' = TRUE
    /\ UNCHANGED <<console, conn, wire, cache, offered, sent, gone, lock>>

\* while (this.console != null)
LoopTop ==
    /\ RunGoto("loop", IF console = 0 THEN "close_check" ELSE "flush")
    /\ UNCHANGED <<console, conn, wire, cache, offered, sent, gone, lock, capture>>

\* Mutant: flushCache is not synchronized.
BadFlushCache ==
    /\ RunGoto("flush", "poll")
    /\ UNCHANGED <<console, conn, wire, cache, offered, sent, gone, lock, capture>>

flushCache ==
    /\ lock = "none" /\ RunGoto("flush", "poll") /\ lock' = "run"
    /\ UNCHANGED <<console, conn, wire, cache, offered, sent, gone, capture>>

\* Mutant: the queue is waited for, take instead of poll.
BadTake ==
    /\ thr["run"].pc = "poll" /\ cache # <<>>
    /\ thr' = [thr EXCEPT !["run"] = [@ EXCEPT !.pc = "get", !.op = "flush",
                                               !.msg = Head(cache)]]
    /\ cache' = Tail(cache)
    /\ UNCHANGED <<console, conn, wire, offered, sent, gone, lock, capture>>

\* Mutant: a message stays in the queue while it is written, peek instead of poll.
BadPeek ==
    /\ thr["run"].pc = "poll"
    /\ IF cache = <<>> THEN Returned("run", "read")
       ELSE /\ thr' = [thr EXCEPT !["run"] = [@ EXCEPT !.pc = "get", !.op = "flush",
                                                       !.msg = Head(cache)]]
            /\ UNCHANGED lock
    /\ UNCHANGED <<console, conn, wire, cache, offered, sent, gone, capture>>

Poll ==
    /\ thr["run"].pc = "poll"
    /\ IF cache = <<>> THEN Returned("run", "read") /\ UNCHANGED cache
       ELSE /\ thr' = [thr EXCEPT !["run"] = [@ EXCEPT !.pc = "get", !.op = "flush",
                                                       !.msg = Head(cache)]]
            /\ cache' = Tail(cache) /\ UNCHANGED lock
    /\ UNCHANGED <<console, conn, wire, offered, sent, gone, capture>>

\* readCommand on the field, which may be null by now, or closed.  Otherwise a
\* timeout, a command that prints or not, one that is not known, or the end of
\* the input, which waits a second.
readCommand ==
    /\ thr["run"].pc = "read"
    /\ \/ console = 0 /\ Goto("run", "caught") /\ UNCHANGED sent
       \/ /\ console # 0 /\ conn[console].server = "closed"
          /\ Goto("run", "recover") /\ UNCHANGED sent
       \/ /\ console # 0 /\ conn[console].server # "closed"
          /\ \/ Goto("run", "loop") /\ UNCHANGED sent
             \/ Goto("run", "caught") /\ UNCHANGED sent
             \/ \E file \in BOOLEAN : Calls("run", file, "loop")
             \/ /\ conn[console].client \in {"left", "broken"}
                /\ Goto("run", "close_check") \/ Goto("run", "recover")
                /\ UNCHANGED sent
    /\ UNCHANGED <<console, conn, wire, cache, offered, gone, lock, capture>>

\* After a SocketException the server sockets are closed and opened again; after
\* another IOException run sleeps.  The console is still in the field.
initializeLogServer ==
    /\ RunGoto("recover", "close_check")
    /\ UNCHANGED <<console, conn, wire, cache, offered, sent, gone, lock, capture>>

\* The end of the finally, which waits for the lock.
sendBroadcast ==
    /\ lock = "none" /\ RunGoto("announce", "accept")
    /\ UNCHANGED <<console, conn, wire, cache, offered, sent, gone, lock, capture>>

-----------------------------------------------------------------------------

\* The client ends the connection.  (What it does after us is of no effect.)
ClientLeaves(c) ==
    /\ conn[c].server \in {"new", "open"} /\ conn[c].client \in {"up", "full"}
    /\ conn' = [conn EXCEPT ![c].client = "left"]
    /\ UNCHANGED <<console, wire, cache, offered, sent, gone, lock, thr, capture>>

\* The client reads no more, and the buffers are full.  (One that only pauses delays
\* a write, as any step may be.)
ClientStalls(c) ==
    /\ conn[c].server = "open" /\ conn[c].client = "up"
    /\ conn' = [conn EXCEPT ![c].client = "full"]
    /\ UNCHANGED <<console, wire, cache, offered, sent, gone, lock, thr, capture>>

Init ==
    /\ console = 0
    /\ conn = [c \in Consoles |-> [server |-> "none", client |-> "up"]]
    /\ wire = [c \in Consoles |-> <<>>]
    /\ cache = <<>> /\ offered = <<>> /\ sent = 0 /\ gone = {} /\ lock = "none"
    /\ thr = [t \in Threads |-> ThreadAt(IF t = "run" THEN "accept" ELSE "idle", 0)]
    /\ capture = FALSE

\* The steps of a thread that is in writeToConsole, writeTo or closeConsole.
Step(t) ==
    \/ Enter(t) \/ CheckConsole(t) \/ GetConsole(t) \/ WriteHead(t) \/ WriteBody(t)
    \/ CloseCheck(t) \/ onClosed(t) \/ Close(t) \/ Forget(t)

run ==
    \/ accept \/ Open \/ RunPrints \/ onConnected \/ LoopTop \/ flushCache \/ Poll
    \/ readCommand \/ initializeLogServer \/ sendBroadcast

Next ==
    \/ \E t \in Writers, file \in BOOLEAN : writeToConsole(t, file)
    \/ \E t \in Threads : Step(t)
    \/ run
    \/ \E c \in Consoles : ClientLeaves(c) \/ ClientStalls(c)

Spec == Init /\ [][Next]_vars

\* A thread that waits in a write for a client that does not read.
Blocked(t) ==
    /\ thr[t].pc \in {"head", "body"}
    /\ conn[thr[t].con].server = "open" /\ conn[thr[t].con].client = "full"

\* The threads run, except where a write waits for the client.  Nothing is assumed
\* of the client, nor of who gets the lock.
Fairness ==
    /\ \A t \in Threads : WF_vars(~Blocked(t) /\ Step(t))
    /\ WF_vars(run)

FairSpec == Spec /\ Fairness

-----------------------------------------------------------------------------
(* Properties *)

Pcs == {"idle", "enter", "check", "get", "head", "body", "close_check", "on_closed",
        "close", "forget", "accept", "open", "greet", "on_connected", "hello",
        "loop", "flush", "poll", "read", "caught", "recover", "announce", "dead"}

ThreadState ==
    [pc : Pcs, op : {"none", "write", "flush"}, msg : 0..MessageBound, file : BOOLEAN,
     con : 0..ConsoleBound, ret : {"idle", "on_connected", "loop", "close_check"}]

Connection == [server : {"none", "new", "open", "closed"}, client : {"up", "full", "left", "broken"}]

\* The fields, the connections and the threads; the queue keeps its limit.
TypeOK ==
    /\ console \in 0..ConsoleBound
    /\ conn \in [Consoles -> Connection]
    /\ wire \in [Consoles -> Seq([msg : Messages, piece : {"head", "body"}])]
    /\ cache \in Seq(Messages) /\ Len(cache) <= CacheBound
    /\ offered \in Seq(Messages)
    /\ sent \in 0..MessageBound /\ gone \subseteq Messages
    /\ lock \in Threads \union {"none"}
    /\ thr \in [Threads -> ThreadState]
    /\ capture \in BOOLEAN

\* Frames are never mixed: on every connection a body directly follows the head of
\* its own message, whoever writes when, and a head without its body, half a frame,
\* is that of the message being written or of one that is lost.
FramesSeparate ==
    \A c \in Consoles : \A i \in 1..Len(wire[c]) :
       LET w == wire[c][i]
       IN  IF w.piece = "body"
           THEN i > 1 /\ wire[c][i - 1] = [msg |-> w.msg, piece |-> "head"]
           ELSE \/ i < Len(wire[c]) /\ wire[c][i + 1] = [msg |-> w.msg, piece |-> "body"]
                \/ i = Len(wire[c]) /\ InFlight(w.msg)
                \/ w.msg \in gone

\* Where message m is first found among everything that was written.
Position(m) ==
    LET At == {p \in Consoles \X (1..(2 * MessageBound)) :
                 p[2] <= Len(wire[p[1]]) /\ wire[p[1]][p[2]].msg = m}
    IN  CHOOSE p \in At : \A q \in At : p[1] < q[1] \/ (p[1] = q[1] /\ p[2] <= q[2])

\* No message is duplicated or disappears in silence: it is in the queue, on its way, on
\* one wire or gone, in one of them only (it may be gone after a part of it was
\* written).  And messages that were cached reach the clients in the order in
\* which they were cached.
Accounted ==
    /\ \A m \in 1..sent :
         /\ InFlight(m) \/ Cached(m) \/ OnWire(m) \/ m \in gone
         /\ Cardinality({c \in Consoles : IsOn(c, m)}) <= 1
         /\ Cardinality({i \in 1..Len(cache) : cache[i] = m}) <= 1
         /\ Cardinality({t \in Threads : thr[t].msg = m}) <= 1
         /\ Cached(m) => ~(InFlight(m) \/ OnWire(m) \/ m \in gone)
         /\ m \in gone => ~InFlight(m)
         /\ OnWire(m) => \/ InFlight(m) \/ m \in gone
                         \/ \E c \in Consoles : \E i \in 1..Len(wire[c]) :
                               wire[c][i] = [msg |-> m, piece |-> "body"]
    /\ \A i, j \in 1..Len(offered) :
         i < j /\ OnWire(offered[i]) /\ OnWire(offered[j]) =>
            LET p == Position(offered[i])
                q == Position(offered[j])
            IN  p[1] < q[1] \/ (p[1] = q[1] /\ p[2] < q[2])

\* Whoever is in a synchronized method leaves it, also when its write fails or the
\* console is closed under it, unless it waits for a client that does not read: the
\* lock, which all threads of the app that print wait for, is free again and again.
LockReleased == []<>(lock = "none" \/ \E t \in Threads : lock = t /\ Blocked(t))

=============================================================================
