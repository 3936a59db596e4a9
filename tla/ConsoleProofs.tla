--------------------------- MODULE ConsoleProofs ---------------------------
(***************************************************************************)
(* TypeOK, FramesSeparate and Accounted of the console server, for every   *)
(* number of threads, messages and connections.                            *)
(*                                                                         *)
(* FramesSeparate is not inductive: that a body follows its own head needs *)
(* to know who may write to the connection in between.  IInv adds that the *)
(* lock admits one writer (LockInv), what a writer knows of its console    *)
(* (MsgInv), that run alone makes consoles, and only when the field is     *)
(* null (ConnInv), and that the last piece of a connection is the head of  *)
(* the thread that is about to write a body there (FrameInv).              *)
(*                                                                         *)
(* Accounted needs AccountInv besides: the message of a thread is nowhere  *)
(* else (CarryInv), the queue is the end of what was ever offered          *)
(* (QueueInv), a message begins once and in the order of the offers        *)
(* (WireInv), and none disappears (WholeInv); and that the console in the  *)
(* field is the last one (UseInv).  A step moves at most one message: a    *)
(* call makes it, a thread keeps it, gives it up, offers it or takes it    *)
(* from the queue, or writes its head or its body.  There is one lemma for *)
(* each of these, and one for each action that says which of them it is.   *)
(***************************************************************************)
EXTENDS Console, FiniteSetTheorems, TLAPS

WritePcs == {"enter", "check", "get", "head", "body"}
ClosePcs == {"close_check", "on_closed", "close"}

\* A thread that is certainly inside a synchronized method.
Holds(t) == \/ thr[t].pc \in {"check", "get", "head", "body", "poll"}
            \/ t # "run" /\ thr[t].pc \in ClosePcs \union {"forget"}

LockInv == \A t \in Threads : Holds(t) => lock = t

\* A thread that writes has a message, and a console that was open once and is
\* still the one in the field unless it was closed.  A writer's caller is outside.
WriterOK(t) ==
    /\ t # "run" => thr[t].ret = "idle"
    /\ thr[t].pc \in WritePcs => thr[t].msg \in Messages
    /\ thr[t].file => thr[t].op = "write" /\ thr[t].pc \in WritePcs
    /\ thr[t].pc \in {"head", "body"} =>
         /\ thr[t].con \in Consoles
         /\ conn[thr[t].con].server \in {"open", "closed"}
         /\ console = thr[t].con \/ conn[thr[t].con].server = "closed"

MsgInv == \A t \in Threads : WriterOK(t)

\* Only what was open has anything on its wire, run accepts a console only when there
\* is none, and does not forget one that is open.
ConnInv ==
    /\ console # 0 => conn[console].server # "none"
    /\ \A c \in Consoles : wire[c] # <<>> => conn[c].server \in {"open", "closed"}
    /\ thr["run"].pc = "open" =>
         thr["run"].con \in Consoles /\ conn[thr["run"].con].server = "new"
    /\ thr["run"].pc \in {"announce", "accept"} => console = 0
    /\ thr["run"].pc = "forget" => console = 0 \/ conn[console].server # "open"

Framed(w) == \A i \in 1..Len(w) :
                w[i].piece = "body" => i > 1 /\ w[i - 1] = [msg |-> w[i].msg, piece |-> "head"]

\* t has written the head of its message to c, and not yet the rest.
Writes(t, c, m) == thr[t].pc = "body" /\ thr[t].con = c /\ thr[t].msg = m

\* A head is followed by its body, or will be, or its message is lost.
HeadOK(c, i) ==
    wire[c][i].piece = "head" =>
      \/ i < Len(wire[c]) /\ wire[c][i + 1] = [msg |-> wire[c][i].msg, piece |-> "body"]
      \/ i = Len(wire[c]) /\ \E t \in Threads : Writes(t, c, wire[c][i].msg)
      \/ wire[c][i].msg \in gone

\* A frame is unfinished only while its writer is there to finish it, or for ever.
FrameInv ==
    /\ \A c \in Consoles : Framed(wire[c])
    /\ \A t \in Threads : thr[t].pc = "body" =>
         /\ wire[thr[t].con] # <<>>
         /\ wire[thr[t].con][Len(wire[thr[t].con])] = [msg |-> thr[t].msg, piece |-> "head"]
    /\ \A c \in Consoles : \A i \in 1..Len(wire[c]) : HeadOK(c, i)

IInv == TypeOK /\ LockInv /\ MsgInv /\ ConnInv /\ FrameInv

-----------------------------------------------------------------------------
(* What the steps of a thread do to thr *)

Others(t) == \A u \in Threads : u # t => thr'[u] = thr[u]

\* Goto changes where a thread is and nothing else.
LEMMA GotoFacts ==
    ASSUME TypeOK, NEW t \in Threads, NEW pc \in Pcs, Goto(t, pc)
    PROVE  /\ thr' \in [Threads -> ThreadState] /\ Others(t)
           /\ thr'[t].pc = pc /\ thr'[t].op = thr[t].op /\ thr'[t].msg = thr[t].msg
           /\ thr'[t].file = thr[t].file /\ thr'[t].con = thr[t].con
           /\ thr'[t].ret = thr[t].ret
BY DEF TypeOK, ThreadState, Goto, Others

\* A method that returns releases the lock and leaves no message behind.
LEMMA ReturnedFacts ==
    ASSUME TypeOK, NEW t \in Threads, NEW pc \in Pcs, Returned(t, pc)
    PROVE  /\ thr' \in [Threads -> ThreadState] /\ Others(t)
           /\ thr'[t].pc = pc /\ thr'[t].msg = 0 /\ thr'[t].file = FALSE
           /\ thr'[t].con = thr[t].con /\ thr'[t].ret = "idle"
           /\ lock' \in Threads \union {"none"}
           /\ lock' = lock \/ lock = t
BY ConsoleAssumption DEF TypeOK, ThreadState, Returned, Released, ThreadAt, Others

\* writeToConsole is called with a new message.
LEMMA CallsFacts ==
    ASSUME TypeOK, NEW t \in Threads, NEW file \in BOOLEAN,
           NEW ret \in {"idle", "on_connected", "loop", "close_check"}, Calls(t, file, ret)
    PROVE  /\ thr' \in [Threads -> ThreadState] /\ Others(t)
           /\ thr'[t].pc = "enter" /\ thr'[t].op = "write" /\ thr'[t].msg \in Messages
           /\ thr'[t].con = thr[t].con /\ thr'[t].ret = ret
           /\ sent' \in 0..MessageBound
BY ConsoleAssumption DEF TypeOK, ThreadState, Pcs, Calls, Others, Messages

\* A thread gets a new state.
LEMMA SetFacts ==
    ASSUME TypeOK, NEW t \in Threads, NEW s \in ThreadState, thr' = [thr EXCEPT ![t] = s]
    PROVE  thr' \in [Threads -> ThreadState] /\ Others(t) /\ thr'[t] = s
BY DEF TypeOK, Others

\* A thread gets a console, and goes on.
LEMMA PicksFacts ==
    ASSUME TypeOK, NEW t \in Threads, NEW pc \in Pcs, NEW c \in 0..ConsoleBound,
           Picks(t, c, pc)
    PROVE  /\ thr' \in [Threads -> ThreadState] /\ Others(t)
           /\ thr'[t].pc = pc /\ thr'[t].op = thr[t].op /\ thr'[t].msg = thr[t].msg
           /\ thr'[t].file = thr[t].file /\ thr'[t].con = c /\ thr'[t].ret = thr[t].ret
BY DEF TypeOK, ThreadState, Picks, Others

-----------------------------------------------------------------------------
(* Steps that leave the connections, the wires and the field alone *)

Quiet(t) ==
    /\ console' = console /\ conn' = conn /\ wire' = wire
    /\ lock' = lock \/ lock = t \/ lock = "none"
    /\ Others(t)
    /\ gone \subseteq gone' /\ thr'[t].pc # "body"
    /\ thr[t].pc = "body" => thr[t].msg \in gone'
    /\ Holds(t)' => lock' = t
    /\ WriterOK(t)'
    /\ t = "run" => /\ thr[t].pc # "open" /\ thr'[t].pc # "open"
                    /\ thr'[t].pc \in {"announce", "accept"} => console = 0
                    /\ thr'[t].pc # "forget"

\* No frame begins or is completed, and what a thread gives up is lost.
LEMMA FrameStays ==
    ASSUME FrameInv, wire' = wire, gone \subseteq gone',
           \A u \in Threads : thr'[u].pc = "body" => thr'[u] = thr[u],
           \A u \in Threads : thr[u].pc = "body" => thr'[u] = thr[u] \/ thr[u].msg \in gone'
    PROVE  FrameInv'
<1>1. \A c \in Consoles : Framed(wire[c])'
  BY DEF FrameInv
<1>2. ASSUME NEW u \in Threads, thr'[u].pc = "body"
      PROVE  (/\ wire[thr[u].con] # <<>>
              /\ wire[thr[u].con][Len(wire[thr[u].con])] = [msg |-> thr[u].msg, piece |-> "head"])'
  BY <1>2 DEF FrameInv
<1>3. ASSUME NEW c \in Consoles, NEW i \in 1..Len(wire[c])
      PROVE  HeadOK(c, i)'
  <2>1. HeadOK(c, i)
    BY DEF FrameInv
  <2> SUFFICES ASSUME wire[c][i].piece = "head"
               PROVE  \/ i < Len(wire[c]) /\ wire[c][i + 1] = [msg |-> wire[c][i].msg, piece |-> "body"]
                      \/ i = Len(wire[c]) /\ \E t \in Threads : Writes(t, c, wire[c][i].msg)'
                      \/ wire[c][i].msg \in gone'
    BY DEF HeadOK, Writes
  <2>2. ASSUME NEW t \in Threads, Writes(t, c, wire[c][i].msg)
        PROVE  Writes(t, c, wire[c][i].msg)' \/ wire[c][i].msg \in gone'
    BY <2>2 DEF Writes
  <2> QED BY <2>1, <2>2 DEF HeadOK
<1> QED BY <1>1, <1>2, <1>3 DEF FrameInv

\* A step that leaves the connections alone keeps the invariant if the thread that
\* takes it respects the lock and writes nothing.
LEMMA QuietStep ==
    ASSUME IInv, NEW t \in Threads, TypeOK', Quiet(t)
    PROVE  IInv'
<1> USE DEF IInv
<1>1. LockInv'
  BY ConsoleAssumption DEF LockInv, Holds, Quiet, Others, Threads
<1>2. MsgInv'
  BY DEF MsgInv, WriterOK, Quiet, Others
<1>3. ConnInv'
  BY DEF ConnInv, Quiet, Others, Threads
<1>4. FrameInv'
  BY FrameStays DEF Quiet, Others
<1> QED BY <1>1, <1>2, <1>3, <1>4

-----------------------------------------------------------------------------
(* The quiet actions, one lemma each *)

\* writeToConsole is called by a thread that is outside.
LEMMA WriteToConsoleInv ==
    ASSUME IInv, NEW t \in Writers, NEW file \in BOOLEAN, writeToConsole(t, file)
    PROVE  IInv'
<1>0. t \in Threads /\ t # "run"
  BY ConsoleAssumption DEF Threads
<1>1. Calls(t, file, "idle") /\ TypeOK
  BY DEF writeToConsole, IInv
<1>2. TypeOK'
  BY <1>0, <1>1, CallsFacts DEF TypeOK, writeToConsole
<1>3. Quiet(t)
  BY <1>0, <1>1, CallsFacts DEF writeToConsole, Quiet, Holds, WriterOK, WritePcs, ClosePcs
<1> QED BY <1>0, <1>2, <1>3, QuietStep

\* The lock is taken when it is free.
LEMMA EnterInv ==
    ASSUME IInv, NEW t \in Threads, Enter(t)
    PROVE  IInv'
<1>1. Goto(t, "check") /\ "check" \in Pcs /\ TypeOK
  BY DEF Enter, IInv, Pcs
<1>2. TypeOK'
  BY <1>1, GotoFacts DEF TypeOK, Enter
<1>3. WriterOK(t)'
  BY <1>1, GotoFacts DEF Enter, IInv, MsgInv, WriterOK, WritePcs
<1>4. Quiet(t)
  BY <1>1, <1>3, GotoFacts DEF Enter, Quiet, Holds, ClosePcs
<1> QED BY <1>2, <1>4, QuietStep

\* What is put into the queue, and what is dropped from it.
LEMMA OfferFacts ==
    ASSUME NEW q \in Seq(Messages), Len(q) <= CacheBound, NEW m \in Messages
    PROVE  /\ Offer(q, m) \in Seq(Messages) /\ Len(Offer(q, m)) <= CacheBound
           /\ {q[i] : i \in 1..(Len(q) + 1 - Len(Offer(q, m)))} \subseteq Messages
<1>1. CacheBound \in Nat /\ CacheBound >= 1
  BY ConsoleAssumption
<1>2. Append(q, m) \in Seq(Messages) /\ Len(Append(q, m)) = Len(q) + 1
  OBVIOUS
<1>3. CASE Len(q) + 1 > CacheBound
  <2>1. Offer(q, m) = SubSeq(Append(q, m), 2, Len(q) + 1)
    BY <1>2, <1>3 DEF Offer
  <2>2. Offer(q, m) \in Seq(Messages) /\ Len(Offer(q, m)) = Len(q)
    BY <1>1, <1>2, <2>1
  <2> QED BY <1>1, <1>3, <2>2
<1>4. CASE ~(Len(q) + 1 > CacheBound)
  <2>1. Offer(q, m) = SubSeq(Append(q, m), 1, Len(q) + 1)
    BY <1>2, <1>4 DEF Offer
  <2>2. Offer(q, m) \in Seq(Messages) /\ Len(Offer(q, m)) = Len(q) + 1
    BY <1>1, <1>2, <2>1
  <2> QED BY <1>1, <1>4, <2>2
<1> QED BY <1>3, <1>4

\* Without a console, or on the main thread, the message is cached or dropped.
LEMMA CheckConsoleInv ==
    ASSUME IInv, NEW t \in Threads, CheckConsole(t)
    PROVE  IInv'
<1>1. thr[t].pc = "check" /\ lock = t /\ thr[t].msg \in Messages /\ TypeOK /\ WriterOK(t)
  BY DEF CheckConsole, IInv, LockInv, Holds, MsgInv, WriterOK, WritePcs
<1>2. /\ thr[t].ret \in {"idle", "on_connected", "loop", "close_check"}
      /\ thr[t].ret \in Pcs /\ (t # "run" => thr[t].ret = "idle")
  BY <1>1 DEF TypeOK, ThreadState, Pcs, WriterOK
<1>3. CASE Goto(t, "get") /\ UNCHANGED <<cache, offered, gone, lock>>
  <2>1. "get" \in Pcs
    BY DEF Pcs
  <2>2. TypeOK'
    BY <1>1, <1>3, <2>1, GotoFacts DEF TypeOK, CheckConsole
  <2>3. WriterOK(t)'
    BY <1>1, <1>3, <2>1, GotoFacts DEF WriterOK, WritePcs
  <2>4. Quiet(t)
    BY <1>1, <1>3, <2>1, <2>3, GotoFacts DEF CheckConsole, Quiet, Holds, ClosePcs
  <2> QED BY <2>2, <2>4, QuietStep
<1>4. CASE /\ Returned(t, thr[t].ret)
           /\ \/ gone' = gone \union {thr[t].msg} /\ UNCHANGED <<cache, offered>>
              \/ /\ cache' = Offer(cache, thr[t].msg)
                 /\ offered' = Append(offered, thr[t].msg)
                 /\ gone' = gone \union {cache[i] : i \in 1..(Len(cache) + 1 - Len(cache'))}
  <2>1. /\ cache' \in Seq(Messages) /\ Len(cache') <= CacheBound
        /\ offered' \in Seq(Messages) /\ gone' \subseteq Messages
    <3>1. CASE gone' = gone \union {thr[t].msg} /\ UNCHANGED <<cache, offered>>
      BY <1>1, <3>1 DEF TypeOK
    <3>2. CASE /\ cache' = Offer(cache, thr[t].msg)
               /\ offered' = Append(offered, thr[t].msg)
               /\ gone' = gone \union {cache[i] : i \in 1..(Len(cache) + 1 - Len(cache'))}
      BY <1>1, <3>2, OfferFacts DEF TypeOK
    <3> QED BY <1>4, <3>1, <3>2
  <2>2. TypeOK'
    BY <1>1, <1>2, <1>4, <2>1, ReturnedFacts DEF TypeOK, CheckConsole
  <2>3. Quiet(t)
    BY <1>1, <1>2, <1>4, ReturnedFacts
    DEF CheckConsole, Quiet, Holds, WriterOK, WritePcs, ClosePcs
  <2> QED BY <2>2, <2>3, QuietStep
<1> QED BY <1>3, <1>4 DEF CheckConsole

\* The console that is written to: it was open once, and is the one in the field.
LEMMA ThrowsInv ==
    ASSUME IInv, NEW t \in Threads, thr[t].pc \in {"get", "body"}, Throws(t),
           UNCHANGED <<console, conn, wire, cache, offered, sent, capture>>
    PROVE  IInv'
<1>1. lock = t /\ thr[t].msg \in Messages /\ TypeOK /\ WriterOK(t)
  BY DEF IInv, LockInv, Holds, MsgInv, WriterOK, WritePcs
<1>2. PICK pc \in {"caught", "idle"} : Returned(t, pc)
  BY DEF Throws
<1>3. pc \in Pcs
  BY DEF Pcs
<1>4. gone' = gone \union {thr[t].msg}
  BY DEF Throws
<1>5. TypeOK'
  BY <1>1, <1>2, <1>3, <1>4, ReturnedFacts DEF TypeOK
<1>6. Quiet(t)
  BY <1>1, <1>2, <1>3, <1>4, ReturnedFacts DEF Quiet, Holds, WriterOK, WritePcs, ClosePcs
<1> QED BY <1>5, <1>6, QuietStep

\* writeTo is given the console that is in the field now.
LEMMA GetConsoleInv ==
    ASSUME IInv, NEW t \in Threads, GetConsole(t)
    PROVE  IInv'
<1>1. thr[t].pc = "get" /\ lock = t /\ thr[t].msg \in Messages /\ TypeOK /\ WriterOK(t)
  BY DEF GetConsole, IInv, LockInv, Holds, MsgInv, WriterOK, WritePcs
<1>2. CASE Throws(t)
  BY <1>1, <1>2, ThrowsInv DEF GetConsole
<1>3. CASE /\ console # 0 /\ conn[console].server # "new"
           /\ Picks(t, console, "head")
           /\ UNCHANGED <<gone, lock>>
  <2>1. /\ thr' \in [Threads -> ThreadState] /\ Others(t)
        /\ thr'[t].pc = "head" /\ thr'[t].op = thr[t].op /\ thr'[t].msg = thr[t].msg
        /\ thr'[t].file = thr[t].file /\ thr'[t].con = console /\ thr'[t].ret = thr[t].ret
    <3>1. "head" \in Pcs /\ console \in 0..ConsoleBound
      BY <1>1 DEF Pcs, TypeOK
    <3> QED BY <1>1, <1>3, <3>1, PicksFacts
  <2>2. console \in Consoles /\ conn[console].server \in {"open", "closed"}
    BY <1>1, <1>3, ConsoleAssumption DEF TypeOK, Consoles, Connection, IInv, ConnInv
  <2>3. TypeOK'
    BY <1>1, <1>3, <2>1 DEF TypeOK, GetConsole
  <2>4. WriterOK(t)'
    BY <1>1, <2>1, <2>2 DEF GetConsole, WriterOK, WritePcs
  <2>5. Quiet(t)
    BY <1>1, <1>3, <2>1, <2>4 DEF GetConsole, Quiet, Holds, ClosePcs
  <2> QED BY <2>3, <2>5, QuietStep
<1> QED BY <1>2, <1>3 DEF GetConsole

\* Facts of a thread that is closing: it has no file, and a writer has the lock.
LEMMA ClosingFacts ==
    ASSUME IInv, NEW t \in Threads, thr[t].pc \in ClosePcs \union {"forget"}
    PROVE  /\ TypeOK /\ WriterOK(t) /\ thr[t].file = FALSE
           /\ thr[t].ret \in {"idle", "on_connected", "loop", "close_check"}
           /\ thr[t].ret \in Pcs /\ (t # "run" => lock = t /\ thr[t].ret = "idle")
BY DEF IInv, TypeOK, ThreadState, LockInv, Holds, MsgInv, WriterOK, WritePcs, ClosePcs, Pcs

\* closeConsole ends: where its caller goes on.
LEMMA CloseDoneFacts ==
    ASSUME IInv, NEW t \in Threads, thr[t].pc \in ClosePcs \union {"forget"}, CloseDone(t)
    PROVE  /\ thr' \in [Threads -> ThreadState] /\ Others(t)
           /\ lock' \in Threads \union {"none"} /\ (lock' = lock \/ lock = t)
           /\ thr'[t].pc \in {"announce", "idle", "on_connected", "loop", "close_check"}
           /\ (t # "run" => thr'[t].pc = "idle" /\ thr'[t].ret = "idle")
           /\ thr'[t].file = FALSE
<1>0. /\ TypeOK /\ thr[t].file = FALSE
      /\ thr[t].ret \in {"idle", "on_connected", "loop", "close_check"}
      /\ thr[t].ret \in Pcs /\ (t # "run" => lock = t /\ thr[t].ret = "idle")
  BY ClosingFacts
<1>1. CASE InFinally(t)
  <2>1. Goto(t, "announce") /\ lock' = lock /\ t = "run" /\ "announce" \in Pcs
    BY <1>1 DEF CloseDone, InFinally, Pcs
  <2> QED BY <1>0, <2>1, GotoFacts DEF TypeOK
<1>2. CASE ~InFinally(t)
  <2>1. Returned(t, thr[t].ret)
    BY <1>2 DEF CloseDone
  <2> QED BY <1>0, <2>1, ReturnedFacts
<1> QED BY <1>1, <1>2

\* There is nothing to close, or it begins.
LEMMA CloseCheckInv ==
    ASSUME IInv, NEW t \in Threads, CloseCheck(t)
    PROVE  IInv'
<1>1. thr[t].pc = "close_check" /\ thr[t].pc \in ClosePcs \union {"forget"}
  BY DEF CloseCheck, ClosePcs
<1>2. CASE console = 0 /\ CloseDone(t)
  <2>1. TypeOK'
    BY <1>1, <1>2, CloseDoneFacts DEF IInv, TypeOK, CloseCheck
  <2>2. Quiet(t)
    BY <1>1, <1>2, CloseDoneFacts
    DEF CloseCheck, Quiet, Holds, WriterOK, WritePcs, ClosePcs
  <2> QED BY <2>1, <2>2, QuietStep
<1>3. CASE Goto(t, "on_closed") /\ UNCHANGED lock
  <2>1. "on_closed" \in Pcs
    BY DEF Pcs
  <2>2. TypeOK'
    BY <1>1, <1>3, <2>1, GotoFacts DEF IInv, TypeOK, CloseCheck
  <2>3. Quiet(t)
    <3>1. /\ Others(t) /\ thr'[t].pc = "on_closed" /\ thr'[t].file = thr[t].file
          /\ thr'[t].con = thr[t].con /\ thr'[t].ret = thr[t].ret
      BY <1>3, <2>1, GotoFacts DEF IInv
    <3>2. thr[t].file = FALSE /\ (t # "run" => lock = t /\ thr[t].ret = "idle")
      BY <1>1, ClosingFacts
    <3>3. WriterOK(t)'
      BY <3>1, <3>2 DEF WriterOK, WritePcs
    <3> QED BY <1>1, <1>3, <3>1, <3>2, <3>3 DEF CloseCheck, Quiet, Holds, ClosePcs
  <2> QED BY <2>2, <2>3, QuietStep
<1> QED BY <1>2, <1>3 DEF CloseCheck

\* The service forgets its capture.
LEMMA OnClosedInv ==
    ASSUME IInv, NEW t \in Threads, onClosed(t)
    PROVE  IInv'
<1>1. /\ thr[t].pc = "on_closed" /\ thr[t].pc \in ClosePcs \union {"forget"}
      /\ Goto(t, "close") /\ "close" \in Pcs
  BY DEF onClosed, ClosePcs, Pcs
<1>2. TypeOK'
  BY <1>1, GotoFacts DEF IInv, TypeOK, onClosed
<1>3. Quiet(t)
  <2>1. /\ Others(t) /\ thr'[t].pc = "close" /\ thr'[t].file = thr[t].file
        /\ thr'[t].con = thr[t].con /\ thr'[t].ret = thr[t].ret
    BY <1>1, GotoFacts DEF IInv
  <2>2. thr[t].file = FALSE /\ (t # "run" => lock = t /\ thr[t].ret = "idle")
    BY <1>1, ClosingFacts
  <2>3. WriterOK(t)'
    BY <2>1, <2>2 DEF WriterOK, WritePcs
  <2> QED BY <1>1, <2>1, <2>2, <2>3 DEF onClosed, Quiet, Holds, ClosePcs
<1> QED BY <1>2, <1>3, QuietStep

\* run goes from one place of its own to another.
LEMMA RunMoves ==
    ASSUME IInv, NEW pc \in {"accept", "close_check", "on_connected", "hello", "loop",
                             "flush", "poll", "read", "caught", "recover"},
           thr["run"].pc \notin WritePcs \union ClosePcs \union {"open"}, Goto("run", pc),
           console' = console, conn' = conn, wire' = wire, gone' = gone,
           lock' = lock \/ lock = "none", pc = "poll" => lock' = "run",
           pc = "accept" => console = 0
    PROVE  Quiet("run") /\ thr' \in [Threads -> ThreadState]
<1>1. "run" \in Threads /\ pc \in Pcs /\ TypeOK /\ WriterOK("run")
  BY DEF Threads, Pcs, IInv, MsgInv
<1>2. WriterOK("run")'
  BY <1>1, GotoFacts DEF WriterOK, WritePcs
<1> QED
  BY <1>1, <1>2, GotoFacts DEF Quiet, Holds, WritePcs, ClosePcs

\* run calls writeToConsole.
LEMMA RunCalls ==
    ASSUME IInv, NEW file \in BOOLEAN, NEW ret \in {"on_connected", "loop", "close_check"},
           thr["run"].pc \notin WritePcs \union ClosePcs \union {"open"},
           Calls("run", file, ret),
           console' = console, conn' = conn, wire' = wire, gone' = gone, lock' = lock
    PROVE  Quiet("run") /\ thr' \in [Threads -> ThreadState] /\ sent' \in 0..MessageBound
<1>1. "run" \in Threads /\ TypeOK
  BY DEF Threads, IInv
<1> QED
  BY <1>1, CallsFacts DEF Quiet, Holds, WriterOK, WritePcs, ClosePcs

\* run prints, or is at the bound.
LEMMA RunPrintsInv ==
    ASSUME IInv, RunPrints
    PROVE  IInv'
<1>1. thr["run"].pc \notin WritePcs \union ClosePcs \union {"open"} /\ "run" \in Threads
  BY DEF RunPrints, WritePcs, ClosePcs, Threads
<1>2. PICK ret \in {"on_connected", "loop", "close_check"} :
         Calls("run", FALSE, ret) \/ (Goto("run", ret) /\ UNCHANGED sent)
  BY DEF RunPrints
<1>3. /\ Quiet("run") /\ thr' \in [Threads -> ThreadState] /\ sent' \in 0..MessageBound
  <2>1. CASE Calls("run", FALSE, ret)
    BY <1>1, <2>1, RunCalls DEF RunPrints
  <2>2. CASE Goto("run", ret) /\ UNCHANGED sent
    BY <1>1, <2>2, RunMoves DEF RunPrints, IInv, TypeOK
  <2> QED BY <1>2, <2>1, <2>2
<1>4. TypeOK'
  BY <1>3 DEF IInv, TypeOK, RunPrints
<1> QED BY <1>1, <1>3, <1>4, QuietStep

\* The service gets its capture.
LEMMA OnConnectedInv ==
    ASSUME IInv, onConnected
    PROVE  IInv'
<1>1. /\ thr["run"].pc \notin WritePcs \union ClosePcs \union {"open"} /\ "run" \in Threads
      /\ Goto("run", "hello")
  BY DEF onConnected, RunGoto, WritePcs, ClosePcs, Threads
<1>2. Quiet("run") /\ thr' \in [Threads -> ThreadState]
  BY <1>1, RunMoves DEF onConnected
<1>3. TypeOK'
  BY <1>2 DEF IInv, TypeOK, onConnected
<1> QED BY <1>1, <1>2, <1>3, QuietStep

\* The loop goes on while there is a console.
LEMMA LoopTopInv ==
    ASSUME IInv, LoopTop
    PROVE  IInv'
<1>1. /\ thr["run"].pc \notin WritePcs \union ClosePcs \union {"open"} /\ "run" \in Threads
      /\ Goto("run", "close_check") \/ Goto("run", "flush")
  BY DEF LoopTop, RunGoto, WritePcs, ClosePcs, Threads
<1>2. Quiet("run") /\ thr' \in [Threads -> ThreadState]
  BY <1>1, RunMoves DEF LoopTop
<1>3. TypeOK'
  BY <1>2 DEF IInv, TypeOK, LoopTop
<1> QED BY <1>1, <1>2, <1>3, QuietStep

\* flushCache takes the lock.
LEMMA FlushCacheInv ==
    ASSUME IInv, flushCache
    PROVE  IInv'
<1>1. /\ thr["run"].pc \notin WritePcs \union ClosePcs \union {"open"} /\ "run" \in Threads
      /\ Goto("run", "poll") /\ lock = "none" /\ lock' = "run"
  BY DEF flushCache, RunGoto, WritePcs, ClosePcs, Threads
<1>2. Quiet("run") /\ thr' \in [Threads -> ThreadState]
  BY <1>1, RunMoves DEF flushCache
<1>3. TypeOK'
  BY <1>1, <1>2 DEF IInv, TypeOK, flushCache
<1> QED BY <1>1, <1>2, <1>3, QuietStep

\* A message is taken from the queue, or flushCache returns.
LEMMA PollInv ==
    ASSUME IInv, Poll
    PROVE  IInv'
<1>1. /\ "run" \in Threads /\ "read" \in Pcs /\ TypeOK /\ thr["run"].pc = "poll"
      /\ lock = "run" /\ WriterOK("run") /\ thr["run"].file = FALSE
  BY DEF Poll, Threads, Pcs, IInv, TypeOK, ThreadState, LockInv, Holds, MsgInv, WriterOK, WritePcs
<1>2. CASE Returned("run", "read") /\ UNCHANGED cache
  <2>1. TypeOK'
    BY <1>1, <1>2, ReturnedFacts DEF TypeOK, Poll
  <2>2. Quiet("run")
    BY <1>1, <1>2, ReturnedFacts DEF Poll, Quiet, Holds, WriterOK, WritePcs, ClosePcs
  <2> QED BY <1>1, <2>1, <2>2, QuietStep
<1>3. CASE /\ cache # <<>>
           /\ thr' = [thr EXCEPT !["run"] = [@ EXCEPT !.pc = "get", !.op = "flush",
                                                      !.msg = Head(cache)]]
           /\ cache' = Tail(cache) /\ UNCHANGED lock
  <2>1. /\ Head(cache) \in Messages /\ Head(cache) \in 0..MessageBound
        /\ Tail(cache) \in Seq(Messages) /\ Len(Tail(cache)) <= CacheBound
    BY <1>1, <1>3, ConsoleAssumption DEF TypeOK, Messages
  <2>2. /\ thr' \in [Threads -> ThreadState] /\ Others("run")
        /\ thr'["run"].pc = "get" /\ thr'["run"].msg = Head(cache)
        /\ thr'["run"].file = thr["run"].file
    <3> DEFINE r == thr["run"]
               s == [r EXCEPT !.pc = "get", !.op = "flush", !.msg = Head(cache)]
    <3>1. thr' = [thr EXCEPT !["run"] = s]
      BY <1>3
    <3>2. r \in ThreadState /\ "get" \in Pcs
      BY <1>1 DEF TypeOK, Pcs
    <3> HIDE DEF r
    <3>3. /\ s \in ThreadState /\ s.pc = "get" /\ s.msg = Head(cache) /\ s.file = r.file
      BY <2>1, <3>2 DEF ThreadState
    <3> HIDE DEF s
    <3> QED BY <1>1, <3>1, <3>3, SetFacts DEF r
  <2>3. TypeOK'
    BY <1>1, <1>3, <2>1, <2>2 DEF TypeOK, Poll
  <2>4. Quiet("run")
    BY <1>1, <1>3, <2>1, <2>2 DEF Poll, Quiet, Holds, WriterOK, WritePcs, ClosePcs
  <2> QED BY <1>1, <2>3, <2>4, QuietStep
<1> QED BY <1>2, <1>3 DEF Poll

\* A command is read, or the wait for one ends.
LEMMA ReadCommandInv ==
    ASSUME IInv, readCommand
    PROVE  IInv'
<1>1. thr["run"].pc \notin WritePcs \union ClosePcs \union {"open"} /\ "run" \in Threads
  BY DEF readCommand, WritePcs, ClosePcs, Threads
<1>2. \/ \E pc \in {"loop", "caught", "close_check", "recover"} :
            Goto("run", pc) /\ UNCHANGED sent
      \/ \E file \in BOOLEAN : Calls("run", file, "loop")
  BY DEF readCommand
<1>3. Quiet("run") /\ thr' \in [Threads -> ThreadState] /\ sent' \in 0..MessageBound
  <2>1. ASSUME NEW pc \in {"loop", "caught", "close_check", "recover"},
               Goto("run", pc) /\ UNCHANGED sent
        PROVE  Quiet("run") /\ thr' \in [Threads -> ThreadState] /\ sent' \in 0..MessageBound
    BY <1>1, <2>1, RunMoves DEF readCommand, IInv, TypeOK
  <2>2. ASSUME NEW file \in BOOLEAN, Calls("run", file, "loop")
        PROVE  Quiet("run") /\ thr' \in [Threads -> ThreadState] /\ sent' \in 0..MessageBound
    BY <1>1, <2>2, RunCalls DEF readCommand
  <2> QED BY <1>2, <2>1, <2>2
<1>4. TypeOK'
  BY <1>3 DEF IInv, TypeOK, readCommand
<1> QED BY <1>1, <1>3, <1>4, QuietStep

\* The server sockets are opened again.
LEMMA InitializeLogServerInv ==
    ASSUME IInv, initializeLogServer
    PROVE  IInv'
<1>1. /\ thr["run"].pc \notin WritePcs \union ClosePcs \union {"open"} /\ "run" \in Threads
      /\ Goto("run", "close_check")
  BY DEF initializeLogServer, RunGoto, WritePcs, ClosePcs, Threads
<1>2. Quiet("run") /\ thr' \in [Threads -> ThreadState]
  BY <1>1, RunMoves DEF initializeLogServer
<1>3. TypeOK'
  BY <1>2 DEF IInv, TypeOK, initializeLogServer
<1> QED BY <1>1, <1>2, <1>3, QuietStep

\* The next round begins, and there is no console.
LEMMA SendBroadcastInv ==
    ASSUME IInv, sendBroadcast
    PROVE  IInv'
<1>1. /\ thr["run"].pc \notin WritePcs \union ClosePcs \union {"open"} /\ "run" \in Threads
      /\ Goto("run", "accept") /\ console = 0
  BY DEF sendBroadcast, RunGoto, WritePcs, ClosePcs, Threads, IInv, ConnInv
<1>2. Quiet("run") /\ thr' \in [Threads -> ThreadState]
  BY <1>1, RunMoves DEF sendBroadcast
<1>3. TypeOK'
  BY <1>2 DEF IInv, TypeOK, sendBroadcast
<1> QED BY <1>1, <1>2, <1>3, QuietStep

-----------------------------------------------------------------------------
(* The actions that change a connection, a wire or the field *)

\* The client's end of a connection matters only to the writes that come.
LEMMA ClientInv ==
    ASSUME IInv, NEW c \in Consoles, ClientLeaves(c) \/ ClientStalls(c)
    PROVE  IInv'
<1>1. /\ conn' \in [Consoles -> Connection]
      /\ \A b \in Consoles : conn'[b].server = conn[b].server
  BY DEF ClientLeaves, ClientStalls, IInv, TypeOK, Connection
<1>0. UNCHANGED <<console, wire, cache, offered, sent, gone, lock, thr, capture>>
  BY DEF ClientLeaves, ClientStalls
<1>2. TypeOK'
  BY <1>0, <1>1 DEF IInv, TypeOK
<1>3. LockInv'
  BY <1>0 DEF IInv, LockInv, Holds
<1>4. MsgInv'
  BY <1>0, <1>1 DEF IInv, MsgInv, WriterOK
<1>5. ConnInv'
  <2>0. TypeOK /\ ConnInv
    BY DEF IInv
  <2>1. ConnInv /\ (console # 0 => console \in Consoles)
    BY <2>0, ConsoleAssumption DEF TypeOK, Consoles
  <2>2. thr'["run"] = thr["run"] /\ console' = console /\ wire' = wire
    BY <1>0
  <2> QED BY <1>1, <2>1, <2>2 DEF ConnInv
<1>6. FrameInv'
  BY <1>0, FrameStays DEF IInv
<1> QED BY <1>2, <1>3, <1>4, <1>5, <1>6 DEF IInv

\* The new console is open, or has no streams.
LEMMA OpenInv ==
    ASSUME IInv, Open
    PROVE  IInv'
<1> DEFINE c == thr["run"].con
<1>0. PICK pc \in {"greet", "recover"} :
        /\ Goto("run", pc) /\ thr["run"].pc = "open"
        /\ conn' = conn \/ conn' = [conn EXCEPT ![c].server = "open"]
  BY DEF Open, RunGoto
<1>1. /\ "run" \in Threads /\ pc \in Pcs /\ TypeOK
      /\ c \in Consoles /\ conn[c].server = "new"
  BY <1>0 DEF Threads, Pcs, IInv, ConnInv
<1>2. /\ conn' \in [Consoles -> Connection] /\ conn'[c].server \in {"open", "new"}
      /\ \A b \in Consoles : b # c => conn'[b] = conn[b]
  <2>1. CASE conn' = conn
    BY <1>1, <2>1 DEF TypeOK
  <2>2. CASE conn' = [conn EXCEPT ![c].server = "open"]
    <3> HIDE DEF c
    <3> QED BY <1>1, <2>2 DEF TypeOK, Connection
  <2> QED BY <1>0, <2>1, <2>2
<1>3. /\ thr' \in [Threads -> ThreadState] /\ Others("run") /\ thr'["run"].pc = pc
      /\ thr'["run"].file = thr["run"].file
  BY <1>0, <1>1, GotoFacts
<1> HIDE DEF c
<1>4. TypeOK'
  BY <1>1, <1>2, <1>3 DEF TypeOK, Open
<1>5. LockInv'
  BY <1>1, <1>3 DEF IInv, LockInv, Holds, Open, Others, ClosePcs
<1>6. MsgInv'
  BY <1>0, <1>1, <1>2, <1>3 DEF IInv, MsgInv, WriterOK, Open, Others, WritePcs
<1>7. ConnInv'
  <2>1. ConnInv /\ (console # 0 => console \in Consoles)
    BY <1>1, ConsoleAssumption DEF IInv, TypeOK, Consoles
  <2>2. console' = console /\ wire' = wire /\ wire[c] = <<>>
    BY <1>1, <2>1 DEF Open, ConnInv
  <2>3. thr'["run"].pc \notin {"open", "announce", "accept", "forget"}
    BY <1>3
  <2>4. \A b \in Consoles : wire[b] # <<>> => conn'[b].server \in {"open", "closed"}
    BY <1>2, <2>1, <2>2 DEF ConnInv
  <2>5. console # 0 => conn'[console].server # "none"
    BY <1>2, <2>1 DEF ConnInv
  <2> QED BY <2>2, <2>3, <2>4, <2>5 DEF ConnInv
<1>8. FrameInv'
  <2>1. FrameInv /\ wire' = wire /\ gone' = gone
    BY DEF IInv, Open
  <2>2. ASSUME NEW u \in Threads, thr[u].pc = "body" \/ thr'[u].pc = "body"
        PROVE  thr'[u] = thr[u]
    BY <1>0, <1>3, <2>2 DEF Others
  <2> QED BY <2>1, <2>2, FrameStays
<1> QED BY <1>4, <1>5, <1>6, <1>7, <1>8 DEF IInv

\* run accepts a client only when there is no console.
LEMMA AcceptInv ==
    ASSUME IInv, accept
    PROVE  IInv'
<1>1. /\ "run" \in Threads /\ TypeOK /\ thr["run"].pc = "accept" /\ console = 0
  BY DEF accept, RunGoto, Threads, IInv, ConnInv
<1>2. CASE Goto("run", "close_check") /\ UNCHANGED <<console, conn>>
  <2>1. Quiet("run") /\ thr' \in [Threads -> ThreadState]
    BY <1>1, <1>2, RunMoves DEF accept, WritePcs, ClosePcs
  <2>2. TypeOK'
    BY <1>2, <2>1 DEF IInv, TypeOK, accept
  <2> QED BY <1>1, <2>1, <2>2, QuietStep
<1>3. ASSUME NEW c \in Consoles, conn[c].server = "none",
             conn' = [conn EXCEPT ![c].server = "new"], console' = c,
             Picks("run", c, "open")
      PROVE  IInv'
  <2>0. c \in 0..ConsoleBound /\ 0 \notin Consoles
    BY ConsoleAssumption DEF Consoles
  <2>1. /\ conn' \in [Consoles -> Connection] /\ conn'[c].server = "new"
        /\ conn'[c].client = conn[c].client
        /\ \A b \in Consoles : b # c => conn'[b] = conn[b]
    BY <1>1, <1>3 DEF TypeOK, Connection
  <2>2. /\ thr' \in [Threads -> ThreadState] /\ Others("run") /\ thr'["run"].pc = "open"
        /\ thr'["run"].con = c /\ thr'["run"].file = thr["run"].file
    <3>1. "open" \in Pcs
      BY DEF Pcs
    <3> QED BY <1>1, <1>3, <2>0, <3>1, PicksFacts
  <2>3. wire[c] = <<>>
    BY <1>3 DEF IInv, ConnInv
  <2>4. TypeOK'
    BY <1>1, <1>3, <2>0, <2>1, <2>2 DEF TypeOK, accept
  <2>5. LockInv'
    BY <1>1, <2>2 DEF IInv, LockInv, Holds, accept, Others, ClosePcs
  <2>6. MsgInv'
    <3>1. ASSUME NEW u \in Threads
          PROVE  WriterOK(u)'
      <4>1. WriterOK(u)
        BY DEF IInv, MsgInv
      <4>2. CASE u = "run"
        BY <1>1, <2>2, <4>1, <4>2 DEF WriterOK, WritePcs
      <4>3. CASE u # "run"
        BY <1>1, <1>3, <2>0, <2>1, <2>2, <4>1, <4>3 DEF WriterOK, Others
      <4> QED BY <4>2, <4>3
    <3> QED BY <3>1 DEF MsgInv
  <2>7. ConnInv'
    BY <1>1, <1>3, <2>0, <2>1, <2>2, <2>3 DEF IInv, ConnInv, accept
  <2>8. FrameInv'
    <3>1. FrameInv /\ wire' = wire /\ gone' = gone
      BY DEF IInv, accept
    <3>2. ASSUME NEW u \in Threads, thr[u].pc = "body" \/ thr'[u].pc = "body"
          PROVE  thr'[u] = thr[u]
      BY <1>1, <2>2, <3>2 DEF Others
    <3> QED BY <3>1, <3>2, FrameStays
  <2> QED BY <2>4, <2>5, <2>6, <2>7, <2>8 DEF IInv
<1> QED BY <1>2, <1>3 DEF accept, RunGoto

\* close() of the console in the field, which may be null when it is called.
LEMMA CloseInv ==
    ASSUME IInv, NEW t \in Threads, Close(t)
    PROVE  IInv'
<1>0. thr[t].pc = "close" /\ thr[t].pc \in ClosePcs \union {"forget"}
  BY DEF Close, ClosePcs
<1>1. /\ TypeOK /\ WriterOK(t) /\ thr[t].file = FALSE
      /\ (t # "run" => lock = t /\ thr[t].ret = "idle") /\ "run" \in Threads
  BY <1>0, ClosingFacts DEF Threads
<1>2. CASE console = 0 /\ Goto(t, "dead") /\ InFinally(t) /\ UNCHANGED <<lock, conn>>
  <2>1. "dead" \in Pcs
    BY DEF Pcs
  <2>2. TypeOK'
    BY <1>1, <1>2, <2>1, GotoFacts DEF TypeOK, Close
  <2>3. Quiet(t)
    BY <1>0, <1>1, <1>2, <2>1, GotoFacts
    DEF Close, Quiet, Holds, WriterOK, WritePcs, ClosePcs
  <2> QED BY <2>2, <2>3, QuietStep
<1>3. ASSUME NEW pc \in {"caught", "idle"}, console = 0, Returned(t, pc), UNCHANGED conn
      PROVE  IInv'
  <2>1. pc \in Pcs
    BY DEF Pcs
  <2>2. TypeOK'
    BY <1>1, <1>3, <2>1, ReturnedFacts DEF TypeOK, Close
  <2>3. Quiet(t)
    BY <1>0, <1>1, <1>3, <2>1, ReturnedFacts
    DEF Close, Quiet, Holds, WriterOK, WritePcs, ClosePcs
  <2> QED BY <2>2, <2>3, QuietStep
<1>4. CASE /\ console # 0 /\ Goto(t, "forget") /\ UNCHANGED lock
           /\ conn' = [conn EXCEPT ![console].server = IF @ = "open" THEN "closed" ELSE @]
  <2>0. console \in Consoles /\ "forget" \in Pcs
    BY <1>1, <1>4, ConsoleAssumption DEF TypeOK, Consoles, Pcs
  <2>1. /\ conn' \in [Consoles -> Connection]
        /\ conn'[console].server = IF conn[console].server = "open" THEN "closed"
                                   ELSE conn[console].server
        /\ conn'[console].client = conn[console].client
        /\ \A b \in Consoles : b # console => conn'[b] = conn[b]
    BY <1>1, <1>4, <2>0 DEF TypeOK, Connection
  <2>2. /\ thr' \in [Threads -> ThreadState] /\ Others(t) /\ thr'[t].pc = "forget"
        /\ thr'[t].file = thr[t].file /\ thr'[t].ret = thr[t].ret
    BY <1>1, <1>4, <2>0, GotoFacts
  <2>3. /\ console' = console /\ wire' = wire /\ lock' = lock
        /\ UNCHANGED <<cache, offered, sent, gone, capture>>
    BY <1>4 DEF Close
  <2>4. TypeOK'
    BY <1>1, <2>1, <2>2, <2>3 DEF TypeOK
  <2>5. LockInv'
    BY <1>1, <2>2, <2>3 DEF IInv, LockInv, Holds, Others
  <2>6. MsgInv'
    <3>1. ASSUME NEW u \in Threads
          PROVE  WriterOK(u)'
      <4>1. WriterOK(u)
        BY DEF IInv, MsgInv
      <4>2. CASE u = t
        BY <1>1, <2>2, <4>1, <4>2 DEF WriterOK, WritePcs
      <4>3. CASE u # t
        <5>1. thr'[u] = thr[u]
          BY <2>2, <4>3 DEF Others
        <5>2. ASSUME NEW b \in Consoles, conn[b].server \in {"open", "closed"}
              PROVE  /\ conn'[b].server \in {"open", "closed"}
                     /\ conn[b].server = "closed" => conn'[b].server = "closed"
          BY <2>1, <5>2
        <5> QED BY <2>3, <4>1, <5>1, <5>2 DEF WriterOK
      <4> QED BY <4>2, <4>3
    <3> QED BY <3>1 DEF MsgInv
  <2>7. ConnInv'
    <3>1. CASE t = "run"
      BY <1>0, <2>0, <2>1, <2>2, <2>3, <3>1, <1>1
      DEF IInv, ConnInv, TypeOK, Connection
    <3>2. CASE t # "run"
      <4>1. thr'["run"] = thr["run"]
        BY <1>1, <2>2, <3>2 DEF Others
      <4> QED BY <2>0, <2>1, <2>3, <4>1 DEF IInv, ConnInv
    <3> QED BY <3>1, <3>2
  <2>8. FrameInv'
    <3>1. FrameInv /\ gone' = gone
      BY <2>3 DEF IInv
    <3>2. ASSUME NEW u \in Threads, thr[u].pc = "body" \/ thr'[u].pc = "body"
          PROVE  thr'[u] = thr[u]
      BY <1>0, <2>2, <3>2 DEF Others
    <3> QED BY <2>3, <3>1, <3>2, FrameStays
  <2> QED BY <2>4, <2>5, <2>6, <2>7, <2>8 DEF IInv
<1> QED BY <1>2, <1>3, <1>4 DEF Close

\* The field is set to null: nobody writes to an open console in it.
LEMMA ForgetInv ==
    ASSUME IInv, NEW t \in Threads, Forget(t)
    PROVE  IInv'
<1>0. /\ thr[t].pc = "forget" /\ thr[t].pc \in ClosePcs \union {"forget"} /\ CloseDone(t)
      /\ UNCHANGED <<conn, wire, cache, offered, sent, gone, capture>>
  BY DEF Forget
<1>1. /\ TypeOK /\ "run" \in Threads /\ (t # "run" => lock = t)
      /\ console' = 0 /\ conn' = conn /\ wire' = wire
      /\ 0 \notin Consoles /\ 0 \in 0..ConsoleBound
      /\ (t = "run" => console = 0 \/ conn[console].server # "open")
  <2>1. TypeOK /\ (t # "run" => lock = t)
    BY <1>0, ClosingFacts
  <2>2. 0 \notin Consoles /\ 0 \in 0..ConsoleBound
    BY ConsoleAssumption DEF Consoles
  <2>3. t = "run" => console = 0 \/ conn[console].server # "open"
    BY <1>0 DEF IInv, ConnInv
  <2> QED BY <2>1, <2>2, <2>3 DEF Forget, Threads
<1>2. /\ thr' \in [Threads -> ThreadState] /\ Others(t)
      /\ lock' \in Threads \union {"none"} /\ (lock' = lock \/ lock = t)
      /\ thr'[t].pc \in {"announce", "idle", "on_connected", "loop", "close_check"}
      /\ (t # "run" => thr'[t].pc = "idle" /\ thr'[t].ret = "idle")
      /\ thr'[t].file = FALSE
  BY <1>0, CloseDoneFacts
<1>3. TypeOK'
  BY <1>0, <1>1, <1>2 DEF TypeOK
<1>4. LockInv'
  BY <1>0, <1>1, <1>2 DEF IInv, LockInv, Holds, Others, ClosePcs
<1>5. MsgInv'
  <2>1. ASSUME NEW u \in Threads
        PROVE  WriterOK(u)'
    <3>1. WriterOK(u) /\ (Holds(u) => lock = u)
      BY DEF IInv, MsgInv, LockInv
    <3>2. CASE u = t
      BY <1>2, <3>1, <3>2 DEF WriterOK, WritePcs
    <3>3. CASE u # t
      BY <1>0, <1>1, <1>2, <3>1, <3>3 DEF WriterOK, Others, Holds
    <3> QED BY <3>2, <3>3
  <2> QED BY <2>1 DEF MsgInv
<1>6. ConnInv'
  <2>1. CASE t = "run"
    BY <1>0, <1>1, <1>2, <2>1 DEF IInv, ConnInv
  <2>2. CASE t # "run"
    <3>1. thr'["run"] = thr["run"]
      BY <1>0, <1>1, <1>2, <2>2 DEF Others
    <3> QED BY <1>0, <1>1, <3>1 DEF IInv, ConnInv
  <2> QED BY <2>1, <2>2
<1>7. FrameInv'
  <2>1. FrameInv /\ gone' = gone
    BY <1>0 DEF IInv
  <2>2. ASSUME NEW u \in Threads, thr[u].pc = "body" \/ thr'[u].pc = "body"
        PROVE  thr'[u] = thr[u]
    BY <1>0, <1>2, <2>2 DEF Others
  <2> QED BY <1>1, <2>1, <2>2, FrameStays
<1> QED BY <1>3, <1>4, <1>5, <1>6, <1>7 DEF IInv

\* A write fails, and its message is lost: a writer is about to close the console and
\* keeps the lock until it has, run releases it.
LEMMA FailedWrite ==
    ASSUME IInv, NEW t \in Threads, thr[t].pc \in {"head", "body"}, Fails(t),
           Broken(thr[t].con),
           UNCHANGED <<console, wire, cache, offered, sent, capture>>
    PROVE  IInv'
<1> DEFINE k == thr[t].con
<1>1. /\ TypeOK /\ WriterOK(t) /\ lock = t /\ thr[t].msg \in Messages /\ k \in Consoles
      /\ conn[k].server \in {"open", "closed"}
      /\ console = k \/ conn[k].server = "closed"
      /\ thr[t].file => thr[t].op = "write"
  BY DEF IInv, LockInv, Holds, MsgInv, WriterOK, WritePcs
<1>2. /\ conn' \in [Consoles -> Connection]
      /\ \A b \in Consoles : conn'[b].server = conn[b].server
  BY <1>1 DEF Broken, TypeOK, Connection
<1>3. /\ thr' \in [Threads -> ThreadState] /\ Others(t) /\ gone' \subseteq Messages
      /\ lock' \in Threads \union {"none"} /\ thr'[t].pc \in {"close_check", "recover"}
      /\ thr'[t].file = FALSE /\ (t # "run" => thr'[t].ret = "idle")
      /\ thr[t].op = "write" => /\ thr'[t].pc = "close_check" /\ lock' = t
                                /\ thr'[t].con = k
      /\ thr'[t].pc = "close_check" => lock' = t
  <2>1. CASE thr[t].op = "write"
    <3>1. /\ thr' = [thr EXCEPT ![t] = [@ EXCEPT !.pc = "close_check", !.msg = 0, !.file = FALSE]]
          /\ lock' = lock /\ gone' = gone \union {thr[t].msg}
      BY <2>1 DEF Fails
    <3>2. /\ thr' \in [Threads -> ThreadState] /\ Others(t) /\ thr'[t].pc = "close_check"
          /\ thr'[t].file = FALSE /\ thr'[t].ret = thr[t].ret /\ thr'[t].con = k
      <4>1. 0 \in 0..MessageBound /\ "close_check" \in Pcs
        BY ConsoleAssumption DEF Pcs
      <4> DEFINE r == thr[t]
                 s == [r EXCEPT !.pc = "close_check", !.msg = 0, !.file = FALSE]
      <4>2. thr' = [thr EXCEPT ![t] = s]
        BY <3>1
      <4>3. r \in ThreadState
        BY <1>1 DEF TypeOK
      <4> HIDE DEF r
      <4>4. /\ s \in ThreadState /\ s.pc = "close_check" /\ s.file = FALSE
            /\ s.ret = r.ret /\ s.con = r.con
        BY <4>1, <4>3 DEF ThreadState
      <4> HIDE DEF s
      <4> QED BY <1>1, <4>2, <4>4, SetFacts DEF r
    <3> QED BY <1>1, <3>1, <3>2 DEF TypeOK, WriterOK
  <2>2. CASE thr[t].op # "write"
    <3>1. Returned(t, "recover") /\ gone' = gone \union {thr[t].msg} /\ "recover" \in Pcs
      BY <2>2 DEF Fails, Pcs
    <3> QED BY <1>1, <2>2, <3>1, ReturnedFacts DEF TypeOK
  <2> QED BY <2>1, <2>2
<1> HIDE DEF k
<1>4. TypeOK'
  BY <1>1, <1>2, <1>3 DEF TypeOK
<1>5. LockInv'
  BY <1>1, <1>3 DEF IInv, LockInv, Holds, Others, ClosePcs
<1>6. MsgInv'
  <2>1. ASSUME NEW u \in Threads
        PROVE  WriterOK(u)'
    <3>1. WriterOK(u)
      BY DEF IInv, MsgInv
    <3>2. CASE u = t
      BY <1>3, <3>1, <3>2 DEF WriterOK, WritePcs
    <3>3. CASE u # t
      BY <1>2, <1>3, <3>1, <3>3 DEF WriterOK, Others
    <3> QED BY <3>2, <3>3
  <2> QED BY <2>1 DEF MsgInv
<1>7. ConnInv'
  <2>1. "run" \in Threads /\ (console # 0 => console \in Consoles)
    BY <1>1, ConsoleAssumption DEF TypeOK, Threads, Consoles
  <2>2. CASE t = "run"
    BY <1>2, <1>3, <2>1, <2>2 DEF IInv, ConnInv
  <2>3. CASE t # "run"
    <3>1. thr'["run"] = thr["run"]
      BY <1>3, <2>1, <2>3 DEF Others
    <3> QED BY <1>2, <2>1, <3>1 DEF IInv, ConnInv
  <2> QED BY <2>2, <2>3
<1>8. FrameInv'
  <2>1. FrameInv /\ wire' = wire /\ gone' = gone \union {thr[t].msg}
    BY DEF IInv, Fails
  <2>2. ASSUME NEW u \in Threads, thr'[u].pc = "body"
        PROVE  thr'[u] = thr[u]
    BY <1>3, <2>2 DEF Others
  <2>3. ASSUME NEW u \in Threads, thr[u].pc = "body"
        PROVE  thr'[u] = thr[u] \/ thr[u].msg \in gone'
    BY <1>3, <2>1 DEF Others
  <2> QED BY <2>1, <2>2, <2>3, FrameStays
<1> QED BY <1>4, <1>5, <1>6, <1>7, <1>8 DEF IInv

Pieces == Seq([msg : Messages, piece : {"head", "body"}])

\* What is on a wire is a piece.
LEMMA PieceIn ==
    ASSUME NEW w \in Pieces, NEW i \in 1..Len(w)
    PROVE  w[i] \in [msg : Messages, piece : {"head", "body"}]
<1> DEFINE S == [msg : Messages, piece : {"head", "body"}]
<1>1. w \in Seq(S)
  BY DEF Pieces
<1> HIDE DEF S
<1>2. w[i] \in S
  BY <1>1
<1> QED BY <1>2 DEF S

\* What Append does.
LEMMA AppendFacts ==
    ASSUME NEW w \in Pieces, NEW e \in [msg : Messages, piece : {"head", "body"}]
    PROVE  /\ Append(w, e) \in Pieces /\ Len(w) \in Nat /\ Len(Append(w, e)) = Len(w) + 1
           /\ Append(w, e)[Len(w) + 1] = e
           /\ \A i \in 1..Len(w) : Append(w, e)[i] = w[i]
<1> DEFINE S == [msg : Messages, piece : {"head", "body"}]
<1>1. w \in Seq(S) /\ e \in S
  BY DEF Pieces
<1> HIDE DEF S
<1>2. /\ Append(w, e) \in Seq(S) /\ Len(w) \in Nat /\ Len(Append(w, e)) = Len(w) + 1
      /\ Append(w, e)[Len(w) + 1] = e
      /\ \A i \in 1..Len(w) : Append(w, e)[i] = w[i]
  BY <1>1
<1> QED BY <1>2 DEF S, Pieces

\* A head may be written at any time, a body after the head of its message.
LEMMA PieceFramed ==
    ASSUME NEW w \in Pieces, Framed(w), NEW e \in [msg : Messages, piece : {"head", "body"}],
           e.piece = "body" => w # <<>> /\ w[Len(w)] = [msg |-> e.msg, piece |-> "head"]
    PROVE  Framed(Append(w, e))
<1> DEFINE v == Append(w, e)
<1>1. /\ Len(v) = Len(w) + 1 /\ Len(w) \in Nat /\ v[Len(w) + 1] = e
      /\ \A i \in 1..Len(w) : v[i] = w[i]
  BY AppendFacts
<1>2. w # <<>> => Len(w) \in 1..Len(w)
  <2>1. w # <<>> => Len(w) # 0
    BY DEF Pieces
  <2> QED BY <1>1, <2>1
<1> HIDE DEF v
<1>3. ASSUME NEW i \in 1..Len(v), v[i].piece = "body"
      PROVE  i > 1 /\ v[i - 1] = [msg |-> v[i].msg, piece |-> "head"]
  <2>1. CASE i = Len(w) + 1
    <3>1. v[i] = e /\ e.piece = "body" /\ w # <<>>
      BY <1>1, <1>3, <2>1
    <3>2. Len(w) \in 1..Len(w) /\ i - 1 = Len(w) /\ i > 1
      BY <1>1, <1>2, <2>1, <3>1
    <3>3. v[i - 1] = w[Len(w)]
      BY <1>1, <3>2
    <3> QED BY <3>1, <3>2, <3>3
  <2>2. CASE i # Len(w) + 1
    <3>1. i \in 1..Len(w) /\ v[i] = w[i]
      BY <1>1, <2>2
    <3>2. i > 1 /\ w[i - 1] = [msg |-> w[i].msg, piece |-> "head"]
      BY <1>3, <3>1 DEF Framed
    <3>3. i - 1 \in 1..Len(w)
      BY <1>1, <3>1, <3>2
    <3>4. v[i - 1] = w[i - 1]
      BY <1>1, <3>3
    <3> QED BY <3>1, <3>2, <3>4
  <2> QED BY <2>1, <2>2
<1> QED BY <1>3 DEF Framed, v

\* A piece that is written goes to the console of its writer only.
LEMMA WrittenFacts ==
    ASSUME IInv, NEW t \in Threads, thr[t].pc \in {"head", "body"}, CanWrite(thr[t].con),
           NEW piece \in {"head", "body"}, Piece(t, piece)
    PROVE  LET k == thr[t].con
           IN  /\ TypeOK /\ WriterOK(t) /\ lock = t /\ thr[t].msg \in Messages
               /\ k \in Consoles /\ wire[k] \in Pieces /\ Framed(wire[k])
               /\ wire'[k] = Append(wire[k], [msg |-> thr[t].msg, piece |-> piece])
               /\ \A b \in Consoles : b # k => wire'[b] = wire[b]
               /\ DOMAIN wire' = Consoles /\ wire' = [b \in Consoles |-> wire'[b]]
               /\ \A b \in Consoles : wire[b] \in Pieces
<1>1. /\ TypeOK /\ WriterOK(t) /\ lock = t /\ thr[t].msg \in Messages
      /\ thr[t].con \in Consoles
  BY DEF IInv, LockInv, Holds, MsgInv, WriterOK, WritePcs
<1>2. \A b \in Consoles : wire[b] \in Pieces
  BY <1>1 DEF TypeOK, Pieces
<1> QED BY <1>1, <1>2 DEF Piece, TypeOK, IInv, FrameInv

\* No other thread is in a frame while t writes.
LEMMA OnlyWriter ==
    ASSUME IInv, NEW t \in Threads, thr[t].pc \in {"head", "body"},
           NEW u \in Threads, thr[u].pc = "body"
    PROVE  u = t
BY DEF IInv, LockInv, Holds

\* Where the heads are after a piece e was written to k.
LEMMA HeadsStay ==
    ASSUME FrameInv, NEW k \in Consoles, wire[k] \in Pieces,
           NEW e \in [msg : Messages, piece : {"head", "body"}],
           wire'[k] = Append(wire[k], e), \A b \in Consoles : b # k => wire'[b] = wire[b],
           gone' = gone,
           \A u \in Threads : \A c \in Consoles : \A m :
              Writes(u, c, m) => c = k /\ e = [msg |-> m, piece |-> "body"],
           e.piece = "head" => \E u \in Threads : /\ thr'[u].pc = "body" /\ thr'[u].con = k
                                                  /\ thr'[u].msg = e.msg
    PROVE  (\A c \in Consoles : \A i \in 1..Len(wire[c]) : HeadOK(c, i))'
<1> SUFFICES ASSUME NEW c \in Consoles, NEW i \in 1..Len(wire'[c]), wire'[c][i].piece = "head"
             PROVE  \/ i < Len(wire'[c]) /\ wire'[c][i + 1] = [msg |-> wire'[c][i].msg, piece |-> "body"]
                    \/ /\ i = Len(wire'[c])
                       /\ \E t \in Threads : /\ thr'[t].pc = "body" /\ thr'[t].con = c
                                              /\ thr'[t].msg = wire'[c][i].msg
                    \/ wire'[c][i].msg \in gone'
  BY DEF HeadOK, Writes
<1>1. /\ Len(wire'[k]) = Len(wire[k]) + 1 /\ Len(wire[k]) \in Nat
      /\ wire'[k][Len(wire[k]) + 1] = e
      /\ \A j \in 1..Len(wire[k]) : wire'[k][j] = wire[k][j]
  BY AppendFacts
<1>2. CASE c # k
  <2>1. wire'[c] = wire[c] /\ HeadOK(c, i)
    BY <1>2 DEF FrameInv
  <2>2. \A t \in Threads : ~Writes(t, c, wire[c][i].msg)
    BY <1>2
  <2> QED BY <2>1, <2>2 DEF HeadOK
<1>3. CASE c = k /\ i = Len(wire[k]) + 1
  BY <1>1, <1>3
<1>4. CASE c = k /\ i # Len(wire[k]) + 1
  <2>1. i \in 1..Len(wire[k]) /\ wire'[k][i] = wire[k][i]
    BY <1>1, <1>4
  <2>2. HeadOK(k, i) /\ wire[k][i].piece = "head"
    BY <1>4, <2>1 DEF FrameInv
  <2>3. CASE i < Len(wire[k]) /\ wire[k][i + 1] = [msg |-> wire[k][i].msg, piece |-> "body"]
    <3>1. i + 1 \in 1..Len(wire[k]) /\ i < Len(wire'[k])
      BY <1>1, <2>1, <2>3
    <3>2. wire'[k][i + 1] = wire[k][i + 1]
      BY <1>1, <3>1
    <3> QED BY <1>4, <2>1, <2>3, <3>1, <3>2
  <2>4. CASE i = Len(wire[k]) /\ \E t \in Threads : Writes(t, k, wire[k][i].msg)
    <3>1. e = [msg |-> wire[k][i].msg, piece |-> "body"]
      BY <2>4
    <3>2. wire'[k][i + 1] = e /\ i < Len(wire'[k])
      BY <1>1, <2>4
    <3> QED BY <1>4, <2>1, <3>1, <3>2
  <2>5. CASE wire[k][i].msg \in gone
    BY <1>4, <2>1, <2>5
  <2> QED BY <2>2, <2>3, <2>4, <2>5 DEF HeadOK
<1> QED BY <1>2, <1>3, <1>4

\* The beginning of a frame.
LEMMA WriteHeadInv ==
    ASSUME IInv, NEW t \in Threads, WriteHead(t)
    PROVE  IInv'
<1>1. thr[t].pc = "head" /\ thr[t].pc \in {"head", "body"}
  BY DEF WriteHead
<1>2. CASE CanFail(thr[t].con) /\ Fails(t) /\ Broken(thr[t].con) /\ UNCHANGED wire
  BY <1>1, <1>2, FailedWrite DEF WriteHead
<1>3. CASE /\ CanWrite(thr[t].con) /\ Piece(t, "head") /\ Goto(t, "body")
           /\ UNCHANGED <<conn, gone, lock>>
  <2> DEFINE k == thr[t].con
             e == [msg |-> thr[t].msg, piece |-> "head"]
             v == Append(wire[k], e)
  <2>1. /\ TypeOK /\ WriterOK(t) /\ lock = t /\ thr[t].msg \in Messages
        /\ k \in Consoles /\ wire[k] \in Pieces /\ Framed(wire[k]) /\ wire'[k] = v
        /\ \A b \in Consoles : b # k => wire'[b] = wire[b]
        /\ wire' = [b \in Consoles |-> wire'[b]] /\ \A b \in Consoles : wire[b] \in Pieces
    BY <1>1, <1>3, WrittenFacts
  <2>2. conn[k].server = "open"
    BY <1>3 DEF CanWrite
  <2>3. e \in [msg : Messages, piece : {"head", "body"}] /\ e.msg = thr[t].msg /\ e.piece = "head"
    BY <2>1
  <2> HIDE DEF e
  <2>4. /\ v \in Pieces /\ Framed(v) /\ Len(v) = Len(wire[k]) + 1 /\ Len(wire[k]) \in Nat
        /\ v[Len(v)] = e
    BY <2>1, <2>3, PieceFramed, AppendFacts
  <2>5. /\ thr' \in [Threads -> ThreadState] /\ Others(t) /\ thr'[t].pc = "body"
        /\ thr'[t].op = thr[t].op /\ thr'[t].msg = thr[t].msg
        /\ thr'[t].file = thr[t].file /\ thr'[t].con = k /\ thr'[t].ret = thr[t].ret
    <3>1. "body" \in Pcs
      BY DEF Pcs
    <3> QED BY <1>3, <2>1, <3>1, GotoFacts
  <2>6. /\ console' = console /\ conn' = conn /\ lock' = lock
        /\ UNCHANGED <<cache, offered, sent, gone, capture>>
    BY <1>3 DEF WriteHead
  <2> HIDE DEF k, v
  <2>7. TypeOK'
    <3>1. wire' \in [Consoles -> Pieces]
      BY <2>1, <2>4
    <3> QED BY <2>1, <2>5, <2>6, <3>1 DEF TypeOK, Pieces
  <2>8. LockInv'
    BY <2>1, <2>5, <2>6 DEF IInv, LockInv, Holds, Others
  <2>9. MsgInv'
    <3>1. ASSUME NEW u \in Threads
          PROVE  WriterOK(u)'
      <4>1. WriterOK(u)
        BY DEF IInv, MsgInv
      <4>2. CASE u = t
        BY <1>1, <2>5, <2>6, <4>1, <4>2 DEF WriterOK, WritePcs, k
      <4>3. CASE u # t
        BY <2>5, <2>6, <4>1, <4>3 DEF WriterOK, Others
      <4> QED BY <4>2, <4>3
    <3> QED BY <3>1 DEF MsgInv
  <2>10. ConnInv'
    <3>1. \/ thr'["run"].pc \notin {"announce", "accept", "forget", "open"}
          \/ thr'["run"] = thr["run"]
      BY <2>5 DEF Others, Threads
    <3> QED BY <1>1, <2>1, <2>2, <2>5, <2>6, <3>1 DEF IInv, ConnInv, Others, Threads
  <2>11. FrameInv'
    <3>1. \A c \in Consoles : Framed(wire[c])'
      BY <2>1, <2>4 DEF IInv, FrameInv
    <3>2. ASSUME NEW u \in Threads, (thr[u].pc = "body")'
          PROVE  u = t
      BY <2>1, <2>5, <3>2 DEF IInv, LockInv, Holds, Others
    <3>3. (/\ wire[thr[t].con] # <<>>
           /\ wire[thr[t].con][Len(wire[thr[t].con])] = [msg |-> thr[t].msg, piece |-> "head"])'
      <4>1. wire'[k] # <<>>
        BY <2>1, <2>4
      <4>2. wire'[k][Len(wire'[k])] = [msg |-> thr[t].msg, piece |-> "head"]
        BY <2>1, <2>4 DEF e
      <4> QED BY <2>5, <4>1, <4>2
    <3>4. \A u \in Threads : thr[u].pc # "body"
      <4> SUFFICES ASSUME NEW u \in Threads, thr[u].pc = "body" PROVE FALSE
        OBVIOUS
      <4>1. u = t
        BY <1>1, OnlyWriter
      <4> QED BY <1>1, <4>1
    <3>5. thr'[t].pc = "body" /\ thr'[t].con = k /\ thr'[t].msg = e.msg
      BY <2>3, <2>5
    <3>6. (\A c \in Consoles : \A i \in 1..Len(wire[c]) : HeadOK(c, i))'
      <4>1. \A u \in Threads : \A c \in Consoles : \A m : ~Writes(u, c, m)
        BY <3>4 DEF Writes
      <4>2. FrameInv /\ gone' = gone /\ wire'[k] = Append(wire[k], e)
        BY <2>1, <2>6 DEF IInv, v
      <4> QED BY <2>1, <2>3, <3>5, <4>1, <4>2, HeadsStay
    <3> QED BY <3>1, <3>2, <3>3, <3>6 DEF FrameInv
  <2> QED BY <2>7, <2>8, <2>9, <2>10, <2>11 DEF IInv
<1> QED BY <1>2, <1>3 DEF WriteHead

\* The rest of a frame.
LEMMA WriteBodyInv ==
    ASSUME IInv, NEW t \in Threads, WriteBody(t)
    PROVE  IInv'
<1>1. thr[t].pc = "body" /\ thr[t].pc \in {"head", "body"}
  BY DEF WriteBody
<1>2. CASE Fails(t) /\ Broken(thr[t].con) /\ UNCHANGED wire
  BY <1>1, <1>2, FailedWrite DEF WriteBody
<1>4. CASE Throws(t) /\ UNCHANGED <<conn, wire>>
  BY <1>1, <1>4, ThrowsInv DEF WriteBody
<1>3. CASE /\ CanWrite(thr[t].con) /\ Piece(t, "body") /\ UNCHANGED <<conn, gone>>
           /\ IF thr[t].op = "write" THEN Returned(t, thr[t].ret)
              ELSE /\ thr' = [thr EXCEPT ![t] = [@ EXCEPT !.pc = "poll", !.msg = 0]]
                   /\ UNCHANGED lock
  <2> DEFINE k == thr[t].con
             e == [msg |-> thr[t].msg, piece |-> "body"]
             v == Append(wire[k], e)
  <2>1. /\ TypeOK /\ WriterOK(t) /\ lock = t /\ thr[t].msg \in Messages
        /\ k \in Consoles /\ wire[k] \in Pieces /\ Framed(wire[k]) /\ wire'[k] = v
        /\ \A b \in Consoles : b # k => wire'[b] = wire[b]
        /\ wire' = [b \in Consoles |-> wire'[b]] /\ \A b \in Consoles : wire[b] \in Pieces
    BY <1>1, <1>3, WrittenFacts
  <2>2. conn[k].server = "open"
    BY <1>3 DEF CanWrite
  <2>3. e \in [msg : Messages, piece : {"head", "body"}] /\ e.msg = thr[t].msg /\ e.piece = "body"
    BY <2>1
  <2>12. wire[k] # <<>> /\ wire[k][Len(wire[k])] = [msg |-> e.msg, piece |-> "head"]
    BY <1>1 DEF IInv, FrameInv
  <2> HIDE DEF e
  <2>4. v \in Pieces /\ Framed(v)
    BY <2>1, <2>3, <2>12, PieceFramed, AppendFacts
  <2>5. /\ thr' \in [Threads -> ThreadState] /\ Others(t)
        /\ thr'[t].pc \in {"poll", "idle", "on_connected", "loop", "close_check"}
        /\ t # "run" => thr'[t].ret = "idle" /\ thr'[t].pc \in {"poll", "idle"}
        /\ thr'[t].file = FALSE
        /\ lock' \in Threads \union {"none"} /\ (thr'[t].pc = "poll" => lock' = t)
    <3>1. CASE thr[t].op = "write"
      <4>1. /\ Returned(t, thr[t].ret) /\ thr[t].ret \in Pcs
            /\ thr[t].ret \in {"idle", "on_connected", "loop", "close_check"}
        BY <1>3, <2>1, <3>1 DEF TypeOK, ThreadState, Pcs
      <4> QED BY <2>1, <4>1, ReturnedFacts DEF WriterOK
    <3>2. CASE thr[t].op # "write"
      <4>1. /\ thr' = [thr EXCEPT ![t] = [@ EXCEPT !.pc = "poll", !.msg = 0]]
            /\ lock' = lock /\ thr[t].file = FALSE
        BY <1>3, <2>1, <3>2 DEF WriterOK, TypeOK, ThreadState
      <4>2. 0 \in 0..MessageBound /\ "poll" \in Pcs
        BY ConsoleAssumption DEF Pcs
      <4>3. /\ thr' \in [Threads -> ThreadState] /\ Others(t) /\ thr'[t].pc = "poll"
            /\ thr'[t].file = thr[t].file /\ thr'[t].ret = thr[t].ret
        <5> DEFINE r == thr[t]
                   s == [r EXCEPT !.pc = "poll", !.msg = 0]
        <5>1. thr' = [thr EXCEPT ![t] = s]
          BY <4>1
        <5>2. r \in ThreadState
          BY <2>1 DEF TypeOK
        <5> HIDE DEF r
        <5>3. s \in ThreadState /\ s.pc = "poll" /\ s.file = r.file /\ s.ret = r.ret
          BY <4>2, <5>2 DEF ThreadState
        <5> HIDE DEF s
        <5> QED BY <2>1, <5>1, <5>3, SetFacts DEF r
      <4> QED BY <2>1, <4>1, <4>3 DEF WriterOK
    <3> QED BY <3>1, <3>2
  <2>6. /\ console' = console /\ conn' = conn
        /\ UNCHANGED <<cache, offered, sent, gone, capture>>
    BY <1>3 DEF WriteBody
  <2> HIDE DEF k, v
  <2>7. TypeOK'
    <3>1. wire' \in [Consoles -> Pieces]
      BY <2>1, <2>4
    <3> QED BY <2>1, <2>5, <2>6, <3>1 DEF TypeOK, Pieces
  <2>8. LockInv'
    BY <2>1, <2>5 DEF IInv, LockInv, Holds, Others, ClosePcs
  <2>9. MsgInv'
    <3>1. ASSUME NEW u \in Threads
          PROVE  WriterOK(u)'
      <4>1. WriterOK(u)
        BY DEF IInv, MsgInv
      <4>2. CASE u = t
        BY <2>5, <4>2 DEF WriterOK, WritePcs
      <4>3. CASE u # t
        BY <2>5, <2>6, <4>1, <4>3 DEF WriterOK, Others
      <4> QED BY <4>2, <4>3
    <3> QED BY <3>1 DEF MsgInv
  <2>10. ConnInv'
    <3>1. "run" \in Threads
      BY DEF Threads
    <3>2. CASE t = "run"
      BY <1>1, <2>1, <2>2, <2>5, <2>6, <3>2 DEF IInv, ConnInv
    <3>3. CASE t # "run"
      <4>1. thr'["run"] = thr["run"]
        BY <2>5, <3>1, <3>3 DEF Others
      <4> QED BY <2>1, <2>2, <2>6, <4>1 DEF IInv, ConnInv
    <3> QED BY <3>2, <3>3
  <2>11. FrameInv'
    <3>1. \A c \in Consoles : Framed(wire[c])'
      BY <2>1, <2>4 DEF IInv, FrameInv
    <3>2. \A u \in Threads : (thr[u].pc # "body")'
      BY <2>1, <2>5 DEF IInv, LockInv, Holds, Others
    <3>3. (\A c \in Consoles : \A i \in 1..Len(wire[c]) : HeadOK(c, i))'
      <4>1. ASSUME NEW u \in Threads, NEW c \in Consoles, NEW m, Writes(u, c, m)
            PROVE  c = k /\ e = [msg |-> m, piece |-> "body"]
        <5>1. u = t
          BY <1>1, <4>1, OnlyWriter DEF Writes
        <5> QED BY <4>1, <5>1 DEF Writes, e, k
      <4>2. FrameInv /\ gone' = gone /\ wire'[k] = Append(wire[k], e)
        BY <2>1, <2>6 DEF IInv, v
      <4> QED BY <2>1, <2>3, <4>1, <4>2, HeadsStay
    <3> QED BY <3>1, <3>2, <3>3 DEF FrameInv
  <2> QED BY <2>7, <2>8, <2>9, <2>10, <2>11 DEF IInv
<1> QED BY <1>2, <1>3, <1>4 DEF WriteBody

-----------------------------------------------------------------------------
(* The theorems *)

\* Nobody has connected and nobody has printed.
LEMMA InitInv == Init => IInv
<1> SUFFICES ASSUME Init PROVE IInv
  OBVIOUS
<1>1. /\ thr \in [Threads -> ThreadState]
      /\ \A t \in Threads : /\ thr[t].pc = (IF t = "run" THEN "accept" ELSE "idle")
                            /\ thr[t].file = FALSE /\ thr[t].ret = "idle"
  <2>1. 0 \in 0..MessageBound /\ 0 \in 0..ConsoleBound /\ "accept" \in Pcs /\ "idle" \in Pcs
    BY ConsoleAssumption DEF Pcs
  <2> QED BY <2>1 DEF Init, ThreadState, ThreadAt
<1>2. /\ console = 0 /\ \A c \in Consoles : conn[c].server = "none" /\ wire[c] = <<>>
      /\ "run" \in Threads
  BY DEF Init, Threads
<1>3. TypeOK
  <2>1. /\ console \in 0..ConsoleBound /\ sent \in 0..MessageBound /\ gone \subseteq Messages
        /\ lock \in Threads \union {"none"}
    BY ConsoleAssumption DEF Init
  <2>2. conn \in [Consoles -> Connection]
    BY DEF Init, Connection
  <2>3. /\ wire \in [Consoles -> Seq([msg : Messages, piece : {"head", "body"}])]
        /\ cache \in Seq(Messages) /\ offered \in Seq(Messages)
    BY DEF Init
  <2>4. Len(cache) <= CacheBound
    BY ConsoleAssumption DEF Init
  <2>5. capture \in BOOLEAN
    BY Zenon DEF Init
  <2> QED BY <1>1, <2>1, <2>2, <2>3, <2>4, <2>5 DEF TypeOK
<1>4. LockInv
  BY <1>1 DEF LockInv, Holds, ClosePcs
<1>5. MsgInv
  BY <1>1 DEF MsgInv, WriterOK, WritePcs
<1>6. ConnInv
  BY <1>1, <1>2 DEF ConnInv
<1>7. FrameInv
  <2>1. Framed(<<>>)
    BY DEF Framed
  <2>2. Len(<<>>) = 0
    OBVIOUS
  <2> QED BY <1>1, <1>2, <2>1, <2>2 DEF FrameInv
<1> QED BY <1>3, <1>4, <1>5, <1>6, <1>7 DEF IInv

\* Every step of a thread or of a client keeps the invariant.
LEMMA NextInv == IInv /\ [Next]_vars => IInv'
<1> SUFFICES ASSUME IInv, [Next]_vars PROVE IInv'
  OBVIOUS
<1>1. ASSUME NEW t \in Writers, NEW file \in BOOLEAN, writeToConsole(t, file)
      PROVE  IInv'
  BY <1>1, WriteToConsoleInv
<1>2. ASSUME NEW t \in Threads, Step(t)
      PROVE  IInv'
  BY <1>2, EnterInv, CheckConsoleInv, GetConsoleInv, WriteHeadInv, WriteBodyInv,
     CloseCheckInv, OnClosedInv, CloseInv, ForgetInv DEF Step
<1>3. CASE run
  BY <1>3, AcceptInv, OpenInv, RunPrintsInv, OnConnectedInv, LoopTopInv, FlushCacheInv,
     PollInv, ReadCommandInv, InitializeLogServerInv, SendBroadcastInv DEF run
<1>4. ASSUME NEW c \in Consoles, ClientLeaves(c) \/ ClientStalls(c)
      PROVE  IInv'
  BY <1>4, ClientInv
<1>5. CASE UNCHANGED vars
  <2>1. TypeOK'
    BY <1>5 DEF vars, IInv, TypeOK
  <2>2. LockInv' /\ MsgInv'
    BY <1>5 DEF vars, IInv, LockInv, Holds, MsgInv, WriterOK
  <2>3. ConnInv'
    BY <1>5 DEF vars, IInv, ConnInv
  <2>4. FrameInv'
    BY <1>5, FrameStays DEF vars, IInv
  <2> QED BY <2>1, <2>2, <2>3, <2>4 DEF IInv
<1> QED BY <1>1, <1>2, <1>3, <1>4, <1>5 DEF Next

\* The invariant is inductive.
LEMMA Invariance == Spec => []IInv
BY InitInv, NextInv, PTL DEF Spec

\* The fields, the connections and the threads keep their types, and the queue its
\* limit, whatever the app prints while no client is connected.
THEOREM TypeCorrect == Spec => []TypeOK
<1>1. IInv => TypeOK
  BY DEF IInv
<1> QED BY <1>1, Invariance, PTL

\* For every number of threads that print, of messages and of clients, two writers never
\* interleave on a connection: a body directly follows the head of its own message, also
\* where earlier frames were cut off, and a head without its body belongs to the message
\* that is being written or to one that writeToConsole or flushCache gave up.
THEOREM FramesStaySeparate == Spec => []FramesSeparate
<1>1. IInv => FramesSeparate
  <2> SUFFICES ASSUME IInv, NEW c \in Consoles, NEW i \in 1..Len(wire[c])
               PROVE  LET w == wire[c][i]
                      IN  IF w.piece = "body"
                          THEN i > 1 /\ wire[c][i - 1] = [msg |-> w.msg, piece |-> "head"]
                          ELSE \/ i < Len(wire[c]) /\ wire[c][i + 1] = [msg |-> w.msg, piece |-> "body"]
                               \/ i = Len(wire[c]) /\ InFlight(w.msg)
                               \/ w.msg \in gone
    BY DEF FramesSeparate
  <2>1. Framed(wire[c]) /\ HeadOK(c, i)
    BY DEF IInv, FrameInv
  <2>2. CASE wire[c][i].piece = "body"
    BY <2>1, <2>2 DEF Framed
  <2>3. CASE wire[c][i].piece # "body"
    <3>1. wire[c][i].piece = "head"
      <4>1. wire[c] \in Pieces
        BY DEF IInv, TypeOK, Pieces
      <4>2. wire[c][i] \in [msg : Messages, piece : {"head", "body"}]
        BY <4>1, PieceIn
      <4> QED BY <2>3, <4>2
    <3>2. ASSUME NEW t \in Threads, Writes(t, c, wire[c][i].msg)
          PROVE  InFlight(wire[c][i].msg)
      BY <3>2 DEF Writes, InFlight
    <3> QED BY <2>1, <2>3, <3>1, <3>2 DEF HeadOK
  <2> QED BY <2>2, <2>3
<1> QED BY <1>1, Invariance, PTL

-----------------------------------------------------------------------------
(* Where the messages are *)

Began(w, a, m) == w[a] = [msg |-> m, piece |-> "head"]

Ended(m) == \E c \in Consoles : \E i \in 1..Len(wire[c]) :
               wire[c][i] = [msg |-> m, piece |-> "body"]

\* The message of a thread is nowhere else, except that a part of it may be on the
\* wire.  run has taken the one that it flushes from the front of the queue; any
\* other was never in the queue.
Carries(t) ==
    /\ thr[t].pc \in WritePcs <=> thr[t].msg # 0
    /\ thr[t].msg # 0 =>
         /\ thr[t].msg <= sent /\ thr[t].msg \notin gone /\ ~Cached(thr[t].msg)
         /\ OnWire(thr[t].msg) => thr[t].pc = "body"
         /\ \A u \in Threads : thr[u].msg = thr[t].msg => u = t
    /\ thr[t].msg # 0 /\ thr[t].op = "flush" =>
         /\ t = "run" /\ thr[t].pc \in {"get", "head", "body"} /\ Len(cache) < Len(offered)
         /\ thr[t].msg = offered[Len(offered) - Len(cache)]
    /\ thr[t].msg # 0 /\ thr[t].op # "flush" =>
         \A i \in 1..Len(offered) : offered[i] # thr[t].msg

CarryInv == \A t \in Threads : Carries(t)

\* The queue is the end of what was offered, each message once, and none of it was
\* written or given up.
QueueInv ==
    /\ Len(cache) <= Len(offered)
    /\ \A i \in 1..Len(cache) : cache[i] = offered[Len(offered) - Len(cache) + i]
    /\ \A i, j \in 1..Len(offered) : offered[i] = offered[j] => i = j
    /\ \A i \in 1..Len(offered) : offered[i] <= sent
    /\ \A i \in 1..Len(cache) : cache[i] \notin gone /\ ~OnWire(cache[i])

\* A message begins once, and what was offered begins in the order of its offers.
InOrder(i, j, c, d) ==
    \A a \in 1..Len(wire[c]), b \in 1..Len(wire[d]) :
       Began(wire[c], a, offered[i]) /\ Began(wire[d], b, offered[j]) =>
          c < d \/ (c = d /\ a < b)

Sorted == \A i, j \in 1..Len(offered) : i < j =>
             \A c, d \in Consoles : InOrder(i, j, c, d)

WireInv ==
    /\ \A c \in Consoles : \A a \in 1..Len(wire[c]) : wire[c][a].msg <= sent
    /\ \A c, d \in Consoles : \A a \in 1..Len(wire[c]), b \in 1..Len(wire[d]) :
         \A m \in 1..sent : Began(wire[c], a, m) /\ Began(wire[d], b, m) => c = d /\ a = b
    /\ Sorted

\* Every message is somewhere, and a part of it is on the wire only while the rest
\* is to come or was given up.
WholeInv ==
    /\ \A m \in 1..sent : InFlight(m) \/ Cached(m) \/ OnWire(m) \/ m \in gone
    /\ \A m \in 1..sent : OnWire(m) => InFlight(m) \/ m \in gone \/ Ended(m)
    /\ gone \subseteq 1..sent

\* Consoles are used in their order, and the one in the field is the last.
UseInv ==
    /\ \A c, d \in Consoles : conn[c].server = "none" /\ d > c => conn[d].server = "none"
    /\ console # 0 => \A d \in Consoles : d > console => conn[d].server = "none"

AccountInv == CarryInv /\ QueueInv /\ WireInv /\ WholeInv

\* t neither gets nor loses its message.
Keeps(t) ==
    /\ Others(t) /\ thr'[t].msg = thr[t].msg
    /\ thr'[t].pc \in WritePcs <=> thr'[t].msg # 0
    /\ thr[t].msg # 0 => /\ thr'[t].op = thr[t].op
                         /\ thr[t].pc = "body" => thr'[t].pc = "body"
                         /\ thr[t].op = "flush" => thr'[t].pc \in {"get", "head", "body"}

\* The order of the wires depends on nothing else.
LEMMA SortedStays ==
    ASSUME Sorted, wire' = wire, offered' = offered
    PROVE  Sorted'
<1> SUFFICES ASSUME NEW i \in 1..Len(offered), NEW j \in 1..Len(offered), i < j,
                    NEW c \in Consoles, NEW d \in Consoles
             PROVE  InOrder(i, j, c, d)'
  BY DEF Sorted
<1>1. InOrder(i, j, c, d)  BY DEF Sorted
<1>2. QED  BY <1>1 DEF InOrder

LEMMA WireStays ==
    ASSUME WireInv, wire' = wire, offered' = offered, sent' = sent
    PROVE  WireInv'
<1>1. Sorted'  BY SortedStays DEF WireInv
<1>2. QED  BY <1>1 DEF WireInv, Began

\* A step that moves no message.
LEMMA StillStep ==
    ASSUME AccountInv, NEW t \in Threads, Keeps(t),
           UNCHANGED <<wire, cache, offered, sent, gone>>
    PROVE  AccountInv'
<1>1. \A u \in Threads : thr'[u].msg = thr[u].msg  BY DEF Keeps, Others
<1>2. \A m : /\ OnWire(m)' <=> OnWire(m)
             /\ Cached(m)' <=> Cached(m)
             /\ InFlight(m)' <=> InFlight(m)
             /\ Ended(m)' <=> Ended(m)
  BY <1>1 DEF OnWire, IsOn, Cached, InFlight, Ended
<1>3. CarryInv'
  <2> SUFFICES ASSUME NEW u \in Threads PROVE Carries(u)'  BY DEF CarryInv
  <2>1. Carries(u)  BY DEF AccountInv, CarryInv
  <2>2. CASE u = t  BY <1>1, <1>2, <2>1, <2>2 DEF Carries, Keeps
  <2>3. CASE u # t
    <3>1. thr'[u] = thr[u]  BY <2>3 DEF Keeps, Others
    <3>2. QED  BY <1>1, <1>2, <2>1, <3>1 DEF Carries
  <2>4. QED  BY <2>2, <2>3
<1>4. QueueInv'  BY <1>2 DEF AccountInv, QueueInv
<1>5. WireInv'  BY WireStays DEF AccountInv
<1>6. WholeInv'  BY <1>2 DEF AccountInv, WholeInv
<1>7. QED  BY <1>3, <1>4, <1>5, <1>6 DEF AccountInv

\* What is written to a connection are pieces of messages.
LEMMA PieceFacts ==
    ASSUME TypeOK, NEW c \in Consoles, NEW a \in 1..Len(wire[c])
    PROVE  /\ wire[c][a] \in [msg : Messages, piece : {"head", "body"}]
           /\ wire[c][a].msg \in Messages /\ a \in Nat /\ Len(wire[c]) \in Nat
<1> DEFINE S == [msg : Messages, piece : {"head", "body"}]
<1>1. wire[c] \in Seq(S)  BY DEF TypeOK
<1> HIDE DEF S
<1>2. wire[c][a] \in S /\ Len(wire[c]) \in Nat  BY <1>1
<1>3. wire[c][a].msg \in Messages  BY <1>2 DEF S
<1>4. QED  BY <1>2, <1>3 DEF S

\* What is in the queue was offered, so it is not new.
LEMMA CacheOld ==
    ASSUME TypeOK, QueueInv, NEW i \in 1..Len(cache)
    PROVE  cache[i] \in 1..sent /\ Cached(cache[i])
<1> DEFINE k == Len(offered) - Len(cache) + i
<1>1. Len(cache) \in Nat /\ Len(offered) \in Nat /\ Len(cache) <= Len(offered)
  BY DEF TypeOK, QueueInv
<1>2. k \in 1..Len(offered)  BY <1>1
<1>3. cache[i] = offered[k] /\ offered[k] <= sent  BY <1>2 DEF QueueInv
<1>4. offered[k] \in Messages  BY <1>2 DEF TypeOK
<1>5. cache[i] \in 1..sent  BY <1>3, <1>4 DEF Messages, TypeOK
<1>6. Cached(cache[i])  BY DEF Cached
<1>7. QED  BY <1>5, <1>6

\* A message that is on a wire is not new.
LEMMA WireOld ==
    ASSUME WireInv, NEW m, OnWire(m)
    PROVE  m <= sent
BY DEF WireInv, OnWire, IsOn

\* A call gets a number that no message has.
LEMMA CallStep ==
    ASSUME TypeOK, AccountInv, NEW t \in Threads, Others(t), thr[t].pc \notin WritePcs,
           sent' = sent + 1, UNCHANGED <<wire, cache, offered, gone>>,
           thr'[t].msg = sent + 1, thr'[t].pc = "enter", thr'[t].op = "write"
    PROVE  AccountInv'
<1> PICK m : m = sent + 1  OBVIOUS
<1>1. /\ sent \in Nat /\ m \in Nat /\ m # 0 /\ ~(m <= sent) /\ sent <= m
      /\ \A n \in 1..m : n \in 1..sent \/ n = m
      /\ \A n \in 1..sent : n \in 1..m /\ n # m
      /\ \A n \in Nat : n <= sent => n <= m
  BY ConsoleAssumption DEF TypeOK
<1>2. thr[t].msg = 0  BY DEF AccountInv, CarryInv, Carries
<1>3. \A u \in Threads : thr[u].msg # 0 => thr[u].msg <= sent
  BY DEF AccountInv, CarryInv, Carries
<1>4. \A u \in Threads : u # t => thr'[u] = thr[u]  BY DEF Others
<1>5. ~OnWire(m) /\ ~Cached(m) /\ m \notin gone
  <2>1. ~OnWire(m)  BY <1>1, WireOld DEF AccountInv
  <2>2. ~Cached(m)
    <3> SUFFICES ASSUME NEW i \in 1..Len(cache), cache[i] = m PROVE FALSE  BY DEF Cached
    <3>1. QED  BY <1>1, CacheOld DEF AccountInv
  <2>3. m \notin gone  BY <1>1 DEF AccountInv, WholeInv
  <2>4. QED  BY <2>1, <2>2, <2>3
<1>6. \A n : /\ OnWire(n)' <=> OnWire(n)
             /\ Cached(n)' <=> Cached(n)
             /\ Ended(n)' <=> Ended(n)
  BY DEF OnWire, IsOn, Cached, Ended
<1>7. \A i \in 1..Len(offered) : offered[i] <= sent /\ offered[i] \in Nat
  <2> SUFFICES ASSUME NEW i \in 1..Len(offered)
               PROVE  offered[i] <= sent /\ offered[i] \in Nat
    OBVIOUS
  <2>1. offered[i] \in Messages  BY DEF TypeOK
  <2>2. offered[i] <= sent  BY DEF AccountInv, QueueInv
  <2>3. QED  BY ConsoleAssumption, <2>1, <2>2 DEF Messages
<1>8. \A u \in Threads : thr[u].msg \in Nat  BY ConsoleAssumption DEF TypeOK, ThreadState
<1>9. thr'[t].msg = m /\ sent' = m  OBVIOUS
<1>10. CarryInv'
  <2> SUFFICES ASSUME NEW u \in Threads PROVE Carries(u)'  BY DEF CarryInv
  <2>1. CASE u = t
    <3>1. \A v \in Threads : thr'[v].msg = m => v = t  BY <1>1, <1>3, <1>4
    <3>2. \A i \in 1..Len(offered) : offered[i] # m  BY <1>1, <1>7
    <3>3. QED  BY <1>1, <1>5, <1>6, <1>9, <2>1, <3>1, <3>2 DEF Carries, WritePcs
  <2>2. CASE u # t
    <3>1. thr'[u] = thr[u] /\ Carries(u)  BY <1>4, <2>2 DEF AccountInv, CarryInv
    <3>2. thr[u].msg # 0 => thr[u].msg <= m /\ thr[u].msg # m  BY <1>1, <1>3, <1>8
    <3>3. ASSUME thr[u].msg # 0, NEW v \in Threads, thr'[v].msg = thr[u].msg PROVE v = u
      BY <1>4, <1>9, <3>1, <3>2, <3>3 DEF Carries
    <3>4. QED  BY <1>6, <1>9, <3>1, <3>2, <3>3 DEF Carries
  <2>3. QED  BY <2>1, <2>2
<1>11. QueueInv'  BY <1>1, <1>6, <1>7, <1>9 DEF AccountInv, QueueInv
<1>12. WireInv'
  <2>1. wire' = wire /\ offered' = offered  OBVIOUS
  <2>2. Sorted'  BY <2>1, SortedStays DEF AccountInv, WireInv
  <2>3. \A c \in Consoles : \A a \in 1..Len(wire[c]) : wire[c][a].msg <= m
    <3> SUFFICES ASSUME NEW c \in Consoles, NEW a \in 1..Len(wire[c])
                 PROVE  wire[c][a].msg <= m
      OBVIOUS
    <3>1. wire[c][a].msg \in Nat /\ wire[c][a].msg <= sent
      <4>1. wire[c][a].msg \in Messages  BY PieceFacts
      <4>2. wire[c][a].msg <= sent  BY DEF AccountInv, WireInv
      <4>3. QED  BY ConsoleAssumption, <4>1, <4>2 DEF Messages
    <3>2. QED  BY <1>1, <3>1
  <2>4. ASSUME NEW c \in Consoles, NEW d \in Consoles,
               NEW a \in 1..Len(wire[c]), NEW b \in 1..Len(wire[d]),
               NEW n \in 1..m, Began(wire[c], a, n), Began(wire[d], b, n)
        PROVE  c = d /\ a = b
    <3>1. n # m
      <4>1. IsOn(c, n)  BY <2>4 DEF IsOn, Began
      <4>2. QED  BY <1>5, <4>1 DEF OnWire
    <3>2. n \in 1..sent  BY <1>1, <3>1
    <3>3. QED  BY <2>4, <3>2 DEF AccountInv, WireInv
  <2>5. QED  BY <1>9, <2>1, <2>2, <2>3, <2>4 DEF WireInv
<1>13. WholeInv'
  <2>1. InFlight(m)'  BY <1>9 DEF InFlight
  <2>2. ASSUME NEW n \in 1..sent, InFlight(n) PROVE InFlight(n)'
    <3>1. PICK u \in Threads : thr[u].msg = n  BY <2>2 DEF InFlight
    <3>2. thr'[u] = thr[u]  BY <1>2, <1>4, <3>1
    <3>3. QED  BY <3>1, <3>2 DEF InFlight
  <2>3. gone' \subseteq 1..m  BY <1>1 DEF AccountInv, WholeInv
  <2>4. ASSUME NEW n \in 1..m
        PROVE  /\ (InFlight(n) \/ Cached(n) \/ OnWire(n) \/ n \in gone)'
               /\ (OnWire(n) => InFlight(n) \/ n \in gone \/ Ended(n))'
    <3>1. CASE n = m  BY <2>1, <3>1
    <3>2. CASE n \in 1..sent  BY <1>6, <2>2, <3>2 DEF AccountInv, WholeInv
    <3>3. QED  BY <1>1, <3>1, <3>2
  <2>5. QED  BY <1>9, <2>3, <2>4 DEF WholeInv
<1>14. QED  BY <1>10, <1>11, <1>12, <1>13 DEF AccountInv

\* A message is given up by the thread that has it.
LEMMA DropStep ==
    ASSUME TypeOK, AccountInv, NEW t \in Threads, Others(t), thr[t].msg # 0,
           UNCHANGED <<wire, cache, offered, sent>>, gone' = gone \union {thr[t].msg},
           thr'[t].msg = 0, thr'[t].pc \notin WritePcs
    PROVE  AccountInv'
<1> DEFINE m == thr[t].msg
<1>1. \A u \in Threads : u # t => thr'[u] = thr[u] /\ thr[u].msg # m
  BY DEF Others, AccountInv, CarryInv, Carries
<1>2. m \in 1..sent /\ ~Cached(m)
  <2>1. m \in Nat /\ sent \in Nat  BY ConsoleAssumption DEF TypeOK, ThreadState
  <2>2. m <= sent /\ ~Cached(m)  BY DEF AccountInv, CarryInv, Carries
  <2>3. QED  BY <2>1, <2>2
<1>3. \A n : /\ OnWire(n)' <=> OnWire(n)
             /\ Cached(n)' <=> Cached(n)
             /\ Ended(n)' <=> Ended(n)
  BY DEF OnWire, IsOn, Cached, Ended
<1>4. gone' = gone \union {m}  OBVIOUS
<1>5. ASSUME NEW n \in 1..sent, InFlight(n), n # m PROVE InFlight(n)'
  <2>1. PICK u \in Threads : thr[u].msg = n  BY <1>5 DEF InFlight
  <2>2. thr'[u] = thr[u]  BY <1>1, <1>5, <2>1
  <2>3. QED  BY <2>1, <2>2 DEF InFlight
<1>6. CarryInv'
  <2> SUFFICES ASSUME NEW u \in Threads PROVE Carries(u)'  BY DEF CarryInv
  <2>1. CASE u = t  BY <2>1 DEF Carries
  <2>2. CASE u # t
    <3>1. thr'[u] = thr[u] /\ Carries(u) /\ thr[u].msg # m
      BY <1>1, <2>2 DEF AccountInv, CarryInv
    <3>2. ASSUME thr[u].msg # 0, NEW v \in Threads, thr'[v].msg = thr[u].msg PROVE v = u
      BY <1>1, <3>1, <3>2 DEF Carries
    <3> HIDE DEF m
    <3>3. QED  BY <1>3, <1>4, <3>1, <3>2 DEF Carries
  <2>3. QED  BY <2>1, <2>2
<1> HIDE DEF m
<1>7. QueueInv'
  <2>1. \A i \in 1..Len(cache) : cache[i] # m  BY <1>2 DEF Cached
  <2>2. QED  BY <1>3, <1>4, <2>1 DEF AccountInv, QueueInv
<1>8. WireInv'  BY WireStays DEF AccountInv
<1>9. WholeInv'  BY <1>2, <1>3, <1>4, <1>5 DEF AccountInv, WholeInv
<1>10. QED  BY <1>6, <1>7, <1>8, <1>9 DEF AccountInv

\* r is q with m at its end and without its first x messages.
Moves(r, q, m, x) ==
    /\ Len(r) = Len(q) + 1 - x /\ x <= Len(q)
    /\ \A i \in 1..(Len(q) + 1 - x) : r[i] = IF i + x = Len(q) + 1 THEN m ELSE q[i + x]

\* offer and poll: the queue moves on by one message, or grows.
LEMMA OfferMoves ==
    ASSUME NEW q \in Seq(Messages), Len(q) <= CacheBound, NEW m \in Messages
    PROVE  \E x \in {0, 1} : Moves(Offer(q, m), q, m, x)
<1>1. CacheBound \in Nat /\ CacheBound >= 1 /\ Len(q) \in Nat  BY ConsoleAssumption
<1> DEFINE r == Append(q, m)
<1>2. /\ r \in Seq(Messages) /\ Len(r) = Len(q) + 1
      /\ \A i \in 1..(Len(q) + 1) : r[i] = IF i = Len(q) + 1 THEN m ELSE q[i]
  OBVIOUS
<1>3. Offer(q, m) = SubSeq(r, IF Len(r) > CacheBound THEN 2 ELSE 1, Len(r))
  BY DEF Offer
<1> HIDE DEF r
<1>4. CASE Len(r) > CacheBound
  <2>1. Offer(q, m) = SubSeq(r, 2, Len(q) + 1)  BY <1>2, <1>3, <1>4
  <2>2. /\ Len(Offer(q, m)) = Len(q)
        /\ \A i \in 1..Len(q) : Offer(q, m)[i] = r[i + 1]
    BY <1>1, <1>2, <2>1
  <2>3. 1 <= Len(q) /\ Len(q) + 1 - 1 = Len(q)  BY <1>1, <1>2, <1>4
  <2>4. \A i \in 1..Len(q) : Offer(q, m)[i] = IF i + 1 = Len(q) + 1 THEN m ELSE q[i + 1]
    BY <1>1, <1>2, <2>2
  <2>5. Moves(Offer(q, m), q, m, 1)  BY <2>2, <2>3, <2>4 DEF Moves
  <2>6. QED  BY <2>5
<1>5. CASE ~(Len(r) > CacheBound)
  <2>1. Offer(q, m) = SubSeq(r, 1, Len(q) + 1)  BY <1>2, <1>3, <1>5
  <2>2. /\ Len(Offer(q, m)) = Len(q) + 1
        /\ \A i \in 1..(Len(q) + 1) : Offer(q, m)[i] = r[i]
    BY <1>1, <1>2, <2>1
  <2>3. 0 <= Len(q) /\ Len(q) + 1 - 0 = Len(q) + 1  BY <1>1
  <2>4. \A i \in 1..(Len(q) + 1) : Offer(q, m)[i] = IF i + 0 = Len(q) + 1 THEN m ELSE q[i + 0]
    BY <1>1, <1>2, <2>2
  <2>5. Moves(Offer(q, m), q, m, 0)  BY <2>2, <2>3, <2>4 DEF Moves
  <2>6. QED  BY <2>5
<1>6. QED  BY <1>4, <1>5

\* While t holds the lock to cache its message, run flushes none.
LEMMA NoFlush ==
    ASSUME LockInv, CarryInv, NEW t \in Threads, thr[t].pc = "check",
           NEW u \in Threads, thr[u].msg # 0
    PROVE  thr[u].op # "flush"
<1> SUFFICES ASSUME thr[u].op = "flush" PROVE FALSE  OBVIOUS
<1>1. u = "run" /\ thr[u].pc \in {"get", "head", "body"}  BY DEF CarryInv, Carries
<1>2. lock = u /\ lock = t  BY <1>1 DEF LockInv, Holds
<1>3. QED  BY <1>1, <1>2

\* No message is in the queue twice.
LEMMA CacheOnce ==
    ASSUME TypeOK, QueueInv, NEW i \in 1..Len(cache), NEW j \in 1..Len(cache),
           cache[i] = cache[j]
    PROVE  i = j
<1> DEFINE k == Len(offered) - Len(cache)
<1>1. Len(cache) \in Nat /\ Len(offered) \in Nat /\ Len(cache) <= Len(offered)
  BY DEF TypeOK, QueueInv
<1>2. k + i \in 1..Len(offered) /\ k + j \in 1..Len(offered) /\ k \in Nat  BY <1>1
<1>3. cache[i] = offered[k + i] /\ cache[j] = offered[k + j]  BY DEF QueueInv
<1> HIDE DEF k
<1>4. k + i = k + j  BY <1>2, <1>3 DEF QueueInv
<1>5. QED  BY <1>2, <1>4

\* A message of a thread that is not being written is not on a wire, nor the message
\* of another thread.
LEMMA CarryFacts ==
    ASSUME TypeOK, CarryInv, NEW t \in Threads, thr[t].pc \in WritePcs
    PROVE  /\ thr[t].msg \in 1..sent /\ thr[t].msg # 0 /\ thr[t].msg \in Messages
           /\ thr[t].msg \notin gone /\ ~Cached(thr[t].msg)
           /\ thr[t].pc # "body" => ~OnWire(thr[t].msg)
           /\ \A u \in Threads : u # t => thr[u].msg # thr[t].msg
<1>1. thr[t].msg # 0  BY DEF CarryInv, Carries
<1>2. thr[t].msg \in Nat /\ sent \in Nat /\ thr[t].msg <= MessageBound
  BY ConsoleAssumption DEF TypeOK, ThreadState
<1>3. /\ thr[t].msg <= sent /\ thr[t].msg \notin gone /\ ~Cached(thr[t].msg)
      /\ thr[t].pc # "body" => ~OnWire(thr[t].msg)
      /\ \A u \in Threads : u # t => thr[u].msg # thr[t].msg
  BY <1>1 DEF CarryInv, Carries
<1>4. thr[t].msg \in 1..sent /\ thr[t].msg \in Messages
  BY ConsoleAssumption, <1>1, <1>2, <1>3 DEF Messages
<1>5. QED  BY <1>1, <1>3, <1>4

\* A message is cached, and the oldest one is given up if there is no room.
LEMMA OfferStep ==
    ASSUME TypeOK, LockInv, AccountInv, NEW t \in Threads, Others(t),
           thr[t].pc = "check", UNCHANGED <<wire, sent>>,
           cache' = Offer(cache, thr[t].msg), offered' = Append(offered, thr[t].msg),
           gone' = gone \union {cache[i] : i \in 1..(Len(cache) + 1 - Len(cache'))},
           thr'[t].msg = 0, thr'[t].pc \notin WritePcs
    PROVE  AccountInv'
<1> PICK m : m = thr[t].msg  OBVIOUS
<1> PICK n : n = Len(cache)  OBVIOUS
<1> PICK l : l = Len(offered)  OBVIOUS
<1>1. CarryInv /\ QueueInv /\ WireInv /\ WholeInv  BY DEF AccountInv
<1>2. /\ m \in 1..sent /\ m # 0 /\ m \in Messages /\ m \notin gone /\ ~Cached(m)
      /\ ~OnWire(m) /\ \A u \in Threads : u # t => thr[u].msg # m
  BY <1>1, CarryFacts DEF WritePcs
<1>3. \A i \in 1..l : offered[i] # m
  <2>1. thr[t].op # "flush"  BY <1>1, <1>2, NoFlush
  <2>2. QED  BY <1>1, <1>2, <2>1 DEF CarryInv, Carries
<1>4. \A u \in Threads : u # t => thr'[u] = thr[u]  BY DEF Others
<1>5. n \in Nat /\ l \in Nat /\ n <= l  BY <1>1 DEF TypeOK, QueueInv
<1>6. PICK x \in {0, 1} :
        /\ Len(cache') = n + 1 - x /\ x <= n
        /\ \A i \in 1..(n + 1 - x) :
             cache'[i] = IF i + x = n + 1 THEN m ELSE cache[i + x]
  <2>1. cache \in Seq(Messages) /\ Len(cache) <= CacheBound  BY DEF TypeOK
  <2>2. cache' = Offer(cache, m)  OBVIOUS
  <2>3. PICK x \in {0, 1} : Moves(cache', cache, m, x)  BY <1>2, <2>1, <2>2, OfferMoves
  <2>4. QED  BY <2>3 DEF Moves
<1>7. x \in {0, 1} /\ x <= n /\ Len(cache') = n + 1 - x  BY <1>6
<1>8. gone' = gone \union {cache[i] : i \in 1..x}
  <2>1. n + 1 - Len(cache') = x  BY <1>5, <1>6
  <2>2. QED  BY <2>1
<1>9. /\ Len(offered') = l + 1 /\ offered'[l + 1] = m
      /\ \A i \in 1..l : offered'[i] = offered[i]
  BY <1>2, <1>5 DEF TypeOK
<1>10. \A i \in 1..x : i \in 1..n  BY <1>5, <1>6
<1>11. ASSUME NEW k, Cached(k)' PROVE k = m \/ (Cached(k) /\ k \notin {cache[i] : i \in 1..x})
  <2>1. PICK i \in 1..(n + 1 - x) : cache'[i] = k  BY <1>6, <1>11 DEF Cached
  <2>2. CASE i + x = n + 1  BY <1>6, <2>1, <2>2
  <2>3. CASE i + x # n + 1
    <3>1. i + x \in 1..n /\ cache[i + x] = k /\ \A j \in 1..x : j # i + x
      BY <1>5, <1>6, <2>1, <2>3
    <3>2. Cached(k)  BY <3>1 DEF Cached
    <3>3. ASSUME NEW j \in 1..x, cache[j] = k PROVE FALSE
      BY <1>1, <1>10, <3>1, <3>3, CacheOnce
    <3>4. QED  BY <3>2, <3>3
  <2>4. QED  BY <2>2, <2>3
<1>12. Cached(m)'
  <2>1. n + 1 - x \in 1..(n + 1 - x) /\ (n + 1 - x) + x = n + 1  BY <1>5, <1>6
  <2>2. cache'[n + 1 - x] = m  BY <1>6, <2>1
  <2>3. QED  BY <1>6, <2>1, <2>2 DEF Cached
<1>13. ASSUME NEW k, Cached(k) PROVE Cached(k)' \/ k \in gone'
  <2>1. PICK i \in 1..n : cache[i] = k  BY <1>13 DEF Cached
  <2>2. CASE i \in 1..x  BY <1>8, <2>1, <2>2
  <2>3. CASE i \notin 1..x
    <3>1. i - x \in 1..(n + 1 - x) /\ (i - x) + x = i /\ i # n + 1  BY <1>5, <1>6, <2>3
    <3>2. cache'[i - x] = k  BY <1>6, <2>1, <3>1
    <3>3. QED  BY <1>6, <3>1, <3>2 DEF Cached
  <2>4. QED  BY <2>2, <2>3
<1>14. \A k : (OnWire(k)' <=> OnWire(k)) /\ (Ended(k)' <=> Ended(k))
  BY DEF OnWire, IsOn, Ended
<1>15. \A k \in gone' : k \in gone \/ Cached(k)
  BY <1>8, <1>10 DEF Cached
<1>16. CarryInv'
  <2> SUFFICES ASSUME NEW u \in Threads PROVE Carries(u)'  BY DEF CarryInv
  <2>1. CASE u = t  BY <2>1 DEF Carries
  <2>2. CASE u # t
    <3>1. thr'[u] = thr[u] /\ Carries(u) /\ thr[u].msg # m
      BY <1>1, <1>2, <1>4, <2>2 DEF CarryInv
    <3>2. CASE thr[u].msg = 0  BY <3>1, <3>2 DEF Carries
    <3>3. CASE thr[u].msg # 0
      <4> PICK k : k = thr[u].msg  OBVIOUS
      <4>1. thr[u].op # "flush"  BY <1>1, <3>3, NoFlush
      <4>2. k <= sent /\ k \notin gone /\ ~Cached(k) /\ k # m /\ k # 0
        BY <3>1, <3>3 DEF Carries
      <4>3. k \notin gone' /\ ~Cached(k)'  BY <1>11, <1>15, <4>2
      <4>4. OnWire(k)' => thr[u].pc = "body"  BY <1>14, <3>1, <3>3 DEF Carries
      <4>5. \A v \in Threads : thr'[v].msg = k => v = u
        BY <1>4, <3>1, <3>3, <4>2 DEF Carries
      <4>6. \A i \in 1..l : offered[i] # k  BY <3>1, <3>3, <4>1 DEF Carries
      <4>7. \A i \in 1..(l + 1) : offered'[i] # k
        <5> SUFFICES ASSUME NEW i \in 1..(l + 1) PROVE offered'[i] # k  OBVIOUS
        <5>1. i \in 1..l \/ i = l + 1  BY <1>5
        <5>2. QED  BY <1>9, <4>2, <4>6, <5>1
      <4>8. thr[u].pc \in WritePcs  BY <3>1, <3>3 DEF Carries
      <4>9. QED  BY <1>9, <3>1, <4>1, <4>2, <4>3, <4>4, <4>5, <4>7, <4>8 DEF Carries
    <3>4. QED  BY <3>2, <3>3
  <2>3. QED  BY <2>1, <2>2
<1>17. QueueInv'
  <2>1. (Len(cache) <= Len(offered))'  BY <1>5, <1>6, <1>9
  <2>2. ASSUME NEW i \in 1..(n + 1 - x)
        PROVE  cache'[i] = offered'[(l + 1) - (n + 1 - x) + i]
    <3>1. CASE i + x = n + 1
      <4>1. (l + 1) - (n + 1 - x) + i = l + 1  BY <1>5, <1>6, <3>1
      <4>2. QED  BY <1>6, <1>9, <3>1, <4>1
    <3>2. CASE i + x # n + 1
      <4>1. /\ (l + 1) - (n + 1 - x) + i = l - n + (i + x) /\ i + x \in 1..n
            /\ l - n + (i + x) \in 1..l
        <5>1. i \in Nat /\ i >= 1 /\ i <= n + 1 - x /\ x \in Nat  BY <1>5, <1>7
        <5>2. i + x >= 1 /\ i + x <= n /\ i + x \in Nat  BY <1>5, <3>2, <5>1
        <5>3. (l + 1) - (n + 1 - x) + i = l - n + (i + x)  BY <1>5, <5>1
        <5>4. l - n + (i + x) \in 1..l /\ i + x \in 1..n  BY <1>5, <5>2
        <5>5. QED  BY <5>3, <5>4
      <4>2. cache[i + x] = offered[l - n + (i + x)]  BY <1>1, <4>1 DEF QueueInv
      <4>3. QED  BY <1>6, <1>9, <3>2, <4>1, <4>2
    <3>3. QED  BY <3>1, <3>2
  <2>3. ASSUME NEW i \in 1..(l + 1), NEW j \in 1..(l + 1), offered'[i] = offered'[j]
        PROVE  i = j
    <3>1. (i \in 1..l \/ i = l + 1) /\ (j \in 1..l \/ j = l + 1)  BY <1>5
    <3>2. QED  BY <1>1, <1>3, <1>9, <2>3, <3>1 DEF QueueInv
  <2>4. ASSUME NEW i \in 1..(l + 1) PROVE offered'[i] <= sent
    <3>1. i \in 1..l \/ i = l + 1  BY <1>5
    <3>2. m <= sent  BY <1>2 DEF TypeOK
    <3>3. QED  BY <1>1, <1>9, <3>1, <3>2 DEF QueueInv
  <2>5. ASSUME NEW i \in 1..(n + 1 - x)
        PROVE  cache'[i] \notin gone' /\ ~OnWire(cache'[i])
    <3> PICK k : k = cache'[i]  OBVIOUS
    <3>1. Cached(k)'  BY <1>6 DEF Cached
    <3>2. CASE k = m
      <4>1. k \notin gone'  BY <1>2, <1>15, <3>2
      <4>2. QED  BY <1>2, <3>2, <4>1
    <3>3. CASE k # m
      <4>1. Cached(k) /\ k \notin {cache[j] : j \in 1..x}  BY <1>11, <3>1, <3>3
      <4>2. k \notin gone /\ ~OnWire(k)  BY <1>1, <4>1 DEF QueueInv, Cached
      <4>3. QED  BY <1>8, <4>1, <4>2
    <3>4. QED  BY <3>2, <3>3
  <2>6. \A i \in 1..(n + 1 - x) : ~OnWire(cache[i])'
    <3> SUFFICES ASSUME NEW i \in 1..(n + 1 - x) PROVE ~OnWire(cache[i])'  OBVIOUS
    <3> PICK k : k = cache'[i]  OBVIOUS
    <3>1. ~OnWire(k)'  BY <1>14, <2>5
    <3>2. QED  BY <3>1
  <2>7. Len(cache') = n + 1 - x /\ Len(offered') = l + 1  BY <1>9, <1>7
  <2>8. (\A i \in 1..Len(cache) : cache[i] = offered[Len(offered) - Len(cache) + i])'
    <3> SUFFICES ASSUME NEW i \in 1..(n + 1 - x)
                 PROVE  cache'[i] = offered'[Len(offered') - Len(cache') + i]
      BY <2>7
    <3>1. cache'[i] = offered'[(l + 1) - (n + 1 - x) + i]  BY <2>2
    <3>2. QED  BY <2>7, <3>1
  <2>9. (\A i, j \in 1..Len(offered) : offered[i] = offered[j] => i = j)'
    BY <2>3, <2>7
  <2>10. (\A i \in 1..Len(offered) : offered[i] <= sent)'  BY <2>4, <2>7
  <2>11. (\A i \in 1..Len(cache) : cache[i] \notin gone /\ ~OnWire(cache[i]))'
    BY <2>5, <2>6, <2>7
  <2>12. QED  BY <2>1, <2>8, <2>9, <2>10, <2>11 DEF QueueInv
<1>18. WireInv'
  <2>1. Sorted'
    <3> SUFFICES ASSUME NEW i \in 1..Len(offered'), NEW j \in 1..Len(offered'), i < j,
                        NEW c \in Consoles, NEW d \in Consoles
                 PROVE  InOrder(i, j, c, d)'
      BY DEF Sorted
    <3> SUFFICES ASSUME NEW a \in 1..Len(wire'[c]), NEW b \in 1..Len(wire'[d]),
                        Began(wire'[c], a, offered'[i]), Began(wire'[d], b, offered'[j])
                 PROVE  c < d \/ (c = d /\ a < b)
      BY DEF InOrder
    <3>1. /\ i \in 1..(l + 1) /\ j \in 1..(l + 1)
          /\ a \in 1..Len(wire[c]) /\ b \in 1..Len(wire[d])
          /\ Began(wire[c], a, offered'[i]) /\ Began(wire[d], b, offered'[j])
      BY <1>9
    <3> PICK k : k = offered'[j]  OBVIOUS
    <3>2. IsOn(d, k)
      <4>1. wire[d][b] = [msg |-> k, piece |-> "head"]  BY <3>1 DEF Began
      <4>2. wire[d][b].msg = k  BY <4>1
      <4>3. QED  BY <3>1, <4>2 DEF IsOn
    <3>3. offered'[j] # m  BY <1>2, <3>2 DEF OnWire
    <3>4. i \in 1..l /\ j \in 1..l
      <4>1. j # l + 1  BY <1>9, <3>3
      <4>2. j \in 1..l  BY <1>5, <3>1, <4>1
      <4>3. QED  BY <1>5, <3>1, <4>2
    <3>5. offered'[i] = offered[i] /\ offered'[j] = offered[j]  BY <1>9, <3>4
    <3>6. QED  BY <1>1, <3>4, <3>5, <3>1 DEF WireInv, Sorted, InOrder
  <2>2. wire' = wire /\ sent' = sent  OBVIOUS
  <2>3. QED  BY <1>1, <2>1, <2>2 DEF WireInv, Began
<1>19. WholeInv'
  <2>1. ASSUME NEW k \in 1..sent, InFlight(k), k # m PROVE InFlight(k)'
    <3>1. PICK u \in Threads : thr[u].msg = k  BY <2>1 DEF InFlight
    <3>2. u # t /\ thr'[u] = thr[u]  BY <1>4, <2>1, <3>1
    <3>3. QED  BY <3>1, <3>2 DEF InFlight
  <2>2. gone' \subseteq 1..sent
    <3>1. {cache[i] : i \in 1..x} \subseteq 1..sent  BY <1>1, <1>10, CacheOld
    <3>2. QED  BY <1>1, <1>8, <3>1 DEF WholeInv
  <2>3. gone \subseteq gone'  OBVIOUS
  <2>4. ASSUME NEW k \in 1..sent
        PROVE  /\ (InFlight(k) \/ Cached(k) \/ OnWire(k) \/ k \in gone)'
               /\ (OnWire(k) => InFlight(k) \/ k \in gone \/ Ended(k))'
    <3>1. CASE k = m  BY <1>2, <1>12, <1>14, <3>1
    <3>2. CASE k # m
      <4>1. InFlight(k) \/ Cached(k) \/ OnWire(k) \/ k \in gone  BY <1>1 DEF WholeInv
      <4>2. OnWire(k) => InFlight(k) \/ k \in gone \/ Ended(k)  BY <1>1 DEF WholeInv
      <4>3. QED  BY <1>13, <1>14, <2>1, <2>3, <3>2, <4>1, <4>2
    <3>3. QED  BY <3>1, <3>2
  <2>5. QED  BY <2>2, <2>4 DEF WholeInv
<1>20. QED  BY <1>16, <1>17, <1>18, <1>19 DEF AccountInv

\* run takes a message from the front of the queue.
LEMMA PollStep ==
    ASSUME TypeOK, AccountInv, Others("run"), thr["run"].pc = "poll", cache # <<>>,
           cache' = Tail(cache), UNCHANGED <<wire, offered, sent, gone>>,
           thr'["run"].msg = Head(cache), thr'["run"].pc = "get", thr'["run"].op = "flush"
    PROVE  AccountInv'
<1> PICK n : n = Len(cache)  OBVIOUS
<1> PICK l : l = Len(offered)  OBVIOUS
<1> PICK m : m = cache[1]  OBVIOUS
<1>1. CarryInv /\ QueueInv /\ WireInv /\ WholeInv /\ "run" \in Threads
  BY DEF AccountInv, Threads
<1>2. n \in Nat /\ n >= 1 /\ l \in Nat /\ n <= l  BY <1>1 DEF TypeOK, QueueInv
<1>3. /\ Len(cache') = n - 1 /\ thr'["run"].msg = m
      /\ \A i \in 1..(n - 1) : cache'[i] = cache[i + 1]
  BY <1>2 DEF TypeOK
<1>4. 1 \in 1..n  BY <1>2
<1>5. m \in 1..sent /\ m # 0 /\ m <= sent /\ Cached(m) /\ m \notin gone /\ ~OnWire(m)
  <2>1. m \in 1..sent /\ Cached(m)  BY <1>1, <1>4, CacheOld
  <2>2. m \notin gone /\ ~OnWire(m)  BY <1>1, <1>4 DEF QueueInv
  <2>3. m # 0 /\ m <= sent  BY <2>1 DEF TypeOK
  <2>4. QED  BY <2>1, <2>2, <2>3
<1>6. \A u \in Threads : u # "run" => thr'[u] = thr[u]  BY DEF Others
<1>7. thr["run"].msg = 0  BY <1>1 DEF CarryInv, Carries, WritePcs
<1>8. ASSUME NEW k, Cached(k)' PROVE Cached(k) /\ k # m
  <2>1. PICK i \in 1..(n - 1) : cache'[i] = k  BY <1>3, <1>8 DEF Cached
  <2>2. i + 1 \in 1..n /\ i + 1 # 1 /\ cache[i + 1] = k  BY <1>2, <1>3, <2>1
  <2>3. cache[i + 1] # cache[1]  BY <1>1, <1>4, <2>2, CacheOnce
  <2>4. QED  BY <2>2, <2>3 DEF Cached
<1>9. ASSUME NEW k, Cached(k), k # m PROVE Cached(k)'
  <2>1. PICK i \in 1..n : cache[i] = k  BY <1>9 DEF Cached
  <2>2. i # 1  BY <1>9, <2>1
  <2>3. i - 1 \in 1..(n - 1) /\ (i - 1) + 1 = i  BY <1>2, <2>2
  <2>4. cache'[i - 1] = k  BY <1>3, <2>1, <2>3
  <2>5. QED  BY <1>3, <2>3, <2>4 DEF Cached
<1>10. \A k : (OnWire(k)' <=> OnWire(k)) /\ (Ended(k)' <=> Ended(k))
  BY DEF OnWire, IsOn, Ended
<1>11. m = offered[l - n + 1] /\ l - (n - 1) = l - n + 1
  BY <1>1, <1>2, <1>4 DEF QueueInv
<1>12. \A u \in Threads : thr[u].msg # m  BY <1>1, <1>5 DEF CarryInv, Carries
<1>13. CarryInv'
  <2> SUFFICES ASSUME NEW u \in Threads PROVE Carries(u)'  BY DEF CarryInv
  <2>1. CASE u = "run"
    <3>1. ~Cached(m)' /\ ~OnWire(m)' /\ m \notin gone'  BY <1>5, <1>8, <1>10
    <3>2. \A v \in Threads : thr'[v].msg = m => v = "run"  BY <1>6, <1>12
    <3>3. Len(cache') < Len(offered') /\ m = offered'[Len(offered') - Len(cache')]
      BY <1>2, <1>3, <1>11
    <3>4. QED  BY <1>3, <1>5, <2>1, <3>1, <3>2, <3>3 DEF Carries, WritePcs
  <2>2. CASE u # "run"
    <3>1. thr'[u] = thr[u] /\ Carries(u) /\ thr[u].msg # m
      BY <1>1, <1>6, <1>12, <2>2 DEF CarryInv
    <3>2. CASE thr[u].msg = 0  BY <3>1, <3>2 DEF Carries
    <3>3. CASE thr[u].msg # 0
      <4> PICK k : k = thr[u].msg  OBVIOUS
      <4>1. thr[u].op # "flush"  BY <2>2, <3>1, <3>3 DEF Carries
      <4>2. ~Cached(k)'  BY <1>8, <3>1, <3>3 DEF Carries
      <4>3. OnWire(k)' => thr[u].pc = "body"  BY <1>10, <3>1, <3>3 DEF Carries
      <4>4. \A v \in Threads : thr'[v].msg = k => v = u
        BY <1>3, <1>6, <3>1, <3>3 DEF Carries
      <4>5. /\ k <= sent /\ k \notin gone /\ thr[u].pc \in WritePcs
            /\ \A i \in 1..Len(offered) : offered[i] # k
        BY <3>1, <3>3, <4>1 DEF Carries
      <4>6. QED  BY <3>1, <3>3, <4>1, <4>2, <4>3, <4>4, <4>5 DEF Carries
    <3>4. QED  BY <3>2, <3>3
  <2>3. QED  BY <2>1, <2>2
<1>14. QueueInv'
  <2>1. Len(cache') <= Len(offered')  BY <1>2, <1>3
  <2>2. ASSUME NEW i \in 1..(n - 1) PROVE cache'[i] = offered[l - (n - 1) + i]
    <3>1. i + 1 \in 1..n /\ l - n + (i + 1) = l - (n - 1) + i  BY <1>2
    <3>2. cache[i + 1] = offered[l - n + (i + 1)]  BY <1>1, <3>1 DEF QueueInv
    <3>3. QED  BY <1>3, <3>1, <3>2
  <2>3. ASSUME NEW i \in 1..(n - 1) PROVE cache'[i] \notin gone /\ ~OnWire(cache'[i])
    <3>1. i + 1 \in 1..n  BY <1>2
    <3>2. cache[i + 1] \notin gone /\ ~OnWire(cache[i + 1])  BY <1>1, <3>1 DEF QueueInv
    <3>3. QED  BY <1>3, <3>2
  <2>4. \A i \in 1..(n - 1) : ~OnWire(cache[i])'
    <3> SUFFICES ASSUME NEW i \in 1..(n - 1) PROVE ~OnWire(cache[i])'  OBVIOUS
    <3> PICK k : k = cache'[i]  OBVIOUS
    <3>1. ~OnWire(k)'  BY <1>10, <2>3
    <3>2. QED  BY <3>1
  <2>5. (\A i \in 1..Len(cache) : cache[i] = offered[Len(offered) - Len(cache) + i])'
    BY <1>3, <2>2
  <2>6. (\A i \in 1..Len(cache) : cache[i] \notin gone /\ ~OnWire(cache[i]))'
    BY <1>3, <2>3, <2>4
  <2>7. QED  BY <1>1, <2>1, <2>5, <2>6 DEF QueueInv
<1>15. WireInv'  BY <1>1, WireStays
<1>16. WholeInv'
  <2>1. InFlight(m)'  BY <1>1, <1>3 DEF InFlight
  <2>2. ASSUME NEW k \in 1..sent, InFlight(k) PROVE InFlight(k)'
    <3>1. PICK u \in Threads : thr[u].msg = k  BY <2>2 DEF InFlight
    <3>2. k # 0  BY DEF TypeOK
    <3>3. thr'[u] = thr[u]  BY <1>6, <1>7, <3>1, <3>2
    <3>4. QED  BY <3>1, <3>3 DEF InFlight
  <2>3. ASSUME NEW k \in 1..sent
        PROVE  /\ (InFlight(k) \/ Cached(k) \/ OnWire(k) \/ k \in gone)'
               /\ (OnWire(k) => InFlight(k) \/ k \in gone \/ Ended(k))'
    <3>1. CASE k = m  BY <2>1, <3>1
    <3>2. CASE k # m  BY <1>1, <1>9, <1>10, <2>2, <3>2 DEF WholeInv
    <3>3. QED  BY <3>1, <3>2
  <2>4. QED  BY <1>1, <2>3 DEF WholeInv
<1>17. QED  BY <1>13, <1>14, <1>15, <1>16 DEF AccountInv

\* The queue depends on the wires only by what is not on them.
LEMMA QueueStays ==
    ASSUME QueueInv, cache' = cache, offered' = offered, sent' = sent, gone' = gone,
           \A i \in 1..Len(cache) : cache'[i] = cache[i] /\ ~OnWire(cache[i])'
    PROVE  QueueInv'
BY DEF QueueInv

\* What a piece that is written adds.
LEMMA GrowFacts ==
    ASSUME TypeOK, NEW k \in Consoles,
           NEW e \in [msg : Messages, piece : {"head", "body"}],
           wire'[k] = Append(wire[k], e), \A b \in Consoles : b # k => wire'[b] = wire[b]
    PROVE  /\ Len(wire[k]) \in Nat /\ Len(wire[k]) + 1 \in 1..Len(wire'[k])
           /\ wire'[k][Len(wire[k]) + 1] = e
           /\ \A c \in Consoles : \A a \in 1..Len(wire[c]) :
                a \in 1..Len(wire'[c]) /\ wire'[c][a] = wire[c][a]
           /\ \A c \in Consoles : \A a \in 1..Len(wire'[c]) :
                \/ a \in 1..Len(wire[c])
                \/ c = k /\ a = Len(wire[k]) + 1
           /\ \A n : OnWire(n)' <=> (OnWire(n) \/ n = e.msg)
           /\ \A n : Ended(n) => Ended(n)'
<1> DEFINE S == [msg : Messages, piece : {"head", "body"}]
<1>1. wire[k] \in Seq(S) /\ e \in S  BY DEF TypeOK
<1> HIDE DEF S
<1>2. /\ Len(wire[k]) \in Nat /\ Len(wire'[k]) = Len(wire[k]) + 1
      /\ wire'[k][Len(wire[k]) + 1] = e
      /\ \A a \in 1..Len(wire[k]) : wire'[k][a] = wire[k][a]
  BY <1>1
<1>3. Len(wire[k]) + 1 \in 1..Len(wire'[k])  BY <1>2
<1>4. \A c \in Consoles : \A a \in 1..Len(wire[c]) :
         a \in 1..Len(wire'[c]) /\ wire'[c][a] = wire[c][a]
  <2> SUFFICES ASSUME NEW c \in Consoles, NEW a \in 1..Len(wire[c])
               PROVE  a \in 1..Len(wire'[c]) /\ wire'[c][a] = wire[c][a]
    OBVIOUS
  <2>1. CASE c = k  BY <1>2, <2>1
  <2>2. CASE c # k  BY <2>2
  <2>3. QED  BY <2>1, <2>2
<1>5. ASSUME NEW c \in Consoles, NEW a \in 1..Len(wire'[c])
      PROVE  a \in 1..Len(wire[c]) \/ (c = k /\ a = Len(wire[k]) + 1)
  <2>1. CASE c = k  BY <1>2, <2>1
  <2>2. CASE c # k  BY <2>2
  <2>3. QED  BY <2>1, <2>2
<1>6. ASSUME NEW n PROVE OnWire(n)' <=> (OnWire(n) \/ n = e.msg)
  <2>1. ASSUME OnWire(n)' PROVE OnWire(n) \/ n = e.msg
    <3> PICK c \in Consoles : IsOn(c, n)'  BY <2>1 DEF OnWire
    <3>1. PICK a \in 1..Len(wire'[c]) : wire'[c][a].msg = n  BY DEF IsOn
    <3>2. CASE a \in 1..Len(wire[c])
      <4>1. wire[c][a].msg = n  BY <1>4, <3>1, <3>2
      <4>2. QED  BY <3>2, <4>1 DEF OnWire, IsOn
    <3>3. CASE c = k /\ a = Len(wire[k]) + 1  BY <1>2, <3>1, <3>3
    <3>4. QED  BY <1>5, <3>2, <3>3
  <2>2. ASSUME OnWire(n) PROVE OnWire(n)'
    <3> PICK c \in Consoles : IsOn(c, n)  BY <2>2 DEF OnWire
    <3>1. PICK a \in 1..Len(wire[c]) : wire[c][a].msg = n  BY DEF IsOn
    <3>2. a \in 1..Len(wire'[c]) /\ wire'[c][a].msg = n  BY <1>4, <3>1
    <3>3. QED  BY <3>2 DEF OnWire, IsOn
  <2>3. ASSUME n = e.msg PROVE OnWire(n)'
    <3>1. wire'[k][Len(wire[k]) + 1].msg = n  BY <1>2, <2>3
    <3>2. QED  BY <1>3, <3>1 DEF OnWire, IsOn
  <2>4. QED  BY <2>1, <2>2, <2>3
<1>7. ASSUME NEW n, Ended(n) PROVE Ended(n)'
  <2> PICK c \in Consoles : \E a \in 1..Len(wire[c]) :
                              wire[c][a] = [msg |-> n, piece |-> "body"]
    BY <1>7 DEF Ended
  <2>1. PICK a \in 1..Len(wire[c]) : wire[c][a] = [msg |-> n, piece |-> "body"]
    OBVIOUS
  <2>2. a \in 1..Len(wire'[c]) /\ wire'[c][a] = [msg |-> n, piece |-> "body"]  BY <1>4, <2>1
  <2>3. QED  BY <2>2 DEF Ended
<1>8. QED  BY <1>2, <1>3, <1>4, <1>5, <1>6, <1>7

\* A body is written: the message is complete, and nothing begins.
LEMMA BodyStep ==
    ASSUME IInv, AccountInv, NEW t \in Threads, Others(t), thr[t].pc = "body",
           UNCHANGED <<cache, offered, sent, gone>>, NEW k \in Consoles, k = thr[t].con,
           wire'[k] = Append(wire[k], [msg |-> thr[t].msg, piece |-> "body"]),
           \A b \in Consoles : b # k => wire'[b] = wire[b],
           thr'[t].msg = 0, thr'[t].pc \notin WritePcs
    PROVE  AccountInv'
<1> PICK m : m = thr[t].msg  OBVIOUS
<1> DEFINE e == [msg |-> m, piece |-> "body"]
<1>1. CarryInv /\ QueueInv /\ WireInv /\ WholeInv /\ TypeOK  BY DEF AccountInv, IInv
<1>2. /\ m \in 1..sent /\ m # 0 /\ m \in Messages /\ ~Cached(m)
      /\ \A u \in Threads : u # t => thr[u].msg # m
  BY <1>1, CarryFacts DEF WritePcs
<1>3. /\ e \in [msg : Messages, piece : {"head", "body"}] /\ e.msg = m /\ e.piece = "body"
  BY <1>2
<1>4. wire'[k] = Append(wire[k], e)  OBVIOUS
<1>5. OnWire(m)
  <2>0. wire[k] # <<>> /\ wire[k][Len(wire[k])] = [msg |-> m, piece |-> "head"]
    BY DEF IInv, FrameInv
  <2>1. wire[k] # <<>> /\ wire[k][Len(wire[k])].msg = m  BY <2>0
  <2>2. wire[k] \in Pieces  BY <1>1 DEF TypeOK, Pieces
  <2>3. Len(wire[k]) \in 1..Len(wire[k])
    <3>1. Len(wire[k]) \in Nat /\ Len(wire[k]) # 0  BY <2>1, <2>2 DEF Pieces
    <3>2. QED  BY <3>1
  <2>4. QED  BY <2>1, <2>3 DEF OnWire, IsOn
<1> HIDE DEF e
<1>6. /\ Len(wire[k]) + 1 \in 1..Len(wire'[k]) /\ wire'[k][Len(wire[k]) + 1] = e
      /\ \A c \in Consoles : \A a \in 1..Len(wire[c]) :
           a \in 1..Len(wire'[c]) /\ wire'[c][a] = wire[c][a]
      /\ \A c \in Consoles : \A a \in 1..Len(wire'[c]) :
           \/ a \in 1..Len(wire[c])
           \/ c = k /\ a = Len(wire[k]) + 1
      /\ \A n : OnWire(n)' <=> (OnWire(n) \/ n = e.msg)
      /\ \A n : Ended(n) => Ended(n)'
  BY <1>1, <1>3, <1>4, GrowFacts
<1>7. \A n : (OnWire(n)' <=> OnWire(n)) /\ (Cached(n)' <=> Cached(n))
  BY <1>3, <1>5, <1>6 DEF Cached
<1>8. Ended(m)'  BY <1>6 DEF Ended, e
<1>9. \A u \in Threads : u # t => thr'[u] = thr[u]  BY DEF Others
<1>10. CarryInv'
  <2> SUFFICES ASSUME NEW u \in Threads PROVE Carries(u)'  BY DEF CarryInv
  <2>1. CASE u = t  BY <2>1 DEF Carries
  <2>2. CASE u # t
    <3>1. thr'[u] = thr[u] /\ Carries(u)  BY <1>1, <1>9, <2>2 DEF CarryInv
    <3>2. ASSUME thr[u].msg # 0, NEW v \in Threads, thr'[v].msg = thr[u].msg PROVE v = u
      BY <1>9, <3>1, <3>2 DEF Carries
    <3>3. QED  BY <1>7, <3>1, <3>2 DEF Carries
  <2>3. QED  BY <2>1, <2>2
<1>11. QueueInv'
  <2>1. \A i \in 1..Len(cache) : cache'[i] = cache[i] /\ ~OnWire(cache[i])'
    <3> SUFFICES ASSUME NEW i \in 1..Len(cache) PROVE ~OnWire(cache[i])'  OBVIOUS
    <3> PICK n : n = cache[i]  OBVIOUS
    <3>1. ~OnWire(n)  BY <1>1 DEF QueueInv
    <3>2. ~OnWire(n)'  BY <1>7, <3>1
    <3>3. QED  BY <3>2
  <2>2. cache' = cache /\ offered' = offered /\ sent' = sent /\ gone' = gone  OBVIOUS
  <2>3. QED  BY <1>1, <2>1, <2>2, QueueStays
<1>12. ASSUME NEW c \in Consoles, NEW a \in 1..Len(wire'[c]), NEW n, Began(wire'[c], a, n)
       PROVE  a \in 1..Len(wire[c]) /\ Began(wire[c], a, n)
  <2>1. wire'[c][a] # e
    <3>1. wire'[c][a].piece = "head"  BY <1>12 DEF Began
    <3>2. QED  BY <1>3, <3>1
  <2>2. a \in 1..Len(wire[c]) /\ wire'[c][a] = wire[c][a]  BY <1>6, <2>1
  <2>3. QED  BY <1>12, <2>2 DEF Began
<1>13. WireInv'
  <2>1. ASSUME NEW c \in Consoles, NEW a \in 1..Len(wire'[c]) PROVE wire'[c][a].msg <= sent
    <3>1. m <= sent  BY <1>1, <1>2 DEF TypeOK
    <3>2. CASE a \in 1..Len(wire[c])
      <4>1. wire'[c][a] = wire[c][a] /\ wire[c][a].msg <= sent  BY <1>1, <1>6, <3>2 DEF WireInv
      <4>2. QED  BY <4>1
    <3>3. CASE c = k /\ a = Len(wire[k]) + 1
      <4>1. wire'[c][a] = e  BY <1>6, <3>3
      <4>2. QED  BY <1>3, <3>1, <4>1
    <3>4. QED  BY <1>6, <3>2, <3>3
  <2>2. ASSUME NEW c \in Consoles, NEW d \in Consoles,
               NEW a \in 1..Len(wire'[c]), NEW b \in 1..Len(wire'[d]),
               NEW n \in 1..sent, Began(wire'[c], a, n), Began(wire'[d], b, n)
        PROVE  c = d /\ a = b
    <3>1. /\ a \in 1..Len(wire[c]) /\ Began(wire[c], a, n)
          /\ b \in 1..Len(wire[d]) /\ Began(wire[d], b, n)
      BY <1>12, <2>2
    <3>2. QED  BY <1>1, <3>1 DEF WireInv
  <2>3. Sorted'
    <3> SUFFICES ASSUME NEW i \in 1..Len(offered'), NEW j \in 1..Len(offered'), i < j,
                        NEW c \in Consoles, NEW d \in Consoles
                 PROVE  InOrder(i, j, c, d)'
      BY DEF Sorted
    <3> SUFFICES ASSUME NEW a \in 1..Len(wire'[c]), NEW b \in 1..Len(wire'[d]),
                        Began(wire'[c], a, offered'[i]), Began(wire'[d], b, offered'[j])
                 PROVE  c < d \/ (c = d /\ a < b)
      BY DEF InOrder
    <3>1. /\ a \in 1..Len(wire[c]) /\ Began(wire[c], a, offered[i])
          /\ b \in 1..Len(wire[d]) /\ Began(wire[d], b, offered[j])
      BY <1>12
    <3>2. QED  BY <1>1, <3>1 DEF WireInv, Sorted, InOrder
  <2>4. QED  BY <2>1, <2>2, <2>3 DEF WireInv
<1>14. WholeInv'
  <2>1. ASSUME NEW n \in 1..sent, InFlight(n), n # m PROVE InFlight(n)'
    <3>1. PICK u \in Threads : thr[u].msg = n  BY <2>1 DEF InFlight
    <3>2. u # t /\ thr'[u] = thr[u]  BY <1>9, <2>1, <3>1
    <3>3. QED  BY <3>1, <3>2 DEF InFlight
  <2>2. ASSUME NEW n \in 1..sent
        PROVE  /\ (InFlight(n) \/ Cached(n) \/ OnWire(n) \/ n \in gone)'
               /\ (OnWire(n) => InFlight(n) \/ n \in gone \/ Ended(n))'
    <3>1. CASE n = m  BY <1>5, <1>7, <1>8, <3>1
    <3>2. CASE n # m
      <4>1. InFlight(n) \/ Cached(n) \/ OnWire(n) \/ n \in gone  BY <1>1 DEF WholeInv
      <4>2. OnWire(n) => InFlight(n) \/ n \in gone \/ Ended(n)  BY <1>1 DEF WholeInv
      <4>3. QED  BY <1>6, <1>7, <2>1, <3>2, <4>1, <4>2
    <3>3. QED  BY <3>1, <3>2
  <2>3. QED  BY <1>1, <2>2 DEF WholeInv
<1>15. QED  BY <1>10, <1>11, <1>13, <1>14 DEF AccountInv

\* A head is written to the last console that was accepted.
LEMMA HeadStep ==
    ASSUME IInv, AccountInv, NEW t \in Threads, Keeps(t), thr[t].pc = "head",
           thr'[t].pc = "body",
           UNCHANGED <<cache, offered, sent, gone>>, NEW k \in Consoles,
           wire'[k] = Append(wire[k], [msg |-> thr[t].msg, piece |-> "head"]),
           \A b \in Consoles : b # k => wire'[b] = wire[b],
           \A b \in Consoles : b > k => wire[b] = <<>>
    PROVE  AccountInv'
<1> PICK m : m = thr[t].msg  OBVIOUS
<1> PICK n : n = Len(cache)  OBVIOUS
<1> PICK l : l = Len(offered)  OBVIOUS
<1> PICK p : p = Len(wire[k]) + 1  OBVIOUS
<1> DEFINE e == [msg |-> m, piece |-> "head"]
<1>1. CarryInv /\ QueueInv /\ WireInv /\ WholeInv /\ TypeOK  BY DEF AccountInv, IInv
<1>2. /\ m \in 1..sent /\ m # 0 /\ m \in Messages /\ ~Cached(m) /\ ~OnWire(m)
      /\ \A u \in Threads : u # t => thr[u].msg # m
  BY <1>1, CarryFacts DEF WritePcs
<1>3. e \in [msg : Messages, piece : {"head", "body"}] /\ e.msg = m  BY <1>2
<1>4. wire'[k] = Append(wire[k], e)  OBVIOUS
<1> HIDE DEF e
<1>5. /\ p \in 1..Len(wire'[k]) /\ wire'[k][p] = e /\ p \in Nat
      /\ \A c \in Consoles : \A a \in 1..Len(wire[c]) :
           a \in 1..Len(wire'[c]) /\ wire'[c][a] = wire[c][a]
      /\ \A c \in Consoles : \A a \in 1..Len(wire'[c]) :
           \/ a \in 1..Len(wire[c])
           \/ c = k /\ a = p
      /\ \A j : OnWire(j)' <=> (OnWire(j) \/ j = e.msg)
      /\ \A j : Ended(j) => Ended(j)'
  BY <1>1, <1>3, <1>4, GrowFacts
<1>6. \A j : (OnWire(j)' <=> OnWire(j) \/ j = m) /\ (Cached(j)' <=> Cached(j))
  BY <1>3, <1>5 DEF Cached
<1>7. \A u \in Threads : thr'[u].msg = thr[u].msg  BY DEF Keeps, Others
<1>8. \A j : InFlight(j)' <=> InFlight(j)  BY <1>7 DEF InFlight
<1>9. CarryInv'
  <2> SUFFICES ASSUME NEW u \in Threads PROVE Carries(u)'  BY DEF CarryInv
  <2>1. Carries(u)  BY <1>1 DEF CarryInv
  <2>2. CASE u = t
    <3>1. \A v \in Threads : thr'[v].msg = m => v = t  BY <1>2, <1>7
    <3>2. thr'[t].msg = m /\ thr'[t].op = thr[t].op  BY <1>2 DEF Keeps
    <3>3. QED  BY <1>2, <1>6, <2>1, <2>2, <3>1, <3>2 DEF Carries, WritePcs
  <2>3. CASE u # t
    <3>1. thr'[u] = thr[u] /\ thr[u].msg # m  BY <1>2, <2>3 DEF Keeps, Others
    <3>2. QED  BY <1>6, <1>7, <2>1, <3>1 DEF Carries
  <2>4. QED  BY <2>2, <2>3
<1>10. QueueInv'
  <2>1. \A i \in 1..Len(cache) : ~OnWire(cache[i])'
    <3> SUFFICES ASSUME NEW i \in 1..Len(cache) PROVE ~OnWire(cache[i])'  OBVIOUS
    <3> PICK j : j = cache[i]  OBVIOUS
    <3>1. ~OnWire(j) /\ j # m  BY <1>1, <1>2 DEF QueueInv, Cached
    <3>2. ~OnWire(j)'  BY <1>6, <3>1
    <3>3. QED  BY <3>2
  <2>2. QED  BY <1>1, <2>1 DEF QueueInv
<1>11. ASSUME NEW c \in Consoles, NEW a \in 1..Len(wire'[c]), NEW j, Began(wire'[c], a, j)
       PROVE  \/ a \in 1..Len(wire[c]) /\ Began(wire[c], a, j) /\ j # m
              \/ c = k /\ a = p /\ j = m
  <2>1. wire'[c][a].msg = j  BY <1>11 DEF Began
  <2>2. CASE a \in 1..Len(wire[c])
    <3>1. wire'[c][a] = wire[c][a]  BY <1>5, <2>2
    <3>2. Began(wire[c], a, j)  BY <1>11, <3>1 DEF Began
    <3>3. OnWire(j)  BY <2>1, <2>2, <3>1 DEF OnWire, IsOn
    <3>4. QED  BY <1>2, <2>2, <3>2, <3>3
  <2>3. CASE c = k /\ a = p  BY <1>3, <1>5, <2>1, <2>3
  <2>4. QED  BY <1>5, <2>2, <2>3
<1>12. WireInv'
  <2>1. ASSUME NEW c \in Consoles, NEW a \in 1..Len(wire'[c]) PROVE wire'[c][a].msg <= sent
    <3>1. m <= sent  BY <1>1, <1>2 DEF TypeOK
    <3>2. CASE a \in 1..Len(wire[c])
      <4>1. wire'[c][a] = wire[c][a] /\ wire[c][a].msg <= sent  BY <1>1, <1>5, <3>2 DEF WireInv
      <4>2. QED  BY <4>1
    <3>3. CASE c = k /\ a = p
      <4>1. wire'[c][a] = e  BY <1>5, <3>3
      <4>2. QED  BY <1>3, <3>1, <4>1
    <3>4. QED  BY <1>5, <3>2, <3>3
  <2>2. ASSUME NEW c \in Consoles, NEW d \in Consoles,
               NEW a \in 1..Len(wire'[c]), NEW b \in 1..Len(wire'[d]),
               NEW j \in 1..sent, Began(wire'[c], a, j), Began(wire'[d], b, j)
        PROVE  c = d /\ a = b
    <3>1. CASE j = m
      <4>1. c = k /\ a = p  BY <1>11, <2>2, <3>1
      <4>2. d = k /\ b = p  BY <1>11, <2>2, <3>1
      <4>3. QED  BY <4>1, <4>2
    <3>2. CASE j # m
      <4>1. a \in 1..Len(wire[c]) /\ Began(wire[c], a, j)  BY <1>11, <2>2, <3>2
      <4>2. b \in 1..Len(wire[d]) /\ Began(wire[d], b, j)  BY <1>11, <2>2, <3>2
      <4>3. QED  BY <1>1, <4>1, <4>2 DEF WireInv
    <3>3. QED  BY <3>1, <3>2
  <2>3. Sorted'
    <3> SUFFICES ASSUME NEW i \in 1..Len(offered'), NEW j \in 1..Len(offered'), i < j,
                        NEW c \in Consoles, NEW d \in Consoles
                 PROVE  InOrder(i, j, c, d)'
      BY DEF Sorted
    <3> SUFFICES ASSUME NEW a \in 1..Len(wire'[c]), NEW b \in 1..Len(wire'[d]),
                        Began(wire'[c], a, offered'[i]), Began(wire'[d], b, offered'[j])
                 PROVE  c < d \/ (c = d /\ a < b)
      BY DEF InOrder
    <3>1. /\ i \in 1..l /\ j \in 1..l /\ offered' = offered
          /\ Began(wire'[c], a, offered[i]) /\ Began(wire'[d], b, offered[j])
      OBVIOUS
    <3>2. offered[i] # offered[j]  BY <1>1, <3>1 DEF QueueInv
    <3>3. l \in Nat /\ n \in Nat /\ n <= l  BY <1>1 DEF QueueInv, TypeOK
    <3>4. CASE offered[i] # m /\ offered[j] # m
      <4> PICK f : f = offered[i]  OBVIOUS
      <4> PICK g : g = offered[j]  OBVIOUS
      <4>1. Began(wire'[c], a, f) /\ f # m  BY <3>1, <3>4
      <4>2. Began(wire'[d], b, g) /\ g # m  BY <3>1, <3>4
      <4>3. a \in 1..Len(wire[c]) /\ Began(wire[c], a, f)  BY <1>11, <4>1
      <4>4. b \in 1..Len(wire[d]) /\ Began(wire[d], b, g)  BY <1>11, <4>2
      <4>5. InOrder(i, j, c, d)  BY <1>1, <3>1 DEF WireInv, Sorted
      <4>6. QED  BY <4>3, <4>4, <4>5 DEF InOrder
    <3>5. ASSUME offered[i] = m \/ offered[j] = m
          PROVE  n < l /\ m = offered[l - n] /\ l - n \in 1..l
      <4>1. thr[t].op = "flush"  BY <1>1, <1>2, <3>1, <3>5 DEF CarryInv, Carries
      <4>2. n < l /\ m = offered[l - n]  BY <1>1, <1>2, <4>1 DEF CarryInv, Carries
      <4>3. QED  BY <3>3, <4>2
    <3>6. CASE offered[i] = m
      <4>1. i = l - n  BY <1>1, <3>1, <3>5, <3>6 DEF QueueInv
      <4>2. j - (l - n) \in 1..n /\ l - n + (j - (l - n)) = j  BY <3>1, <3>3, <4>1
      <4>3. cache[j - (l - n)] = offered[l - n + (j - (l - n))]  BY <1>1, <4>2 DEF QueueInv
      <4>4. ~OnWire(offered[j])  BY <1>1, <4>2, <4>3 DEF QueueInv
      <4>5. b \in 1..Len(wire[d]) /\ Began(wire[d], b, offered[j])
        BY <1>11, <3>1, <3>2, <3>6
      <4>6. wire[d][b].msg = offered[j]  BY <4>5 DEF Began
      <4>7. QED  BY <4>4, <4>5, <4>6 DEF OnWire, IsOn
    <3>7. CASE offered[j] = m
      <4>1. d = k /\ b = p  BY <1>2, <1>11, <3>1, <3>7
      <4>2. a \in 1..Len(wire[c])  BY <1>11, <3>1, <3>2, <3>7
      <4>3. wire[c] # <<>>
        <5> SUFFICES ASSUME wire[c] = <<>> PROVE FALSE  OBVIOUS
        <5>1. Len(wire[c]) = 0  OBVIOUS
        <5>2. QED  BY <4>2, <5>1
      <4>4. ~(c > k) /\ c \in Int /\ k \in Int  BY <4>3 DEF Consoles
      <4>5. c = k => a < p
        <5>1. Len(wire[k]) \in Nat  BY <1>1 DEF TypeOK
        <5>2. QED  BY <4>2, <5>1
      <4>6. QED  BY <4>1, <4>4, <4>5
    <3>8. QED  BY <3>4, <3>6, <3>7
  <2>4. QED  BY <2>1, <2>2, <2>3 DEF WireInv
<1>13. WholeInv'
  <2>1. InFlight(m)  BY DEF InFlight
  <2>2. QED  BY <1>1, <1>5, <1>6, <1>8, <2>1 DEF WholeInv
<1>14. QED  BY <1>9, <1>10, <1>12, <1>13 DEF AccountInv

-----------------------------------------------------------------------------
(* The actions and the messages *)

\* Only accept takes a console into use, and only accept puts one into the field.
LEMMA UseStep ==
    ASSUME UseInv, \A c \in Consoles : conn'[c].server = "none" <=> conn[c].server = "none",
           console' = 0 \/ console' = console
    PROVE  UseInv'
BY DEF UseInv

\* A thread outside of writeToConsole moves, without a message.
LEMMA GotoKeeps ==
    ASSUME TypeOK, CarryInv, NEW t \in Threads, NEW pc \in Pcs \ WritePcs, Goto(t, pc),
           thr[t].pc \notin WritePcs
    PROVE  Keeps(t)
<1>1. Others(t) /\ thr'[t].pc = pc /\ thr'[t].msg = thr[t].msg  BY GotoFacts
<1>2. thr[t].msg = 0  BY DEF CarryInv, Carries
<1>3. QED  BY <1>1, <1>2 DEF Keeps

LEMMA ReturnKeeps ==
    ASSUME TypeOK, CarryInv, NEW t \in Threads, NEW pc \in Pcs \ WritePcs, Returned(t, pc),
           thr[t].pc \notin WritePcs
    PROVE  Keeps(t)
<1>1. Others(t) /\ thr'[t].pc = pc /\ thr'[t].msg = 0  BY ReturnedFacts
<1>2. thr[t].msg = 0  BY DEF CarryInv, Carries
<1>3. QED  BY <1>1, <1>2 DEF Keeps

\* Where a caller continues, it has no message.
LEMMA Outside ==
    ASSUME TypeOK, NEW t \in Threads
    PROVE  /\ thr[t].ret \in Pcs \ WritePcs
           /\ {"idle", "close_check", "on_closed", "close", "forget", "accept", "open", "greet",
               "on_connected", "hello", "loop", "flush", "poll", "read", "caught", "recover",
               "announce", "dead"} \subseteq Pcs \ WritePcs
BY DEF TypeOK, ThreadState, Pcs, WritePcs

LEMMA CloseDoneKeeps ==
    ASSUME TypeOK, CarryInv, NEW t \in Threads, CloseDone(t), thr[t].pc \notin WritePcs
    PROVE  Keeps(t)
<1>1. "announce" \in Pcs \ WritePcs /\ thr[t].ret \in Pcs \ WritePcs  BY Outside
<1>2. CASE Goto(t, "announce")  BY <1>1, <1>2, GotoKeeps
<1>3. CASE Returned(t, thr[t].ret)  BY <1>1, <1>3, ReturnKeeps
<1>4. QED  BY <1>2, <1>3 DEF CloseDone

\* A call that gets the next number.
LEMMA CallsBooks ==
    ASSUME TypeOK, AccountInv, NEW t \in Threads, NEW file \in BOOLEAN,
           NEW ret \in {"idle", "on_connected", "loop", "close_check"}, Calls(t, file, ret),
           thr[t].pc \notin WritePcs, UNCHANGED <<wire, cache, offered, gone>>
    PROVE  AccountInv'
<1>1. Others(t) /\ thr'[t].pc = "enter" /\ thr'[t].op = "write"  BY CallsFacts
<1>2. sent' = sent + 1 /\ thr'[t].msg = sent + 1  BY DEF Calls, TypeOK
<1>3. QED  BY <1>1, <1>2, CallStep

LEMMA WriteToConsoleBooks ==
    ASSUME IInv, UseInv, AccountInv, NEW t \in Writers, NEW file \in BOOLEAN,
           writeToConsole(t, file)
    PROVE  UseInv' /\ AccountInv'
<1>1. t \in Threads /\ thr[t].pc \notin WritePcs /\ Calls(t, file, "idle") /\ TypeOK
  BY DEF Threads, writeToConsole, WritePcs, IInv
<1>2. UNCHANGED <<console, conn, wire, cache, offered, gone>>  BY DEF writeToConsole
<1>3. AccountInv'  BY <1>1, <1>2, CallsBooks
<1>4. UseInv'  BY <1>2, UseStep
<1>5. QED  BY <1>3, <1>4

LEMMA EnterBooks ==
    ASSUME IInv, UseInv, AccountInv, NEW t \in Threads, Enter(t)
    PROVE  UseInv' /\ AccountInv'
<1>1. thr[t].pc = "enter" /\ Goto(t, "check") /\ "check" \in Pcs /\ TypeOK /\ Carries(t)
  BY DEF Enter, Pcs, IInv, AccountInv, CarryInv
<1>2. /\ Others(t) /\ thr'[t].pc = "check" /\ thr'[t].msg = thr[t].msg
      /\ thr'[t].op = thr[t].op
  BY <1>1, GotoFacts
<1>3. thr[t].msg # 0 /\ thr[t].op # "flush"  BY <1>1 DEF Carries, WritePcs
<1>4. Keeps(t)  BY <1>1, <1>2, <1>3 DEF Keeps, WritePcs
<1>5. UNCHANGED <<console, conn, wire, cache, offered, sent, gone>>  BY DEF Enter
<1>6. QED  BY <1>4, <1>5, StillStep, UseStep

LEMMA CheckConsoleBooks ==
    ASSUME IInv, UseInv, AccountInv, NEW t \in Threads, CheckConsole(t)
    PROVE  UseInv' /\ AccountInv'
<1>1. thr[t].pc = "check" /\ TypeOK /\ LockInv /\ Carries(t) /\ CarryInv
  BY DEF CheckConsole, IInv, AccountInv, CarryInv
<1>2. UNCHANGED <<console, conn, wire, sent>>  BY DEF CheckConsole
<1>3. UseInv'  BY <1>2, UseStep
<1>4. thr[t].msg # 0 /\ thr[t].op # "flush"  BY <1>1 DEF Carries, WritePcs
<1>5. CASE Goto(t, "get") /\ UNCHANGED <<cache, offered, gone, lock>>
  <2>1. /\ Others(t) /\ thr'[t].pc = "get" /\ thr'[t].msg = thr[t].msg
        /\ thr'[t].op = thr[t].op
    <3>1. "get" \in Pcs  BY DEF Pcs
    <3>2. QED  BY <1>1, <1>5, <3>1, GotoFacts
  <2>2. Keeps(t)  BY <1>1, <1>4, <2>1 DEF Keeps, WritePcs
  <2>3. QED  BY <1>2, <1>3, <1>5, <2>2, StillStep
<1>6. CASE /\ Returned(t, thr[t].ret)
           /\ \/ gone' = gone \union {thr[t].msg} /\ UNCHANGED <<cache, offered>>
              \/ /\ cache' = Offer(cache, thr[t].msg)
                 /\ offered' = Append(offered, thr[t].msg)
                 /\ gone' = gone \union {cache[i] : i \in 1..(Len(cache) + 1 - Len(cache'))}
  <2>1. thr[t].ret \in Pcs \ WritePcs  BY <1>1, Outside
  <2>2. Others(t) /\ thr'[t].msg = 0 /\ thr'[t].pc \notin WritePcs
    BY <1>1, <1>6, <2>1, ReturnedFacts
  <2>3. CASE gone' = gone \union {thr[t].msg} /\ UNCHANGED <<cache, offered>>
    BY <1>1, <1>2, <1>3, <1>4, <2>2, <2>3, DropStep
  <2>4. CASE /\ cache' = Offer(cache, thr[t].msg)
             /\ offered' = Append(offered, thr[t].msg)
             /\ gone' = gone \union {cache[i] : i \in 1..(Len(cache) + 1 - Len(cache'))}
    BY <1>1, <1>2, <1>3, <2>2, <2>4, OfferStep
  <2>5. QED  BY <1>6, <2>3, <2>4
<1>7. QED  BY <1>5, <1>6 DEF CheckConsole

\* An exception that leaves the method.
LEMMA ThrowsBooks ==
    ASSUME IInv, AccountInv, NEW t \in Threads, thr[t].pc \in {"get", "body"}, Throws(t),
           UNCHANGED <<wire, cache, offered, sent>>
    PROVE  AccountInv'
<1>1. TypeOK /\ Carries(t) /\ thr[t].pc \in WritePcs
  BY DEF IInv, AccountInv, CarryInv, WritePcs
<1>2. thr[t].msg # 0  BY <1>1 DEF Carries
<1>3. PICK pc \in {"caught", "idle"} : Returned(t, pc)  BY DEF Throws
<1>4. pc \in Pcs \ WritePcs  BY <1>1, Outside
<1>5. Others(t) /\ thr'[t].msg = 0 /\ thr'[t].pc \notin WritePcs
  BY <1>1, <1>3, <1>4, ReturnedFacts
<1>6. gone' = gone \union {thr[t].msg}  BY DEF Throws
<1>7. QED  BY <1>1, <1>2, <1>5, <1>6, DropStep

LEMMA GetConsoleBooks ==
    ASSUME IInv, UseInv, AccountInv, NEW t \in Threads, GetConsole(t)
    PROVE  UseInv' /\ AccountInv'
<1>1. thr[t].pc = "get" /\ TypeOK /\ Carries(t)
  BY DEF GetConsole, IInv, AccountInv, CarryInv
<1>2. UNCHANGED <<console, conn, wire, cache, offered, sent>>  BY DEF GetConsole
<1>3. UseInv'  BY <1>2, UseStep
<1>4. thr[t].msg # 0  BY <1>1 DEF Carries, WritePcs
<1>5. CASE Throws(t)
  BY <1>1, <1>2, <1>3, <1>5, ThrowsBooks
<1>6. CASE Picks(t, console, "head") /\ UNCHANGED <<gone, lock>>
  <2>1. /\ Others(t) /\ thr'[t].pc = "head" /\ thr'[t].msg = thr[t].msg
        /\ thr'[t].op = thr[t].op
    <3>1. "head" \in Pcs /\ console \in 0..ConsoleBound  BY <1>1 DEF Pcs, TypeOK
    <3>2. QED  BY <1>1, <1>6, <3>1, PicksFacts
  <2>2. Keeps(t)  BY <1>1, <1>4, <2>1 DEF Keeps, WritePcs
  <2>3. QED  BY <1>2, <1>3, <1>6, <2>2, StillStep
<1>7. QED  BY <1>5, <1>6 DEF GetConsole

\* A write that fails.
LEMMA FailedBooks ==
    ASSUME IInv, UseInv, AccountInv, NEW t \in Threads, thr[t].pc \in {"head", "body"},
           Fails(t), Broken(thr[t].con), UNCHANGED <<console, wire, cache, offered, sent>>
    PROVE  UseInv' /\ AccountInv'
<1>1. TypeOK /\ Carries(t) /\ thr[t].pc \in WritePcs
  BY DEF IInv, AccountInv, CarryInv, WritePcs
<1>2. thr[t].msg # 0 /\ gone' = gone \union {thr[t].msg}  BY <1>1 DEF Carries, Fails
<1>3. Others(t) /\ thr'[t].msg = 0 /\ thr'[t].pc \notin WritePcs
  <2>1. CASE thr[t].op = "write"
    <3>1. thr' = [thr EXCEPT ![t] = [@ EXCEPT !.pc = "close_check", !.msg = 0,
                                                !.file = FALSE]]
      BY <2>1 DEF Fails
    <3>2. QED  BY <1>1, <3>1 DEF TypeOK, ThreadState, Others, WritePcs
  <2>2. CASE thr[t].op # "write"
    <3>1. Returned(t, "recover") /\ "recover" \in Pcs \ WritePcs
      BY <1>1, <2>2, Outside DEF Fails
    <3>2. QED  BY <1>1, <3>1, ReturnedFacts
  <2>3. QED  BY <2>1, <2>2
<1>4. AccountInv'  BY <1>1, <1>2, <1>3, DropStep
<1>5. \A c \in Consoles : conn'[c].server = conn[c].server
  BY <1>1 DEF Broken, TypeOK, Connection
<1>6. UseInv'  BY <1>5, UseStep
<1>7. QED  BY <1>4, <1>6

\* A console that can be written to is the one in the field, the last one in use.
LEMMA LastConsole ==
    ASSUME IInv, UseInv, NEW t \in Threads, thr[t].pc = "head", CanWrite(thr[t].con)
    PROVE  \A b \in Consoles : b > thr[t].con => wire[b] = <<>>
<1>1. /\ conn[thr[t].con].server = "open" /\ thr[t].con \in Consoles
      /\ console = thr[t].con
  BY DEF CanWrite, IInv, MsgInv, WriterOK
<1>2. console # 0  BY <1>1 DEF Consoles
<1>3. \A b \in Consoles : b > thr[t].con => conn[b].server = "none"  BY <1>1, <1>2 DEF UseInv
<1>4. QED  BY <1>3 DEF IInv, ConnInv

LEMMA WriteHeadBooks ==
    ASSUME IInv, UseInv, AccountInv, NEW t \in Threads, WriteHead(t)
    PROVE  UseInv' /\ AccountInv'
<1>1. /\ thr[t].pc = "head" /\ thr[t].pc \in {"head", "body"} /\ TypeOK /\ Carries(t)
      /\ UNCHANGED <<console, cache, offered, sent>>
  BY DEF WriteHead, IInv, AccountInv, CarryInv
<1>2. CASE Fails(t) /\ Broken(thr[t].con) /\ UNCHANGED wire
  BY <1>1, <1>2, FailedBooks
<1>3. CASE /\ CanWrite(thr[t].con) /\ Piece(t, "head") /\ Goto(t, "body")
           /\ UNCHANGED <<conn, gone, lock>>
  <2>1. UseInv'  BY <1>1, <1>3, UseStep
  <2>2. /\ thr[t].con \in Consoles
        /\ wire'[thr[t].con] = Append(wire[thr[t].con], [msg |-> thr[t].msg, piece |-> "head"])
        /\ \A b \in Consoles : b # thr[t].con => wire'[b] = wire[b]
    BY <1>1, <1>3, WrittenFacts
  <2>3. /\ Others(t) /\ thr'[t].pc = "body" /\ thr'[t].msg = thr[t].msg
        /\ thr'[t].op = thr[t].op
    <3>1. "body" \in Pcs  BY DEF Pcs
    <3>2. QED  BY <1>1, <1>3, <3>1, GotoFacts
  <2>4. thr[t].msg # 0  BY <1>1 DEF Carries, WritePcs
  <2>5. Keeps(t)  BY <1>1, <2>3, <2>4 DEF Keeps, WritePcs
  <2>6. \A b \in Consoles : b > thr[t].con => wire[b] = <<>>  BY <1>1, <1>3, LastConsole
  <2>7. AccountInv'  BY <1>1, <1>3, <2>2, <2>3, <2>5, <2>6, HeadStep
  <2>8. QED  BY <2>1, <2>7
<1>4. QED  BY <1>2, <1>3 DEF WriteHead

LEMMA WriteBodyBooks ==
    ASSUME IInv, UseInv, AccountInv, NEW t \in Threads, WriteBody(t)
    PROVE  UseInv' /\ AccountInv'
<1>1. /\ thr[t].pc = "body" /\ thr[t].pc \in {"head", "body"} /\ TypeOK
      /\ UNCHANGED <<console, cache, offered, sent>>
  BY DEF WriteBody, IInv
<1>2. CASE Fails(t) /\ Broken(thr[t].con) /\ UNCHANGED wire
  BY <1>1, <1>2, FailedBooks
<1>3. CASE /\ CanWrite(thr[t].con) /\ Piece(t, "body") /\ UNCHANGED <<conn, gone>>
           /\ IF thr[t].op = "write" THEN Returned(t, thr[t].ret)
              ELSE /\ thr' = [thr EXCEPT ![t] = [@ EXCEPT !.pc = "poll", !.msg = 0]]
                   /\ UNCHANGED lock
  <2>1. UseInv'  BY <1>1, <1>3, UseStep
  <2>2. /\ thr[t].con \in Consoles
        /\ wire'[thr[t].con] = Append(wire[thr[t].con], [msg |-> thr[t].msg, piece |-> "body"])
        /\ \A b \in Consoles : b # thr[t].con => wire'[b] = wire[b]
    BY <1>1, <1>3, WrittenFacts
  <2>3. Others(t) /\ thr'[t].msg = 0 /\ thr'[t].pc \notin WritePcs
    <3>1. CASE thr[t].op = "write"
      <4>1. thr[t].ret \in Pcs \ WritePcs /\ Returned(t, thr[t].ret)
        BY <1>1, <1>3, <3>1, Outside
      <4>2. QED  BY <1>1, <4>1, ReturnedFacts
    <3>2. CASE thr[t].op # "write"
      <4>1. thr' = [thr EXCEPT ![t] = [@ EXCEPT !.pc = "poll", !.msg = 0]]  BY <1>3, <3>2
      <4>2. QED  BY <1>1, <4>1 DEF TypeOK, ThreadState, Others, WritePcs
    <3>3. QED  BY <3>1, <3>2
  <2>4. AccountInv'  BY <1>1, <1>3, <2>2, <2>3, BodyStep
  <2>5. QED  BY <2>1, <2>4
<1>4. CASE Throws(t) /\ UNCHANGED <<conn, wire>>
  <2>1. UseInv'  BY <1>1, <1>4, UseStep
  <2>2. AccountInv'  BY <1>1, <1>4, ThrowsBooks
  <2>3. QED  BY <2>1, <2>2
<1>5. QED  BY <1>2, <1>3, <1>4 DEF WriteBody

\* closeConsole has no message.
LEMMA CloseBooks ==
    ASSUME IInv, UseInv, AccountInv, NEW t \in Threads,
           CloseCheck(t) \/ onClosed(t) \/ Close(t) \/ Forget(t)
    PROVE  UseInv' /\ AccountInv'
<1>1. /\ TypeOK /\ CarryInv /\ thr[t].pc \notin WritePcs
      /\ {"caught", "idle", "on_closed", "close", "forget", "dead"} \subseteq Pcs \ WritePcs
  <2>1. thr[t].pc \notin WritePcs  BY DEF CloseCheck, onClosed, Close, Forget, WritePcs
  <2>2. TypeOK /\ CarryInv  BY DEF IInv, AccountInv
  <2>3. QED  BY <2>1, <2>2, Outside
<1>2. UNCHANGED <<wire, cache, offered, sent, gone>>
  BY DEF CloseCheck, onClosed, Close, Forget
<1>3. /\ \A c \in Consoles : conn'[c].server = "none" <=> conn[c].server = "none"
      /\ console' = 0 \/ console' = console
  <2>1. CASE CloseCheck(t) \/ onClosed(t) \/ Forget(t)
    BY <2>1 DEF CloseCheck, onClosed, Forget
  <2>2. CASE Close(t) /\ conn' = conn  BY <2>2 DEF Close
  <2>3. CASE Close(t) /\ conn' = [conn EXCEPT ![console].server = IF @ = "open" THEN "closed" ELSE @]
    BY <1>1, <2>3 DEF Close, TypeOK, Connection
  <2>4. QED  BY <2>1, <2>2, <2>3 DEF Close
<1>4. \/ CloseDone(t)
      \/ \E pc \in {"on_closed", "close", "forget", "dead"} : Goto(t, pc)
      \/ \E pc \in {"caught", "idle"} : Returned(t, pc)
  BY DEF CloseCheck, onClosed, Close, Forget
<1>5. Keeps(t)
  <2>1. CASE CloseDone(t)  BY <1>1, <2>1, CloseDoneKeeps
  <2>2. CASE \E pc \in {"on_closed", "close", "forget", "dead"} : Goto(t, pc)
    BY <1>1, <2>2, GotoKeeps
  <2>3. CASE \E pc \in {"caught", "idle"} : Returned(t, pc)  BY <1>1, <2>3, ReturnKeeps
  <2>4. QED  BY <1>4, <2>1, <2>2, <2>3
<1>6. QED  BY <1>2, <1>3, <1>5, StillStep, UseStep

\* A new console has the next number.
LEMMA AcceptBooks ==
    ASSUME IInv, UseInv, AccountInv, accept
    PROVE  UseInv' /\ AccountInv'
<1>1. /\ "run" \in Threads /\ TypeOK /\ CarryInv /\ thr["run"].pc = "accept"
      /\ thr["run"].pc \notin WritePcs /\ UNCHANGED <<wire, cache, offered, sent, gone>>
  BY DEF accept, RunGoto, Threads, WritePcs, IInv, AccountInv
<1>2. {"close_check", "open"} \subseteq Pcs \ WritePcs  BY <1>1, Outside
<1>3. CASE Goto("run", "close_check") /\ UNCHANGED <<console, conn>>
  <2>1. Keeps("run")  BY <1>1, <1>2, <1>3, GotoKeeps
  <2>2. QED  BY <1>1, <1>3, <2>1, StillStep, UseStep
<1>4. ASSUME NEW c \in Consoles, conn[c].server = "none",
             \A b \in 1..(c - 1) : conn[b].server # "none",
             conn' = [conn EXCEPT ![c].server = "new"], console' = c,
             Picks("run", c, "open")
      PROVE  UseInv' /\ AccountInv'
  <2>1. c \in 0..ConsoleBound  BY ConsoleAssumption DEF Consoles
  <2>2. Others("run") /\ thr'["run"].pc = "open" /\ thr'["run"].msg = thr["run"].msg
    BY <1>1, <1>2, <1>4, <2>1, PicksFacts
  <2>3. thr["run"].msg = 0  BY <1>1 DEF CarryInv, Carries
  <2>4. Keeps("run")  BY <1>2, <2>2, <2>3 DEF Keeps
  <2>5. AccountInv'  BY <1>1, <2>4, StillStep
  <2>6. conn'[c].server = "new" /\ \A b \in Consoles : b # c => conn'[b] = conn[b]
    BY <1>1, <1>4 DEF TypeOK, Connection
  <2>7. \A d \in Consoles : d > c => conn'[d].server = "none"
    <3> SUFFICES ASSUME NEW d \in Consoles, d > c PROVE conn'[d].server = "none"  OBVIOUS
    <3>1. conn[d].server = "none"  BY <1>4 DEF UseInv
    <3>2. d # c  BY DEF Consoles
    <3>3. QED  BY <2>6, <3>1, <3>2
  <2>8. ASSUME NEW b \in Consoles, NEW d \in Consoles, conn'[b].server = "none", d > b
        PROVE  conn'[d].server = "none"
    <3>1. b # c  BY <2>6, <2>8
    <3>2. conn[b].server = "none"  BY <2>6, <2>8, <3>1
    <3>3. b \notin 1..(c - 1)  BY <1>4, <3>2
    <3>4. d > c  BY <2>8, <3>1, <3>3 DEF Consoles
    <3>5. QED  BY <2>7, <3>4
  <2>9. UseInv'  BY <1>4, <2>7, <2>8 DEF UseInv
  <2>10. QED  BY <2>5, <2>9
<1>5. QED  BY <1>3, <1>4 DEF accept, RunGoto

\* The steps of run that leave messages alone.
LEMMA RunMovesBooks ==
    ASSUME IInv, UseInv, AccountInv,
           Open \/ onConnected \/ LoopTop \/ flushCache \/ initializeLogServer \/ sendBroadcast
    PROVE  UseInv' /\ AccountInv'
<1>1. /\ "run" \in Threads /\ TypeOK /\ CarryInv /\ thr["run"].pc \notin WritePcs
      /\ {"greet", "recover", "hello", "close_check", "flush", "poll", "accept"} \subseteq Pcs \ WritePcs
  <2>1. "run" \in Threads /\ TypeOK /\ CarryInv  BY DEF Threads, IInv, AccountInv
  <2>2. thr["run"].pc \notin WritePcs
    BY DEF Open, onConnected, LoopTop, flushCache, initializeLogServer, sendBroadcast,
           RunGoto, WritePcs
  <2>3. QED  BY <2>1, <2>2, Outside
<1>2. UNCHANGED <<wire, cache, offered, sent, gone, console>>
  BY DEF Open, onConnected, LoopTop, flushCache, initializeLogServer, sendBroadcast
<1>3. \E pc \in {"greet", "recover", "hello", "close_check", "flush", "poll", "accept"} : Goto("run", pc)
  BY DEF Open, onConnected, LoopTop, flushCache, initializeLogServer, sendBroadcast, RunGoto
<1>4. Keeps("run")  BY <1>1, <1>3, GotoKeeps
<1>5. \A c \in Consoles : conn'[c].server = "none" <=> conn[c].server = "none"
  <2>1. CASE Open /\ conn' # conn
    <3>1. /\ thr["run"].con \in Consoles /\ conn[thr["run"].con].server = "new"
          /\ conn' = [conn EXCEPT ![thr["run"].con].server = "open"]
      BY <2>1 DEF Open, RunGoto, IInv, ConnInv
    <3>2. QED  BY <1>1, <3>1 DEF TypeOK, Connection
  <2>2. CASE conn' = conn  BY <2>2
  <2>3. QED
    BY <2>1, <2>2 DEF onConnected, LoopTop, flushCache, initializeLogServer, sendBroadcast
<1>6. QED  BY <1>1, <1>2, <1>4, <1>5, StillStep, UseStep

\* run prints, or reads a command that prints, or neither.
LEMMA RunCallsBooks ==
    ASSUME IInv, UseInv, AccountInv, RunPrints \/ readCommand
    PROVE  UseInv' /\ AccountInv'
<1>1. /\ "run" \in Threads /\ TypeOK /\ CarryInv /\ thr["run"].pc \notin WritePcs
      /\ {"on_connected", "loop", "close_check", "caught", "recover"} \subseteq Pcs \ WritePcs
  <2>1. "run" \in Threads /\ TypeOK /\ CarryInv  BY DEF Threads, IInv, AccountInv
  <2>2. thr["run"].pc \notin WritePcs  BY DEF RunPrints, readCommand, WritePcs
  <2>3. QED  BY <2>1, <2>2, Outside
<1>2. UNCHANGED <<console, conn, wire, cache, offered, gone>>  BY DEF RunPrints, readCommand
<1>3. UseInv'  BY <1>2, UseStep
<1>4. \/ \E pc \in {"on_connected", "loop", "close_check", "caught", "recover"} :
            Goto("run", pc) /\ UNCHANGED sent
      \/ \E file \in BOOLEAN : \E ret \in {"on_connected", "loop", "close_check"} :
            Calls("run", file, ret)
  BY DEF RunPrints, readCommand
<1>5. CASE \E pc \in {"on_connected", "loop", "close_check", "caught", "recover"} :
              Goto("run", pc) /\ UNCHANGED sent
  <2>1. Keeps("run") /\ UNCHANGED sent  BY <1>1, <1>5, GotoKeeps
  <2>2. QED  BY <1>1, <1>2, <1>3, <2>1, StillStep
<1>6. CASE \E file \in BOOLEAN : \E ret \in {"on_connected", "loop", "close_check"} :
              Calls("run", file, ret)
  BY <1>1, <1>2, <1>3, <1>6, CallsBooks
<1>7. QED  BY <1>4, <1>5, <1>6

LEMMA PollBooks ==
    ASSUME IInv, UseInv, AccountInv, Poll
    PROVE  UseInv' /\ AccountInv'
<1>1. /\ "run" \in Threads /\ TypeOK /\ CarryInv /\ thr["run"].pc = "poll"
      /\ thr["run"].pc \notin WritePcs /\ UNCHANGED <<console, conn, wire, offered, sent, gone>>
  BY DEF Poll, Threads, WritePcs, IInv, AccountInv
<1>2. UseInv'  BY <1>1, UseStep
<1>3. CASE Returned("run", "read") /\ UNCHANGED cache
  <2>1. "read" \in Pcs \ WritePcs  BY <1>1, Outside
  <2>2. Keeps("run")  BY <1>1, <1>3, <2>1, ReturnKeeps
  <2>3. QED  BY <1>1, <1>2, <1>3, <2>2, StillStep
<1>4. CASE /\ cache # <<>>
           /\ thr' = [thr EXCEPT !["run"] = [@ EXCEPT !.pc = "get", !.op = "flush",
                                                      !.msg = Head(cache)]]
           /\ cache' = Tail(cache) /\ UNCHANGED lock
  <2> DEFINE h == Head(cache)
  <2>1. thr' = [thr EXCEPT !["run"] = [@ EXCEPT !.pc = "get", !.op = "flush", !.msg = h]]
    BY <1>4
  <2> HIDE DEF h
  <2>2. /\ Others("run") /\ thr'["run"].msg = h /\ thr'["run"].pc = "get"
        /\ thr'["run"].op = "flush"
    BY <1>1, <2>1 DEF TypeOK, ThreadState, Others
  <2>3. AccountInv'  BY <1>1, <1>4, <2>2, PollStep DEF h
  <2>4. QED  BY <1>2, <2>3
<1>5. QED  BY <1>3, <1>4 DEF Poll

LEMMA ClientBooks ==
    ASSUME IInv, UseInv, AccountInv, NEW c \in Consoles, ClientLeaves(c) \/ ClientStalls(c)
    PROVE  UseInv' /\ AccountInv'
<1>1. TypeOK /\ "run" \in Threads /\ thr' = thr /\ console' = console
  BY DEF IInv, Threads, ClientLeaves, ClientStalls
<1>2. \A b \in Consoles : conn'[b].server = conn[b].server
  BY <1>1 DEF ClientLeaves, ClientStalls, TypeOK, Connection
<1>3. Keeps("run")  BY <1>1 DEF Keeps, Others, AccountInv, CarryInv, Carries
<1>4. UNCHANGED <<wire, cache, offered, sent, gone>>  BY DEF ClientLeaves, ClientStalls
<1>5. QED  BY <1>1, <1>2, <1>3, <1>4, StillStep, UseStep

\* Nothing was written and no console is in use.
LEMMA InitBooks == Init => UseInv /\ AccountInv
<1> SUFFICES ASSUME Init PROVE UseInv /\ AccountInv  OBVIOUS
<1>1. \A t \in Threads : thr[t].msg = 0 /\ thr[t].pc \notin WritePcs
  BY DEF Init, ThreadAt, WritePcs
<1>2. CarryInv  BY <1>1 DEF CarryInv, Carries
<1>3. Len(cache) = 0 /\ Len(offered) = 0 /\ sent = 0 /\ gone = {}  BY DEF Init
<1>4. \A c \in Consoles : Len(wire[c]) = 0  BY DEF Init
<1>5. QueueInv  BY <1>3 DEF QueueInv
<1>6. WireInv  BY <1>3, <1>4 DEF WireInv, Sorted
<1>7. WholeInv  BY <1>3 DEF WholeInv
<1>8. UseInv  BY DEF Init, UseInv
<1>9. QED  BY <1>2, <1>5, <1>6, <1>7, <1>8 DEF AccountInv

LEMMA NextBooks == IInv /\ UseInv /\ AccountInv /\ [Next]_vars => UseInv' /\ AccountInv'
<1> SUFFICES ASSUME IInv, UseInv, AccountInv, [Next]_vars PROVE UseInv' /\ AccountInv'
  OBVIOUS
<1>1. ASSUME NEW t \in Writers, NEW file \in BOOLEAN, writeToConsole(t, file)
      PROVE  UseInv' /\ AccountInv'
  BY <1>1, WriteToConsoleBooks
<1>2. ASSUME NEW t \in Threads, Step(t)
      PROVE  UseInv' /\ AccountInv'
  BY <1>2, EnterBooks, CheckConsoleBooks, GetConsoleBooks, WriteHeadBooks, WriteBodyBooks,
     CloseBooks DEF Step
<1>3. CASE run
  BY <1>3, AcceptBooks, RunMovesBooks, RunCallsBooks, PollBooks DEF run
<1>4. ASSUME NEW c \in Consoles, ClientLeaves(c) \/ ClientStalls(c)
      PROVE  UseInv' /\ AccountInv'
  BY <1>4, ClientBooks
<1>5. CASE UNCHANGED vars
  <2>1. /\ thr' = thr /\ console' = console /\ conn' = conn /\ "run" \in Threads
        /\ UNCHANGED <<wire, cache, offered, sent, gone>>
    BY <1>5 DEF vars, Threads
  <2>2. Keeps("run")  BY <2>1 DEF Keeps, Others, AccountInv, CarryInv, Carries
  <2>3. QED  BY <2>1, <2>2, StillStep, UseStep
<1>6. QED  BY <1>1, <1>2, <1>3, <1>4, <1>5 DEF Next

-----------------------------------------------------------------------------
(* What the invariant says of Accounted *)

LEMMA BooksHold == Spec => [](IInv /\ AccountInv)
<1>1. Init => IInv /\ UseInv /\ AccountInv  BY InitInv, InitBooks
<1>2. IInv /\ UseInv /\ AccountInv /\ [Next]_vars => (IInv /\ UseInv /\ AccountInv)'
  BY NextInv, NextBooks
<1>3. QED  BY <1>1, <1>2, PTL DEF Spec

LEMMA AtMostOne ==
    ASSUME NEW S, \A x, y \in S : x = y
    PROVE  Cardinality(S) <= 1
<1>1. CASE S = {}  BY <1>1, FS_EmptySet
<1>2. CASE S # {}
  <2>1. PICK x : x \in S  BY <1>2
  <2>2. S = {x}  BY <2>1
  <2>3. QED  BY <2>2, FS_Singleton
<1>3. QED  BY <1>1, <1>2

\* The piece at a belongs to a frame that begins there or right before.
LEMMA HeadOf ==
    ASSUME TypeOK, FrameInv, NEW c \in Consoles, NEW a \in 1..Len(wire[c])
    PROVE  \E h \in 1..Len(wire[c]) :
             /\ h = IF wire[c][a].piece = "head" THEN a ELSE a - 1
             /\ h <= a /\ Began(wire[c], h, wire[c][a].msg)
<1>1. /\ wire[c][a] \in [msg : Messages, piece : {"head", "body"}]
      /\ a \in Nat /\ Len(wire[c]) \in Nat
  BY PieceFacts
<1>2. CASE wire[c][a].piece = "head"
  <2>1. Began(wire[c], a, wire[c][a].msg)  BY <1>1, <1>2 DEF Began
  <2>2. QED  BY <1>1, <1>2, <2>1
<1>3. CASE wire[c][a].piece = "body"
  <2>1. a > 1 /\ wire[c][a - 1] = [msg |-> wire[c][a].msg, piece |-> "head"]
    BY <1>3 DEF FrameInv, Framed
  <2>2. a - 1 \in 1..Len(wire[c]) /\ a - 1 <= a  BY <1>1, <2>1
  <2>3. QED  BY <1>3, <2>1, <2>2 DEF Began
<1>4. QED  BY <1>1, <1>2, <1>3

\* There are no more pieces on a connection than twice the messages, because no frame
\* begins twice and a body follows its head.
LEMMA FewFrames ==
    ASSUME TypeOK, FrameInv, WireInv, NEW c \in Consoles, NEW h \in 1..Len(wire[c])
    PROVE  h \in 1..(2 * MessageBound)
<1>1. h \in Nat /\ h >= 1 /\ Len(wire[c]) \in Nat /\ h <= Len(wire[c])
  BY PieceFacts
<1> DEFINE S == Messages \X {"head", "body"}
           f == [i \in 1..h |-> <<wire[c][i].msg, wire[c][i].piece>>]
<1>2. ASSUME NEW i \in 1..h
      PROVE  /\ i \in 1..Len(wire[c]) /\ wire[c][i].msg \in Messages
             /\ wire[c][i].msg \in 1..sent /\ wire[c][i].piece \in {"head", "body"}
  <2>1. i \in 1..Len(wire[c])  BY <1>1
  <2>2. /\ wire[c][i] \in [msg : Messages, piece : {"head", "body"}]
        /\ wire[c][i].msg \in Messages
    BY <2>1, PieceFacts
  <2>3. wire[c][i].msg <= sent  BY <2>1 DEF WireInv
  <2>4. wire[c][i].msg \in 1..sent  BY ConsoleAssumption, <2>2, <2>3 DEF Messages, TypeOK
  <2>5. QED  BY <2>1, <2>2, <2>4
<1>3. f \in [1..h -> S]  BY <1>2
<1>4. ASSUME NEW i \in 1..h, NEW j \in 1..h, f[i] = f[j] PROVE i = j
  <2>1. wire[c][i].msg = wire[c][j].msg /\ wire[c][i].piece = wire[c][j].piece  BY <1>4
  <2>2. PICK x \in 1..Len(wire[c]) :
          /\ x = IF wire[c][i].piece = "head" THEN i ELSE i - 1
          /\ Began(wire[c], x, wire[c][i].msg)
    BY <1>2, HeadOf
  <2>3. PICK y \in 1..Len(wire[c]) :
          /\ y = IF wire[c][j].piece = "head" THEN j ELSE j - 1
          /\ Began(wire[c], y, wire[c][j].msg)
    BY <1>2, HeadOf
  <2>4. x = y  BY <1>2, <2>1, <2>2, <2>3 DEF WireInv
  <2>5. QED  BY <1>1, <2>1, <2>2, <2>3, <2>4
<1> HIDE DEF f
<1>5. IsFiniteSet(1..h) /\ Cardinality(1..h) = h
  <2>1. 1 \in Int /\ h \in Int /\ ~(1 > h) /\ h - 1 + 1 = h  BY <1>1
  <2>2. /\ IsFiniteSet(1..h)
        /\ Cardinality(1..h) = IF 1 > h THEN 0 ELSE h - 1 + 1
    BY <2>1, FS_Interval
  <2>3. QED  BY <2>1, <2>2
<1>6. IsFiniteSet(Messages) /\ Cardinality(Messages) = MessageBound
  <2>1. 1 \in Int /\ MessageBound \in Int  BY ConsoleAssumption
  <2>2. /\ IsFiniteSet(1..MessageBound)
        /\ Cardinality(1..MessageBound) =
             IF 1 > MessageBound THEN 0 ELSE MessageBound - 1 + 1
    BY <2>1, FS_Interval
  <2>3. QED  BY ConsoleAssumption, <2>2 DEF Messages
<1>7. IsFiniteSet({"head", "body"}) /\ Cardinality({"head", "body"}) = 2
  <2>1. IsFiniteSet({"head"}) /\ Cardinality({"head"}) = 1  BY FS_Singleton
  <2>2. /\ IsFiniteSet({"head"} \union {"body"})
        /\ Cardinality({"head"} \union {"body"}) = IF "body" \in {"head"} THEN 1 ELSE 1 + 1
    BY <2>1, FS_AddElement
  <2>3. {"head"} \union {"body"} = {"head", "body"}  OBVIOUS
  <2>4. QED  BY <2>2, <2>3
<1>8. IsFiniteSet(S) /\ Cardinality(S) = MessageBound * 2
  BY <1>6, <1>7, FS_Product
<1> HIDE DEF S
<1>9. ~(Cardinality(S) < Cardinality(1..h))
  <2> SUFFICES ASSUME Cardinality(S) < Cardinality(1..h) PROVE FALSE  OBVIOUS
  <2>1. \E i, j \in 1..h : i # j /\ f[i] = f[j]  BY <1>3, <1>5, <1>8, FS_PigeonHole
  <2>2. QED  BY <1>4, <2>1
<1>10. QED  BY ConsoleAssumption, <1>1, <1>5, <1>8, <1>9

\* A message is on one connection only.
LEMMA OneWire ==
    ASSUME TypeOK, FrameInv, WireInv, NEW m \in 1..sent,
           NEW c \in Consoles, NEW d \in Consoles, IsOn(c, m), IsOn(d, m)
    PROVE  c = d
<1>1. PICK a \in 1..Len(wire[c]) : wire[c][a].msg = m  BY DEF IsOn
<1>2. PICK b \in 1..Len(wire[d]) : wire[d][b].msg = m  BY DEF IsOn
<1>3. PICK h \in 1..Len(wire[c]) : Began(wire[c], h, m)  BY <1>1, HeadOf
<1>4. PICK k \in 1..Len(wire[d]) : Began(wire[d], k, m)  BY <1>2, HeadOf
<1>5. QED  BY <1>3, <1>4 DEF WireInv

\* The place of a message is where its frame begins.
LEMMA PositionIs ==
    ASSUME TypeOK, FrameInv, WireInv, NEW m \in 1..sent,
           NEW c \in Consoles, NEW h \in 1..Len(wire[c]), Began(wire[c], h, m)
    PROVE  Position(m) = <<c, h>>
<1> DEFINE At == {p \in Consoles \X (1..(2 * MessageBound)) :
                    p[2] <= Len(wire[p[1]]) /\ wire[p[1]][p[2]].msg = m}
           First(p) == \A q \in At : p[1] < q[1] \/ (p[1] = q[1] /\ p[2] <= q[2])
<1>1. h \in 1..(2 * MessageBound) /\ h \in Nat /\ h <= Len(wire[c]) /\ wire[c][h].msg = m
  BY FewFrames, PieceFacts DEF Began
<1>2. <<c, h>> \in At  BY <1>1
<1>3. ASSUME NEW q \in At PROVE q[1] = c /\ h <= q[2] /\ q = <<q[1], q[2]>> /\ q[2] \in Nat
  <2>1. /\ q[1] \in Consoles /\ q[2] \in 1..(2 * MessageBound) /\ q = <<q[1], q[2]>>
        /\ q[2] <= Len(wire[q[1]]) /\ wire[q[1]][q[2]].msg = m
    OBVIOUS
  <2>2. q[2] \in Nat /\ q[2] >= 1  BY ConsoleAssumption, <2>1
  <2>3. Len(wire[q[1]]) \in Nat
    <3>1. wire[q[1]] \in Seq([msg : Messages, piece : {"head", "body"}])  BY <2>1 DEF TypeOK
    <3>2. QED  BY <3>1
  <2>4. q[2] \in 1..Len(wire[q[1]])  BY <2>1, <2>2, <2>3
  <2>5. PICK k \in 1..Len(wire[q[1]]) : k <= q[2] /\ Began(wire[q[1]], k, m)
    BY <2>1, <2>4, HeadOf
  <2>6. q[1] = c /\ k = h  BY <2>1, <2>5 DEF WireInv
  <2>7. QED  BY <2>1, <2>2, <2>5, <2>6
<1>4. Position(m) = CHOOSE p \in At : First(p)  BY DEF Position
<1> HIDE DEF At
<1>5. First(<<c, h>>)  BY <1>3
<1>6. ASSUME NEW p \in At, First(p) PROVE p = <<c, h>>
  <2>1. p[1] < c \/ (p[1] = c /\ p[2] <= h)  BY <1>2, <1>6
  <2>2. p[1] = c /\ h <= p[2] /\ p = <<p[1], p[2]>> /\ p[2] \in Nat  BY <1>3
  <2>3. c \in Nat  BY ConsoleAssumption DEF Consoles
  <2>4. p[2] = h  BY <1>1, <2>1, <2>2, <2>3
  <2>5. QED  BY <2>2, <2>4
<1> HIDE DEF First
<1>7. QED  BY <1>2, <1>4, <1>5, <1>6

LEMMA AccountedHolds == IInv /\ AccountInv => Accounted
<1> SUFFICES ASSUME IInv, AccountInv PROVE Accounted  OBVIOUS
<1>1. TypeOK /\ FrameInv /\ CarryInv /\ QueueInv /\ WireInv /\ WholeInv
  BY DEF IInv, AccountInv
<1>2. ASSUME NEW m \in 1..sent, NEW t \in Threads, thr[t].msg = m
      PROVE  /\ m \notin gone /\ ~Cached(m)
             /\ \A u \in Threads : thr[u].msg = m => u = t
  <2>1. m # 0  BY <1>1 DEF TypeOK
  <2>2. QED  BY <1>1, <1>2, <2>1 DEF CarryInv, Carries
<1>3. ASSUME NEW m \in 1..sent
      PROVE  /\ InFlight(m) \/ Cached(m) \/ OnWire(m) \/ m \in gone
             /\ Cardinality({c \in Consoles : IsOn(c, m)}) <= 1
             /\ Cardinality({i \in 1..Len(cache) : cache[i] = m}) <= 1
             /\ Cardinality({t \in Threads : thr[t].msg = m}) <= 1
             /\ Cached(m) => ~(InFlight(m) \/ OnWire(m) \/ m \in gone)
             /\ m \in gone => ~InFlight(m)
             /\ OnWire(m) => \/ InFlight(m) \/ m \in gone
                             \/ \E c \in Consoles : \E i \in 1..Len(wire[c]) :
                                   wire[c][i] = [msg |-> m, piece |-> "body"]
  <2>1. InFlight(m) \/ Cached(m) \/ OnWire(m) \/ m \in gone  BY <1>1 DEF WholeInv
  <2>2. Cardinality({c \in Consoles : IsOn(c, m)}) <= 1
    <3>1. \A c, d \in {e \in Consoles : IsOn(e, m)} : c = d  BY <1>1, OneWire
    <3>2. QED  BY <3>1, AtMostOne
  <2>3. Cardinality({i \in 1..Len(cache) : cache[i] = m}) <= 1
    <3>1. \A i, j \in {k \in 1..Len(cache) : cache[k] = m} : i = j  BY <1>1, CacheOnce
    <3>2. QED  BY <3>1, AtMostOne
  <2>4. Cardinality({t \in Threads : thr[t].msg = m}) <= 1
    <3>1. \A t, u \in {v \in Threads : thr[v].msg = m} : t = u  BY <1>2
    <3>2. QED  BY <3>1, AtMostOne
  <2>5. ASSUME InFlight(m) PROVE m \notin gone /\ ~Cached(m)
    BY <1>2, <2>5 DEF InFlight
  <2>6. ASSUME Cached(m) PROVE ~OnWire(m) /\ m \notin gone
    BY <1>1, <2>6 DEF Cached, QueueInv
  <2>7. OnWire(m) => \/ InFlight(m) \/ m \in gone
                     \/ \E c \in Consoles : \E i \in 1..Len(wire[c]) :
                           wire[c][i] = [msg |-> m, piece |-> "body"]
    BY <1>1 DEF WholeInv, Ended
  <2>8. QED  BY <2>1, <2>2, <2>3, <2>4, <2>5, <2>6, <2>7
<1>4. ASSUME NEW i \in 1..Len(offered), OnWire(offered[i])
      PROVE  \E c \in Consoles : \E a \in 1..Len(wire[c]) :
               Began(wire[c], a, offered[i]) /\ Position(offered[i]) = <<c, a>>
  <2>1. offered[i] \in 1..sent
    <3>1. offered[i] \in Messages  BY <1>1 DEF TypeOK
    <3>2. offered[i] <= sent  BY <1>1 DEF QueueInv
    <3>3. QED  BY ConsoleAssumption, <1>1, <3>1, <3>2 DEF Messages, TypeOK
  <2>2. PICK c \in Consoles : IsOn(c, offered[i])  BY <1>4 DEF OnWire
  <2>3. PICK b \in 1..Len(wire[c]) : wire[c][b].msg = offered[i]  BY <2>2 DEF IsOn
  <2>4. PICK a \in 1..Len(wire[c]) : Began(wire[c], a, offered[i])  BY <1>1, <2>3, HeadOf
  <2>5. Position(offered[i]) = <<c, a>>  BY <1>1, <2>1, <2>4, PositionIs
  <2>6. QED  BY <2>4, <2>5
<1>5. ASSUME NEW i \in 1..Len(offered), NEW j \in 1..Len(offered),
             i < j, OnWire(offered[i]), OnWire(offered[j])
      PROVE  LET p == Position(offered[i])
                 q == Position(offered[j])
             IN  p[1] < q[1] \/ (p[1] = q[1] /\ p[2] < q[2])
  <2>1. PICK c \in Consoles : \E a \in 1..Len(wire[c]) :
          Began(wire[c], a, offered[i]) /\ Position(offered[i]) = <<c, a>>
    BY <1>4, <1>5
  <2>2. PICK a \in 1..Len(wire[c]) :
          Began(wire[c], a, offered[i]) /\ Position(offered[i]) = <<c, a>>
    BY <2>1
  <2>3. PICK d \in Consoles : \E b \in 1..Len(wire[d]) :
          Began(wire[d], b, offered[j]) /\ Position(offered[j]) = <<d, b>>
    BY <1>4, <1>5
  <2>4. PICK b \in 1..Len(wire[d]) :
          Began(wire[d], b, offered[j]) /\ Position(offered[j]) = <<d, b>>
    BY <2>3
  <2>5. InOrder(i, j, c, d)  BY <1>1, <1>5 DEF WireInv, Sorted
  <2>6. c < d \/ (c = d /\ a < b)  BY <2>2, <2>4, <2>5 DEF InOrder
  <2>7. QED  BY <2>2, <2>4, <2>6
<1>6. QED  BY <1>3, <1>5 DEF Accounted

\* For every number of threads that print, of messages and of clients, and for every
\* limit of the queue, writeToConsole and flushCache neither duplicate a message nor
\* lose it in silence: it is held by the one thread that writes it, waits in cacheQueue
\* once, went to one client, or was given up (an exception, no room in the queue, a
\* file without a client).  What was cached reaches the clients in the order in
\* which it was cached, also if a client leaves in the middle and another one gets
\* the rest.
THEOREM MessagesAlwaysAccounted == Spec => []Accounted
BY AccountedHolds, BooksHold, PTL

=============================================================================
