----------------------------- MODULE VpnService -----------------------------
(***************************************************************************)
(* The life cycle of the VPN service (ServiceSinkhole): the main thread,   *)
(* which queues intents and destroys the service, the command thread,      *)
(* which starts, reloads and stops the tunnel, and the threads that serve  *)
(* a tunnel: the native engine (jni_run) or the forwarding to a VPN        *)
(* server.  They share the fields vpn, tunnelThread and vpnServerThread    *)
(* without a lock: a step here reads or writes one of them.                *)
(*                                                                         *)
(* Every descriptor that establish() returns has a number.  At most one    *)
(* thread is created for a descriptor and has its number, too; 0 is null.  *)
(***************************************************************************)
EXTENDS Integers, Sequences

CONSTANTS
    IntentBound,  \* bound on the intents sent to the service
    Faults        \* the misbehaviours of the environment that may happen

FaultKinds == {"establish", \* VpnService.Builder.establish fails
               "exit",      \* handle_events ends with an error
               "stale",     \* a stopped server thread still waits for its
                            \* input when the next tunnel is established
               "early"}     \* the service is destroyed during a command

ASSUME ServiceAssumption == IntentBound \in Nat /\ Faults \subseteq FaultKinds

Tuns == 1..IntentBound
Commands == {"run", "start", "reload", "stop"}
Actors == {"command", "main"}

VARIABLES
    intents,    \* the queue of the command thread, how many came, is it quit
    useServer,  \* were vpnHost and vpnPort set by the last intent
    field,      \* vpn, tunnelThread, vpnServerThread
    act,        \* where the command thread and onDestroy are
    tun,        \* the descriptors: ParcelFileDescriptor
    thr,        \* the threads: pc, local copy of vpn, StreamForward running
    ctx         \* the native context: struct context

vars == <<intents, useServer, field, act, tun, thr, ctx>>

Idle == [pc |-> "idle", op |-> "none", tun |-> 0, thread |-> 0]
NoThread == [pc |-> "none", vpn |-> 0, forwards |-> FALSE]

Started == {t \in Tuns : thr[t].pc = "started"}
Engine == {t \in Tuns : thr[t].pc \in {"top", "wait"}}
ServerPcs == {"connect", "forward", "end", "close", "null", "clear"}

Intents == [queue : Seq(Commands), sent : 0..IntentBound, quit : BOOLEAN]
Fields == [vpn : 0..IntentBound, tunnelThread : 0..IntentBound,
           vpnServerThread : 0..IntentBound]
ActorState ==
    [pc : {"idle", "check", "stop_native", "wakeup", "thread", "join", "jni_clear",
           "stop_vpn", "vpn_null", "establish", "start_native", "create",
           "start_server", "start_tunnel", "done"},
     op : {"none", "start", "reload", "stop", "destroy"},
     tun : 0..IntentBound, thread : 0..IntentBound]
ThreadState ==
    [pc : {"none", "created", "started", "top", "wait", "exited", "dead"} \union ServerPcs,
     vpn : 0..IntentBound, forwards : BOOLEAN]
Context == [stopping : BOOLEAN, wake : Nat, kept : BOOLEAN, freed : BOOLEAN]

Goto(a, pc) == act' = [act EXCEPT ![a] = [@ EXCEPT !.pc = pc]]

ThreadGoto(t, pc) == thr' = [thr EXCEPT ![t] = [@ EXCEPT !.pc = pc]]

\* The operation is over: a command, or what onDestroy does before jni_done.
Ended(a) == act' = [act EXCEPT ![a] = IF a = "main" THEN [@ EXCEPT !.pc = "done"]
                                      ELSE Idle]

-----------------------------------------------------------------------------
(* The main thread *)

\* Every intent overwrites the settings; only a start has a bundle.  A restart
\* by the system (intent == null) is a start without one.
onStartCommand(cmd, server) ==
    /\ ~intents.quit /\ intents.sent < IntentBound
    /\ server => cmd = "start"
    /\ intents' = [intents EXCEPT !.queue = Append(@, cmd), !.sent = @ + 1]
    /\ useServer' = server
    /\ UNCHANGED <<field, act, tun, thr, ctx>>

\* commandLooper.quit() drops what is queued, it does not wait for the command
\* that is being handled: without the fault the model waits for it.
onDestroy ==
    /\ ~intents.quit
    /\ "early" \in Faults \/ act["command"].pc = "idle"
    /\ intents' = [intents EXCEPT !.queue = <<>>, !.quit = TRUE]
    /\ act' = [act EXCEPT !["main"] = [Idle EXCEPT !.pc = "check", !.op = "destroy"]]
    /\ UNCHANGED <<useServer, field, tun, thr, ctx>>

jni_done ==
    /\ act["main"].pc = "done"
    /\ ctx' = [ctx EXCEPT !.freed = TRUE, !.kept = FALSE]
    /\ act' = [act EXCEPT !["main"] = Idle]
    /\ UNCHANGED <<intents, useServer, field, tun, thr>>

-----------------------------------------------------------------------------
(* The command thread *)

\* handleMessage; the commands run, stats, householding and packet leave the
\* tunnel alone, watchdog is a start.
handleIntent ==
    /\ act["command"].pc = "idle" /\ intents.queue # <<>>
    /\ intents' = [intents EXCEPT !.queue = Tail(@)]
    /\ act' = [act EXCEPT !["command"] =
                 IF Head(intents.queue) = "run" THEN Idle
                 ELSE [Idle EXCEPT !.pc = "check", !.op = Head(intents.queue)]]
    /\ UNCHANGED <<useServer, field, tun, thr, ctx>>

\* start, reload, stop and onDestroy first look whether there is a tunnel.
CheckVpn(a) ==
    /\ act[a].pc = "check"
    /\ \/ field.vpn = 0 /\ act[a].op \in {"start", "reload"} /\ Goto(a, "establish")
       \/ field.vpn = 0 /\ act[a].op \in {"stop", "destroy"} /\ Ended(a)
       \/ field.vpn # 0 /\ act[a].op = "start" /\ Ended(a)
       \/ field.vpn # 0 /\ act[a].op # "start" /\ Goto(a, "stop_native")
    /\ UNCHANGED <<intents, useServer, field, tun, thr, ctx>>

\* Mutant: a reload closes the tunnel under the engine.
BadStopNative(a) ==
    /\ act[a].pc = "stop_native"
    /\ field' = [field EXCEPT !.vpnServerThread = 0]
    /\ IF field.tunnelThread # 0 /\ act[a].op # "reload"
       THEN ctx' = [ctx EXCEPT !.stopping = TRUE] /\ Goto(a, "wakeup")
       ELSE Goto(a, "stop_vpn") /\ UNCHANGED ctx
    /\ UNCHANGED <<intents, useServer, tun, thr>>

\* stopNative; the server thread is only forgotten (an interrupt does not end its
\* input; that it sets the field to null between the test and the interrupt is left
\* out).  jni_stop first sets stopping, then writes to the pipe.
stopNative(a) ==
    /\ act[a].pc = "stop_native"
    /\ \/ /\ field.vpnServerThread # 0
          /\ field' = [field EXCEPT !.vpnServerThread = 0]
          /\ Goto(a, "stop_vpn") /\ UNCHANGED ctx
       \/ /\ field.vpnServerThread = 0 /\ field.tunnelThread # 0
          /\ ctx' = [ctx EXCEPT !.stopping = TRUE]
          /\ Goto(a, "wakeup") /\ UNCHANGED field
       \/ /\ field.vpnServerThread = 0 /\ field.tunnelThread = 0
          /\ Goto(a, "stop_vpn") /\ UNCHANGED <<field, ctx>>
    /\ UNCHANGED <<intents, useServer, tun, thr>>

Wakeup(a) ==
    /\ act[a].pc = "wakeup"
    /\ ctx' = [ctx EXCEPT !.wake = @ + 1]
    /\ Goto(a, "thread")
    /\ UNCHANGED <<intents, useServer, field, tun, thr>>

\* The field is read a second time; the thread may have set it to null since.
ReadThread(a) ==
    /\ act[a].pc = "thread"
    /\ act' = [act EXCEPT ![a] = [@ EXCEPT !.pc = "join", !.thread = field.tunnelThread]]
    /\ UNCHANGED <<intents, useServer, field, tun, thr, ctx>>

\* Mutant: the engine is not waited for.
BadJoin(a) ==
    /\ act[a].pc = "join"
    /\ field' = [field EXCEPT !.tunnelThread = 0]
    /\ Goto(a, IF act[a].op = "reload" THEN "stop_vpn" ELSE "jni_clear")
    /\ UNCHANGED <<intents, useServer, tun, thr, ctx>>

\* Joining a thread that was not started returns at once.
join(a) ==
    /\ act[a].pc = "join"
    /\ act[a].thread # 0 => thr[act[a].thread].pc \in {"created", "dead"}
    /\ field' = [field EXCEPT !.tunnelThread = 0]
    /\ Goto(a, IF act[a].op = "reload" THEN "stop_vpn" ELSE "jni_clear")
    /\ UNCHANGED <<intents, useServer, tun, thr, ctx>>

jni_clear(a) ==
    /\ act[a].pc = "jni_clear"
    /\ ctx' = [ctx EXCEPT !.kept = FALSE]
    /\ Goto(a, "stop_vpn")
    /\ UNCHANGED <<intents, useServer, field, tun, thr>>

\* Mutant: the descriptor is forgotten, not closed.
BadStopVPN(a) ==
    /\ act[a].pc = "stop_vpn"
    /\ IF field.vpn = 0 THEN Ended(a) ELSE Goto(a, "vpn_null")
    /\ UNCHANGED <<intents, useServer, field, tun, thr, ctx>>

\* The field is read again: if a server thread has set it to null since, close()
\* throws a NullPointerException, which ends the command.
stopVPN(a) ==
    /\ act[a].pc = "stop_vpn"
    /\ \/ field.vpn = 0 /\ Ended(a) /\ UNCHANGED tun
       \/ /\ field.vpn # 0
          /\ tun' = [tun EXCEPT ![field.vpn] = "closed"]
          /\ Goto(a, "vpn_null")
    /\ UNCHANGED <<intents, useServer, field, thr, ctx>>

VpnNull(a) ==
    /\ act[a].pc = "vpn_null"
    /\ field' = [field EXCEPT !.vpn = 0]
    /\ IF act[a].op = "reload" THEN Goto(a, "establish") ELSE Ended(a)
    /\ UNCHANGED <<intents, useServer, tun, thr, ctx>>

\* startVPN; a failure leaves the field null and ends the command.  Without the fault
\* the server threads have ended by then, which the code does not wait for.
startVPN(a) ==
    /\ act[a].pc = "establish"
    /\ "stale" \in Faults \/ \A t \in Tuns : thr[t].pc \notin ServerPcs
    /\ \/ \E t \in Tuns :
            /\ tun[t] = "none" /\ \A u \in 1..(t - 1) : tun[u] # "none"
            /\ tun' = [tun EXCEPT ![t] = "open"]
            /\ field' = [field EXCEPT !.vpn = t]
            /\ act' = [act EXCEPT ![a] = [@ EXCEPT !.pc = "start_native", !.tun = t]]
       \/ /\ "establish" \in Faults
          /\ field' = [field EXCEPT !.vpn = 0] /\ Ended(a) /\ UNCHANGED tun
    /\ UNCHANGED <<intents, useServer, thr, ctx>>

\* startNative up to jni_start, which resets stopping.
startNative(a) ==
    /\ act[a].pc = "start_native"
    /\ \/ /\ useServer
          /\ field' = [field EXCEPT !.vpnServerThread = act[a].tun]
          /\ ThreadGoto(act[a].tun, "created")
          /\ Goto(a, "start_server") /\ UNCHANGED ctx
       \/ /\ ~useServer
          /\ IF field.tunnelThread = 0
             THEN ctx' = [ctx EXCEPT !.stopping = FALSE] /\ Goto(a, "create")
             ELSE Ended(a) /\ UNCHANGED ctx
          /\ UNCHANGED <<field, thr>>
    /\ UNCHANGED <<intents, useServer, tun>>

CreateTunnelThread(a) ==
    /\ act[a].pc = "create"
    /\ field' = [field EXCEPT !.tunnelThread = act[a].tun]
    /\ ThreadGoto(act[a].tun, "created")
    /\ Goto(a, "start_tunnel")
    /\ UNCHANGED <<intents, useServer, tun, ctx>>

\* start() is called on the field, which another thread may have set to null.
StartThread(a) ==
    /\ \/ /\ act[a].pc = "start_server"
          /\ IF field.vpnServerThread = 0 THEN UNCHANGED thr
             ELSE ThreadGoto(field.vpnServerThread, "connect")
       \/ /\ act[a].pc = "start_tunnel"
          /\ IF field.tunnelThread = 0 THEN UNCHANGED thr
             ELSE ThreadGoto(field.tunnelThread, "started")
    /\ Ended(a)
    /\ UNCHANGED <<intents, useServer, field, tun, ctx>>

Step(a) ==
    \/ CheckVpn(a) \/ stopNative(a) \/ Wakeup(a) \/ ReadThread(a) \/ join(a)
    \/ jni_clear(a) \/ stopVPN(a) \/ VpnNull(a) \/ startVPN(a) \/ startNative(a)
    \/ CreateTunnelThread(a) \/ StartThread(a)

-----------------------------------------------------------------------------
(* The tunnel thread: jni_run, which is handle_events *)

\* Mutant: the thread calls jni_start itself.
BadRun(t) ==
    /\ thr[t].pc = "started" /\ ThreadGoto(t, "top")
    /\ ctx' = [ctx EXCEPT !.stopping = FALSE]
    /\ UNCHANGED <<intents, useServer, field, act, tun>>

jni_run(t) ==
    /\ thr[t].pc = "started" /\ ThreadGoto(t, "top")
    /\ UNCHANGED <<intents, useServer, field, act, tun, ctx>>

\* while (!stopping)
LoopTop(t) ==
    /\ thr[t].pc = "top"
    /\ ThreadGoto(t, IF ctx.stopping THEN "exited" ELSE "wait")
    /\ UNCHANGED <<intents, useServer, field, act, tun, ctx>>

\* Mutant: the pipe is read when it is empty.
BadPipe(t) ==
    /\ thr[t].pc = "wait"
    /\ ctx' = [ctx EXCEPT !.wake = @ - 1]
    /\ ThreadGoto(t, "top")
    /\ UNCHANGED <<intents, useServer, field, act, tun>>

\* epoll_wait returns for the pipe, one byte of which is read.
PipeReadable(t) ==
    /\ thr[t].pc = "wait" /\ ctx.wake > 0
    /\ ctx' = [ctx EXCEPT !.wake = @ - 1]
    /\ ThreadGoto(t, "top")
    /\ UNCHANGED <<intents, useServer, field, act, tun>>

\* epoll_wait returns for the tun or a session: NetGuardSessions.
HandleEvents(t) ==
    /\ thr[t].pc = "wait"
    /\ \E kept \in BOOLEAN : ctx' = [ctx EXCEPT !.kept = kept]
    /\ ThreadGoto(t, "top")
    /\ UNCHANGED <<intents, useServer, field, act, tun>>

\* report_exit: the tun or epoll reported an error.
nativeExit(t) ==
    /\ "exit" \in Faults /\ thr[t].pc = "wait" /\ ThreadGoto(t, "exited")
    /\ UNCHANGED <<intents, useServer, field, act, tun, ctx>>

TunnelExited(t) ==
    /\ thr[t].pc = "exited" /\ ThreadGoto(t, "dead")
    /\ field' = [field EXCEPT !.tunnelThread = 0]
    /\ UNCHANGED <<intents, useServer, act, tun, ctx>>

TunnelThread(t) ==
    jni_run(t) \/ LoopTop(t) \/ PipeReadable(t) \/ HandleEvents(t) \/ nativeExit(t)
    \/ TunnelExited(t)

-----------------------------------------------------------------------------
(* The thread that forwards the tunnel to a VPN server, and its StreamForward *)

Connect(t) ==
    /\ thr[t].pc = "connect"
    /\ \/ thr' = [thr EXCEPT ![t] = [@ EXCEPT !.pc = "forward", !.forwards = TRUE]]
       \/ ThreadGoto(t, "end")
    /\ UNCHANGED <<intents, useServer, field, act, tun, ctx>>

\* An error, or the end of the input.
ForwardEnds(t) ==
    /\ thr[t].pc = "forward" /\ ThreadGoto(t, "end")
    /\ UNCHANGED <<intents, useServer, field, act, tun, ctx>>

\* StreamForward ends with an error or when vpnServerThread is null, and closes
\* the descriptor it was given.
StreamForwardEnds(t) ==
    /\ thr[t].forwards
    /\ thr' = [thr EXCEPT ![t] = [@ EXCEPT !.forwards = FALSE]]
    /\ tun' = [tun EXCEPT ![t] = "closed"]
    /\ UNCHANGED <<intents, useServer, field, act, ctx>>

\* The end of the thread: it reads the field vpn, not its own descriptor.
ReadVpn(t) ==
    /\ thr[t].pc = "end"
    /\ thr' = [thr EXCEPT ![t] = [@ EXCEPT !.pc = "close", !.vpn = field.vpn]]
    /\ UNCHANGED <<intents, useServer, field, act, tun, ctx>>

CloseVpn(t) ==
    /\ thr[t].pc = "close" /\ ThreadGoto(t, "null")
    /\ tun' = IF thr[t].vpn = 0 THEN tun ELSE [tun EXCEPT ![thr[t].vpn] = "closed"]
    /\ UNCHANGED <<intents, useServer, field, act, ctx>>

ForgetVpn(t) ==
    /\ thr[t].pc = "null" /\ ThreadGoto(t, "clear")
    /\ field' = [field EXCEPT !.vpn = 0]
    /\ UNCHANGED <<intents, useServer, act, tun, ctx>>

ServerThreadExited(t) ==
    /\ thr[t].pc = "clear" /\ ThreadGoto(t, "dead")
    /\ field' = [field EXCEPT !.vpnServerThread = 0]
    /\ UNCHANGED <<intents, useServer, act, tun, ctx>>

ServerThread(t) ==
    Connect(t) \/ ForwardEnds(t) \/ StreamForwardEnds(t) \/ ReadVpn(t) \/ CloseVpn(t)
    \/ ForgetVpn(t) \/ ServerThreadExited(t)

-----------------------------------------------------------------------------

\* onCreate: jni_init and the command thread.
onCreate ==
    /\ intents = [queue |-> <<>>, sent |-> 0, quit |-> FALSE]
    /\ useServer = FALSE
    /\ field = [vpn |-> 0, tunnelThread |-> 0, vpnServerThread |-> 0]
    /\ act = [a \in Actors |-> Idle]
    /\ tun = [t \in Tuns |-> "none"]
    /\ thr = [t \in Tuns |-> NoThread]
    /\ ctx = [stopping |-> FALSE, wake |-> 0, kept |-> FALSE, freed |-> FALSE]

Init == onCreate

Next ==
    \/ \E cmd \in Commands, server \in BOOLEAN : onStartCommand(cmd, server)
    \/ onDestroy \/ jni_done \/ handleIntent
    \/ \E a \in Actors : Step(a)
    \/ \E t \in Tuns : TunnelThread(t) \/ ServerThread(t)

Spec == Init /\ [][Next]_vars

\* The threads run; nothing is assumed of the network, of the server or of when
\* intents arrive.
Fairness ==
    /\ WF_vars(handleIntent) /\ WF_vars(jni_done)
    /\ \A a \in Actors : WF_vars(Step(a))
    /\ \A t \in Tuns : WF_vars(jni_run(t) \/ LoopTop(t) \/ PipeReadable(t) \/ TunnelExited(t))

FairSpec == Spec /\ Fairness

-----------------------------------------------------------------------------
(* Properties *)

\* The shape and the values of the threads, the fields and the context.
TypeOK ==
    /\ intents \in Intents /\ useServer \in BOOLEAN /\ field \in Fields
    /\ act \in [Actors -> ActorState]
    /\ tun \in [Tuns -> {"none", "open", "closed"}]
    /\ thr \in [Tuns -> ThreadState]
    /\ ctx \in Context

\* The engine works on the number of a descriptor (vpn.getFd()): nobody closes
\* it before the engine has left handle_events, or the number may belong to
\* another file.  And while the engine runs the fields know it, so that the next
\* stop, reload or onDestroy finds both.
EngineHasTun ==
    \A t \in Started \union Engine :
       tun[t] = "open" /\ field.vpn = t /\ field.tunnelThread = t

\* No tunnel is lost: between two commands every open descriptor is the one in
\* the field, or that of a server thread which will close it.
TunsAccounted ==
    (\A a \in Actors : act[a].pc = "idle") =>
       \A t \in Tuns : tun[t] = "open" =>
          t = field.vpn \/ thr[t].pc \in ServerPcs \/ thr[t].forwards

\* stopNative waits for the engine without a timeout, on the command thread and
\* in onDestroy on the main thread: the engine must see stopping wherever it is,
\* in jni_run before its loop, between the test and epoll_wait, or waiting.
JoinReturns == \A a \in Actors : (act[a].pc = "join") ~> (act[a].pc # "join")

\* The threads that work with the sessions of the context: engines by their
\* number, 0 for the command thread, -1 for the main thread.
Users == Engine \union {IF a = "command" THEN 0 ELSE -1 :
                           a \in {b \in Actors : act[b].pc \in {"jni_clear", "done"}}}

Tunnel == INSTANCE TunnelLife
    WITH Threads <- -1..IntentBound, users <- Users, kept <- ctx.kept,
         freed <- ctx.freed

\* The sessions belong to one engine at a time; they are cleared and the context
\* is freed (jni_clear, jni_done) only while no engine works with them, and no
\* engine is run on a context that was freed.
ImplementsTunnel == Tunnel!Spec

=============================================================================
