-------------------------- MODULE VpnServiceProofs --------------------------
(***************************************************************************)
(* TypeOK, EngineHasTun and TunsAccounted of the VPN service, and that no  *)
(* two engines live at once, for every number of intents and descriptors.  *)
(*                                                                         *)
(* The threads share the fields vpn, tunnelThread and vpnServerThread      *)
(* without a lock, so the order in which they run is what keeps them       *)
(* apart.  SInv says so: one actor is not idle at a time (ActorInv), one   *)
(* thread lives at a time and the fields are those of that thread          *)
(* (ThreadInv, FieldInv), a server thread ends with its own descriptor     *)
(* (ServerInv), an open descriptor has an owner (TunsInv), and an actor    *)
(* that is past join knows that no engine is live (CommandInv).  All of it *)
(* needs Orderly, which the code does not ensure; TypeOK and OneEngine hold *)
(* without it.                                                             *)
(***************************************************************************)
EXTENDS VpnService, TLAPS

\* The thread of a tunnel runs, or a thread of either kind exists.
Live(t) == thr[t].pc \in {"started", "top", "wait", "exited"}
Alive(t) == thr[t].pc \notin {"none", "dead"}
Command == act["command"]

-----------------------------------------------------------------------------
(* Types *)

ActorPcs == {"idle", "check", "stop_native", "wakeup", "thread", "join", "jni_clear",
             "stop_vpn", "vpn_null", "establish", "start_native", "create",
             "start_server", "start_tunnel", "done"}
ThreadPcs == {"none", "created", "started", "top", "wait", "exited", "dead"} \union ServerPcs

\* A thread is started on the descriptor that was established for it.
TunInv == \A a \in Actors :
             act[a].pc \in {"start_native", "create", "start_server"} => act[a].tun \in Tuns

TypeInv == TypeOK /\ TunInv

\* No actor but a may have changed.
OtherActs(a) == \A b \in Actors : b # a => act'[b] = act[b]

\* No thread but t may have changed.
OtherThreads(t) == \A u \in Tuns : u # t => thr'[u] = thr[u]

LEMMA IdleType == Idle \in ActorState /\ NoThread \in ThreadState
  BY ServiceAssumption DEF Idle, NoThread, ActorState, ThreadState, ServerPcs

\* An actor is set, the other stays.
LEMMA ActSet ==
  ASSUME act \in [Actors -> ActorState], NEW a \in Actors, NEW r \in ActorState,
         act' = [act EXCEPT ![a] = r]
  PROVE  act' \in [Actors -> ActorState] /\ act'[a] = r /\ OtherActs(a)
  BY DEF OtherActs

\* What Goto does to the actor and that the other one stays.
LEMMA GotoFacts ==
  ASSUME act \in [Actors -> ActorState], NEW a \in Actors, NEW pc \in ActorPcs, Goto(a, pc)
  PROVE  /\ act' \in [Actors -> ActorState]
         /\ act'[a].pc = pc /\ act'[a].op = act[a].op
         /\ act'[a].tun = act[a].tun /\ act'[a].thread = act[a].thread
         /\ OtherActs(a)
  <1> DEFINE r == [act[a] EXCEPT !.pc = pc]
  <1>1. act[a] \in ActorState
    OBVIOUS
  <1>2. /\ r \in ActorState /\ r.pc = pc /\ r.op = act[a].op
        /\ r.tun = act[a].tun /\ r.thread = act[a].thread
    BY <1>1 DEF ActorState, ActorPcs
  <1>3. act' = [act EXCEPT ![a] = r]
    BY DEF Goto
  <1> HIDE DEF r
  <1> QED BY <1>2, <1>3, ActSet

\* What Ended does: the command thread is idle, the main thread goes on to jni_done.
LEMMA EndedFacts ==
  ASSUME act \in [Actors -> ActorState], NEW a \in Actors, Ended(a)
  PROVE  /\ act' \in [Actors -> ActorState] /\ OtherActs(a)
         /\ a = "main" => act'[a].pc = "done" /\ act'[a].op = act[a].op
         /\ a = "command" => act'[a] = Idle
  <1>1. CASE a = "main"
    <2>1. Goto(a, "done")
      BY <1>1 DEF Ended, Goto
    <2> QED BY <1>1, <2>1, GotoFacts DEF ActorPcs
  <1>2. CASE a = "command"
    <2>1. act' = [act EXCEPT ![a] = Idle]
      BY <1>2 DEF Ended
    <2> QED BY <1>2, <2>1, ActSet, IdleType
  <1> QED BY <1>1, <1>2 DEF Actors

\* A thread is set, the others stay.
LEMMA ThreadSet ==
  ASSUME thr \in [Tuns -> ThreadState], NEW t \in Tuns, NEW r \in ThreadState,
         thr' = [thr EXCEPT ![t] = r]
  PROVE  thr' \in [Tuns -> ThreadState] /\ thr'[t] = r /\ OtherThreads(t)
  BY DEF OtherThreads

LEMMA ThreadGotoFacts ==
  ASSUME thr \in [Tuns -> ThreadState], NEW t \in Tuns, NEW pc \in ThreadPcs, ThreadGoto(t, pc)
  PROVE  /\ thr' \in [Tuns -> ThreadState]
         /\ thr'[t].pc = pc /\ thr'[t].vpn = thr[t].vpn /\ thr'[t].forwards = thr[t].forwards
         /\ OtherThreads(t)
  <1> DEFINE r == [thr[t] EXCEPT !.pc = pc]
  <1>1. thr[t] \in ThreadState
    OBVIOUS
  <1>2. /\ r \in ThreadState /\ r.pc = pc /\ r.vpn = thr[t].vpn /\ r.forwards = thr[t].forwards
    BY <1>1 DEF ThreadState, ThreadPcs
  <1>3. thr' = [thr EXCEPT ![t] = r]
    BY DEF ThreadGoto
  <1> HIDE DEF r
  <1> QED BY <1>2, <1>3, ThreadSet

\* A field is set, the others stay.
LEMMA FieldFacts ==
  ASSUME field \in Fields, NEW n \in 0..IntentBound
  PROVE  /\ field' = [field EXCEPT !.vpn = n] =>
              field' \in Fields /\ field'.vpn = n /\ field'.tunnelThread = field.tunnelThread
              /\ field'.vpnServerThread = field.vpnServerThread
         /\ field' = [field EXCEPT !.tunnelThread = n] =>
              field' \in Fields /\ field'.vpn = field.vpn /\ field'.tunnelThread = n
              /\ field'.vpnServerThread = field.vpnServerThread
         /\ field' = [field EXCEPT !.vpnServerThread = n] =>
              field' \in Fields /\ field'.vpn = field.vpn /\ field'.tunnelThread = field.tunnelThread
              /\ field'.vpnServerThread = n
  BY DEF Fields

LEMMA Zero == 0 \in 0..IntentBound /\ \A t \in Tuns : t \in 0..IntentBound /\ t # 0
  BY ServiceAssumption DEF Tuns

\* The descriptor of an actor or a field that is not null is one of Tuns.
LEMMA NotNull == \A n \in 0..IntentBound : n # 0 => n \in Tuns
  BY ServiceAssumption DEF Tuns

\* The queue is set, the rest stays.
LEMMA IntentsFacts ==
  ASSUME intents \in Intents, NEW q \in Seq(Commands), NEW n \in 0..IntentBound
  PROVE  /\ [intents EXCEPT !.queue = q] \in Intents
         /\ [intents EXCEPT !.queue = q, !.sent = n] \in Intents
         /\ [intents EXCEPT !.queue = q, !.quit = TRUE] \in Intents
  BY Zenon DEF Intents

\* A descriptor is set, the others stay.
LEMMA TunFacts ==
  ASSUME tun \in [Tuns -> {"none", "open", "closed"}], NEW t \in Tuns,
         NEW v \in {"none", "open", "closed"}, tun' = [tun EXCEPT ![t] = v]
  PROVE  /\ tun' \in [Tuns -> {"none", "open", "closed"}]
         /\ tun'[t] = v /\ \A u \in Tuns : u # t => tun'[u] = tun[u]
  OBVIOUS

-----------------------------------------------------------------------------
(* TypeInv holds whatever the environment does *)

\* The steps of the main thread and the queue of the command thread.
LEMMA QueueType ==
  ASSUME TypeInv
  PROVE  /\ \A cmd \in Commands, server \in BOOLEAN : onStartCommand(cmd, server) => TypeInv'
         /\ onDestroy => TypeInv'
         /\ jni_done => TypeInv'
         /\ handleIntent => TypeInv'
  <1> USE DEF TypeInv, TypeOK
  <1>0. /\ Idle \in ActorState /\ Idle.pc = "idle"
        /\ \A op \in {"start", "reload", "stop", "destroy"} :
             /\ [Idle EXCEPT !.pc = "check", !.op = op] \in ActorState
             /\ [Idle EXCEPT !.pc = "check", !.op = op].pc = "check"
    BY IdleType DEF Idle, ActorState
  <1>1. ASSUME NEW cmd \in Commands, NEW server \in BOOLEAN, onStartCommand(cmd, server)
        PROVE  TypeInv'
    <2>1. intents' \in Intents
      <3>1. intents.queue \in Seq(Commands) /\ intents.sent \in 0..IntentBound
        BY DEF Intents
      <3>2. Append(intents.queue, cmd) \in Seq(Commands) /\ intents.sent + 1 \in 0..IntentBound
        BY <1>1, <3>1, ServiceAssumption DEF onStartCommand
      <3> QED BY <1>1, <3>2, IntentsFacts DEF onStartCommand
    <2> QED BY <1>1, <2>1 DEF onStartCommand, TunInv
  <1>2. ASSUME onDestroy PROVE TypeInv'
    <2>1. intents' \in Intents
      <3>1. <<>> \in Seq(Commands)
        OBVIOUS
      <3> QED BY <1>2, <3>1, Zero, IntentsFacts DEF onDestroy
    <2>2. /\ act' \in [Actors -> ActorState] /\ act'["main"].pc = "check" /\ OtherActs("main")
      BY <1>0, <1>2, ActSet DEF onDestroy, Actors
    <2> QED BY <1>2, <2>1, <2>2 DEF onDestroy, TunInv, OtherActs
  <1>3. ASSUME jni_done PROVE TypeInv'
    <2>1. ctx' \in Context
      BY <1>3 DEF jni_done, Context
    <2>2. /\ act' \in [Actors -> ActorState] /\ act'["main"].pc = "idle" /\ OtherActs("main")
      BY <1>0, <1>3, ActSet DEF jni_done, Actors
    <2> QED BY <1>3, <2>1, <2>2 DEF jni_done, TunInv, OtherActs
  <1>4. ASSUME handleIntent PROVE TypeInv'
    <2>1. intents' \in Intents /\ Head(intents.queue) \in Commands
      <3>1. intents.queue \in Seq(Commands)
        BY DEF Intents
      <3>2. Head(intents.queue) \in Commands /\ Tail(intents.queue) \in Seq(Commands)
        BY <1>4, <3>1 DEF handleIntent
      <3> QED BY <1>4, <3>2, Zero, IntentsFacts DEF handleIntent
    <2>2. PICK r \in ActorState : act' = [act EXCEPT !["command"] = r] /\ r.pc \in {"idle", "check"}
      BY <1>0, <1>4, <2>1 DEF handleIntent, Commands
    <2>3. /\ act' \in [Actors -> ActorState] /\ act'["command"].pc \in {"idle", "check"}
          /\ OtherActs("command")
      BY <2>2, ActSet DEF Actors
    <2> QED BY <1>4, <2>1, <2>3 DEF handleIntent, TunInv, OtherActs
  <1> QED BY <1>1, <1>2, <1>3, <1>4

\* The steps of a command, and of onDestroy.
LEMMA StepType ==
  ASSUME TypeInv, NEW a \in Actors, Step(a)
  PROVE  TypeInv'
  <1> USE DEF TypeInv, TypeOK, ActorPcs
  <1>e. ASSUME Ended(a)
        PROVE  act' \in [Actors -> ActorState] /\ TunInv'
    <2>1. /\ act' \in [Actors -> ActorState] /\ act'[a].pc \in {"idle", "done"} /\ OtherActs(a)
      BY <1>e, EndedFacts DEF Actors, Idle
    <2> QED BY <2>1 DEF TunInv, OtherActs
  <1>g. ASSUME NEW pc \in ActorPcs, Goto(a, pc),
               pc \in {"start_native", "create", "start_server"} => act[a].tun \in Tuns
        PROVE  act' \in [Actors -> ActorState] /\ TunInv'
    BY <1>g, GotoFacts DEF TunInv, OtherActs
  <1>t. act[a].pc \in {"start_native", "create", "start_server"} => act[a].tun \in Tuns
    BY DEF TunInv
  <1>a. act[a].tun \in 0..IntentBound /\ act[a].thread \in 0..IntentBound
        /\ field.vpn \in 0..IntentBound /\ field.tunnelThread \in 0..IntentBound
        /\ field.vpnServerThread \in 0..IntentBound
    BY DEF ActorState, Fields
  <1>1. CASE CheckVpn(a)
    BY <1>1, <1>e, <1>g DEF CheckVpn
  <1>2. CASE stopNative(a)
    <2>1. field' \in Fields
      BY <1>2, Zero, FieldFacts DEF stopNative
    <2>2. ctx' \in Context
      BY <1>2 DEF stopNative, Context
    <2>3. act' \in [Actors -> ActorState] /\ TunInv'
      BY <1>2, <1>g DEF stopNative
    <2> QED BY <1>2, <2>1, <2>2, <2>3 DEF stopNative
  <1>3. CASE Wakeup(a)
    <2>1. ctx' \in Context
      BY <1>3 DEF Wakeup, Context
    <2> QED BY <1>3, <1>g, <2>1 DEF Wakeup
  <1>4. CASE ReadThread(a)
    <2> DEFINE r == [act[a] EXCEPT !.pc = "join", !.thread = field.tunnelThread]
    <2>1. r \in ActorState /\ r.pc = "join"
      BY <1>a DEF ActorState
    <2>2. act' = [act EXCEPT ![a] = r]
      BY <1>4 DEF ReadThread
    <2> HIDE DEF r
    <2>3. act' \in [Actors -> ActorState] /\ act'[a].pc = "join" /\ OtherActs(a)
      BY <2>1, <2>2, ActSet
    <2> QED BY <1>4, <2>3 DEF ReadThread, TunInv, OtherActs
  <1>5. CASE join(a)
    <2>1. field' \in Fields
      BY <1>5, Zero, FieldFacts DEF join
    <2> QED BY <1>5, <1>g, <2>1 DEF join
  <1>6. CASE jni_clear(a)
    <2>1. ctx' \in Context
      BY <1>6 DEF jni_clear, Context
    <2> QED BY <1>6, <1>g, <2>1 DEF jni_clear
  <1>7. CASE stopVPN(a)
    <2>1. tun' \in [Tuns -> {"none", "open", "closed"}]
      BY <1>7, <1>a, NotNull, TunFacts DEF stopVPN
    <2> QED BY <1>7, <1>g, <1>e, <2>1 DEF stopVPN
  <1>8. CASE VpnNull(a)
    <2>1. field' \in Fields
      BY <1>8, Zero, FieldFacts DEF VpnNull
    <2> QED BY <1>8, <1>g, <1>e, <2>1 DEF VpnNull
  <1>9. CASE startVPN(a)
    <2>1. CASE Ended(a) /\ field' = [field EXCEPT !.vpn = 0] /\ UNCHANGED tun
      BY <1>9, <2>1, <1>e, Zero, FieldFacts DEF startVPN
    <2>2. ASSUME NEW t \in Tuns, tun' = [tun EXCEPT ![t] = "open"], field' = [field EXCEPT !.vpn = t],
                 act' = [act EXCEPT ![a] = [@ EXCEPT !.pc = "start_native", !.tun = t]]
          PROVE  TypeInv'
      <3> DEFINE r == [act[a] EXCEPT !.pc = "start_native", !.tun = t]
      <3>1. r \in ActorState /\ r.pc = "start_native" /\ r.tun = t
        BY Zero DEF ActorState
      <3>2. act' = [act EXCEPT ![a] = r]
        BY <2>2
      <3> HIDE DEF r
      <3>3. act' \in [Actors -> ActorState] /\ act'[a].tun = t /\ OtherActs(a)
        BY <3>1, <3>2, ActSet
      <3>4. field' \in Fields /\ tun' \in [Tuns -> {"none", "open", "closed"}]
        BY <2>2, Zero, FieldFacts, TunFacts
      <3> QED BY <1>9, <3>3, <3>4 DEF startVPN, TunInv, OtherActs
    <2> QED BY <1>9, <2>1, <2>2 DEF startVPN
  <1>10. CASE startNative(a)
    <2>1. field' \in Fields
      BY <1>10, <1>a, FieldFacts DEF startNative
    <2>2. ctx' \in Context
      BY <1>10 DEF startNative, Context
    <2>3. thr' \in [Tuns -> ThreadState]
      BY <1>10, <1>t, ThreadGotoFacts DEF startNative, ThreadPcs
    <2>4. act' \in [Actors -> ActorState] /\ TunInv'
      BY <1>10, <1>t, <1>g, <1>e DEF startNative
    <2> QED BY <1>10, <2>1, <2>2, <2>3, <2>4 DEF startNative
  <1>11. CASE CreateTunnelThread(a)
    <2>1. field' \in Fields /\ thr' \in [Tuns -> ThreadState]
      BY <1>11, <1>a, <1>t, FieldFacts, ThreadGotoFacts DEF CreateTunnelThread, ThreadPcs
    <2> QED BY <1>11, <1>g, <2>1 DEF CreateTunnelThread
  <1>12. CASE StartThread(a)
    <2>1. thr' \in [Tuns -> ThreadState]
      BY <1>12, <1>a, NotNull, ThreadGotoFacts DEF StartThread, ThreadPcs, ServerPcs
    <2> QED BY <1>12, <1>e, <2>1 DEF StartThread
  <1> QED BY <1>1, <1>2, <1>3, <1>4, <1>5, <1>6, <1>7, <1>8, <1>9, <1>10, <1>11, <1>12 DEF Step

\* The steps of the threads that serve a tunnel.
LEMMA ThreadType ==
  ASSUME TypeInv, NEW t \in Tuns, TunnelThread(t) \/ ServerThread(t)
  PROVE  TypeInv'
  <1> USE DEF TypeInv, TypeOK
  <1>g. ASSUME NEW pc \in ThreadPcs, ThreadGoto(t, pc) PROVE thr' \in [Tuns -> ThreadState]
    BY <1>g, ThreadGotoFacts
  <1>a. act' = act => TunInv'
    BY DEF TunInv
  <1>v. field.vpn \in 0..IntentBound /\ thr[t].vpn \in 0..IntentBound
    BY DEF Fields, ThreadState
  <1>1. CASE jni_run(t) \/ LoopTop(t) \/ nativeExit(t) \/ ForwardEnds(t)
    BY <1>1, <1>g, <1>a DEF jni_run, LoopTop, nativeExit, ForwardEnds, ThreadPcs, ServerPcs
  <1>2. CASE PipeReadable(t)
    <2>1. ctx' \in Context
      BY <1>2 DEF PipeReadable, Context
    <2> QED BY <1>2, <1>g, <1>a, <2>1 DEF PipeReadable, ThreadPcs
  <1>3. CASE HandleEvents(t)
    <2>1. ctx' \in Context
      BY <1>3 DEF HandleEvents, Context
    <2> QED BY <1>3, <1>g, <1>a, <2>1 DEF HandleEvents, ThreadPcs
  <1>4. CASE TunnelExited(t) \/ ForgetVpn(t) \/ ServerThreadExited(t)
    <2>1. field' \in Fields
      BY <1>4, Zero, FieldFacts DEF TunnelExited, ForgetVpn, ServerThreadExited
    <2> QED BY <1>4, <1>g, <1>a, <2>1
            DEF TunnelExited, ForgetVpn, ServerThreadExited, ThreadPcs, ServerPcs
  <1>5. CASE Connect(t)
    <2>1. thr[t] \in ThreadState => [thr[t] EXCEPT !.pc = "forward", !.forwards = TRUE] \in ThreadState
      BY DEF ThreadState, ServerPcs
    <2>2. thr' \in [Tuns -> ThreadState]
      BY <1>5, <1>g, <2>1, ThreadSet DEF Connect, ThreadPcs, ServerPcs
    <2> QED BY <1>5, <1>a, <2>2 DEF Connect
  <1>6. CASE StreamForwardEnds(t)
    <2>1. thr[t] \in ThreadState => [thr[t] EXCEPT !.forwards = FALSE] \in ThreadState
      BY DEF ThreadState
    <2>2. thr' \in [Tuns -> ThreadState]
      BY <1>6, <2>1, ThreadSet DEF StreamForwardEnds
    <2>3. tun' \in [Tuns -> {"none", "open", "closed"}]
      BY <1>6, TunFacts DEF StreamForwardEnds
    <2> QED BY <1>6, <1>a, <2>2, <2>3 DEF StreamForwardEnds
  <1>7. CASE ReadVpn(t)
    <2>1. thr[t] \in ThreadState => [thr[t] EXCEPT !.pc = "close", !.vpn = field.vpn] \in ThreadState
      BY <1>v DEF ThreadState, ServerPcs
    <2>2. thr' \in [Tuns -> ThreadState]
      BY <1>7, <2>1, ThreadSet DEF ReadVpn
    <2> QED BY <1>7, <1>a, <2>2 DEF ReadVpn
  <1>8. CASE CloseVpn(t)
    <2>1. tun' \in [Tuns -> {"none", "open", "closed"}]
      BY <1>8, <1>v, NotNull, TunFacts DEF CloseVpn
    <2> QED BY <1>8, <1>g, <1>a, <2>1 DEF CloseVpn, ThreadPcs, ServerPcs
  <1> QED BY <1>1, <1>2, <1>3, <1>4, <1>5, <1>6, <1>7, <1>8 DEF TunnelThread, ServerThread

LEMMA TypeInit == Init => TypeInv
  <1> SUFFICES ASSUME Init PROVE TypeInv
    OBVIOUS
  <1> USE DEF Init, onCreate
  <1>1. intents \in Intents /\ useServer \in BOOLEAN /\ field \in Fields /\ ctx \in Context
    <2>1. <<>> \in Seq(Commands)
      OBVIOUS
    <2>2. intents \in Intents
      BY <2>1, Zero DEF Intents
    <2>3. useServer \in BOOLEAN /\ field \in Fields
      BY Zero DEF Fields
    <2>4. ctx \in Context
      BY DEF Context
    <2> QED BY <2>2, <2>3, <2>4
  <1>2. act \in [Actors -> ActorState] /\ thr \in [Tuns -> ThreadState] /\ TunInv
    BY IdleType DEF TunInv, Idle
  <1> QED BY <1>1, <1>2 DEF TypeInv, TypeOK

LEMMA TypeStep == TypeInv /\ [Next]_vars => TypeInv'
  <1> SUFFICES ASSUME TypeInv, [Next]_vars PROVE TypeInv'
    OBVIOUS
  <1>1. CASE UNCHANGED vars
    BY <1>1 DEF vars, TypeInv, TypeOK, TunInv
  <1> QED BY <1>1, QueueType, StepType, ThreadType DEF Next

\* The fields, the actors, the threads and the context keep their shape, even when
\* stopped server threads and an early onDestroy interfere with a command.
THEOREM TypeCorrect == Spec => []TypeOK
  <1>1. TypeInv => TypeOK
    BY DEF TypeInv
  <1> QED BY <1>1, TypeInit, TypeStep, PTL DEF Spec

-----------------------------------------------------------------------------
(* The inductive invariant *)

\* A server thread ends before the next tunnel is established, and onDestroy comes
\* after the last command.
Orderly == "stale" \notin Faults /\ "early" \notin Faults

\* One thread at a time, which the fields know.
ThreadInv ==
    /\ \A t, u \in Tuns : Alive(t) /\ Alive(u) => t = u
    /\ \A t \in Tuns : Live(t) =>
         field.tunnelThread = t /\ field.vpn = t /\ tun[t] = "open"
    /\ \A t \in Tuns : thr[t].pc = "created" =>
         Command.pc \in {"start_server", "start_tunnel"} /\ Command.tun = t
    /\ \A t \in Tuns : thr[t].forwards => thr[t].pc \in ServerPcs \union {"dead"}

\* The threads that the fields know exist.
FieldInv ==
    /\ \A t \in Tuns : field.tunnelThread = t =>
         Live(t) \/ (Command.pc = "start_tunnel" /\ Command.tun = t)
    /\ \A t \in Tuns : field.vpnServerThread = t =>
         thr[t].pc \in ServerPcs \/ (Command.pc = "start_server" /\ Command.tun = t)

\* A server thread ends with its own descriptor, which is closed by then, or before.
ServerInv ==
    \A t \in Tuns :
       /\ thr[t].pc \in ServerPcs =>
            field.vpn = t \/ (field.vpn = 0 /\ tun[t] = "closed")
       /\ thr[t].pc = "close" => thr[t].vpn = t \/ (thr[t].vpn = 0 /\ tun[t] = "closed")
       /\ thr[t].pc \in {"null", "clear"} => tun[t] = "closed"

\* A descriptor without a thread is new; an open one is in the field or has a thread
\* that closes it.
TunsInv ==
    /\ \A t \in Tuns : tun[t] = "none" => thr[t].pc = "none" /\ field.vpn # t
    /\ \A t \in Tuns : tun[t] = "open" =>
         t = field.vpn \/ thr[t].pc \in ServerPcs \/ thr[t].forwards

\* One actor at a time: onDestroy comes after the last command.
ActorInv ==
    /\ intents.quit => Command.pc = "idle" /\ intents.queue = <<>>
    /\ ~intents.quit => act["main"].pc = "idle"
    /\ act["main"].pc # "idle" => act["main"].op = "destroy"
    /\ act["main"].pc \notin {"establish", "start_native", "create", "start_server", "start_tunnel"}
    /\ Command.pc # "done" /\ Command.op # "destroy"
    /\ \A a \in Actors : act[a].pc \notin {"idle", "check", "establish", "start_native", "create",
                                           "start_server", "start_tunnel"} => act[a].op # "start"
    /\ ctx.freed => intents.quit /\ act["main"].pc = "idle" /\ \A t \in Tuns : ~Live(t)

\* What the actor knows where it is.
CommandInv ==
    /\ Command.pc = "establish" => field.vpn = 0
    /\ Command.pc \in {"start_native", "create"} =>
         /\ field.vpn = Command.tun /\ tun[Command.tun] = "open"
         /\ thr[Command.tun].pc = "none" /\ \A t \in Tuns : ~Alive(t)
    /\ Command.pc \in {"start_server", "start_tunnel"} =>
         /\ Command.tun \in Tuns /\ field.vpn = Command.tun /\ tun[Command.tun] = "open"
         /\ thr[Command.tun].pc = "created"
    /\ Command.pc = "start_server" => field.vpnServerThread = Command.tun
    /\ Command.pc = "start_tunnel" => field.tunnelThread = Command.tun
    /\ \A a \in Actors :
         /\ act[a].pc = "join" => \A t \in Tuns : Live(t) => act[a].thread = t
         /\ act[a].pc \in {"jni_clear", "stop_vpn", "vpn_null", "establish", "done"} =>
              \A t \in Tuns : ~Live(t)
         /\ act[a].pc = "vpn_null" => field.vpn = 0 \/ tun[field.vpn] = "closed"

SInv == ThreadInv /\ FieldInv /\ ServerInv /\ TunsInv /\ ActorInv /\ CommandInv

\* An intent only joins the queue.
LEMMA StartCommandSafe ==
  ASSUME TypeInv, SInv, Orderly, NEW cmd \in Commands, NEW server \in BOOLEAN,
         onStartCommand(cmd, server)
  PROVE  SInv'
  <1>1. /\ field' = field /\ act' = act /\ tun' = tun /\ thr' = thr /\ ctx' = ctx
        /\ ~intents.quit /\ ~intents'.quit
    BY Zero DEF onStartCommand, Intents, TypeInv, TypeOK
  <1> USE Zero DEF SInv, Live, Alive, Command, OtherActs, OtherThreads, ServerPcs, Actors
  <1>2. ThreadInv' /\ FieldInv' /\ ServerInv' /\ TunsInv' /\ ActorInv' /\ CommandInv'
    BY <1>1 DEF ThreadInv, FieldInv, ServerInv, TunsInv, ActorInv, CommandInv
  <1> QED BY <1>2

\* onDestroy finds the command thread idle.
LEMMA DestroySafe ==
  ASSUME TypeInv, SInv, Orderly, onDestroy
  PROVE  SInv'
  <1>1. /\ Command.pc = "idle" /\ ~intents.quit
        /\ intents'.quit /\ intents'.queue = <<>>
        /\ act'["main"].pc = "check" /\ act'["main"].op = "destroy"
        /\ act'["command"] = act["command"]
        /\ field' = field /\ tun' = tun /\ thr' = thr /\ ctx' = ctx
    BY IdleType, Zero DEF onDestroy, Intents, Orderly, Idle, Actors, Command, TypeInv, TypeOK
  <1> USE Zero DEF SInv, Live, Alive, Command, OtherActs, OtherThreads, ServerPcs, Actors
  <1>2. ThreadInv' /\ FieldInv' /\ ServerInv' /\ TunsInv' /\ ActorInv' /\ CommandInv'
    BY <1>1 DEF ThreadInv, FieldInv, ServerInv, TunsInv, ActorInv, CommandInv
  <1> QED BY <1>2

\* jni_done follows the end of the last engine.
LEMMA DoneSafe ==
  ASSUME TypeInv, SInv, Orderly, jni_done
  PROVE  SInv'
  <1>1. /\ act["main"].pc = "done" /\ act'["main"].pc = "idle" /\ act'["command"] = act["command"]
        /\ ctx'.freed
        /\ intents' = intents /\ field' = field /\ tun' = tun /\ thr' = thr
    BY Zero DEF jni_done, Context, Idle, Actors, TypeInv, TypeOK
  <1> USE Zero DEF SInv, Live, Alive, Command, OtherActs, OtherThreads, ServerPcs, Actors
  <1>2. ThreadInv' /\ FieldInv' /\ ServerInv' /\ TunsInv' /\ CommandInv'
    BY <1>1 DEF ThreadInv, FieldInv, ServerInv, TunsInv, CommandInv
  <1>3. ActorInv'
    BY <1>1 DEF ActorInv, CommandInv
  <1> QED BY <1>2, <1>3

\* A command starts when the one before has ended.
LEMMA IntentSafe ==
  ASSUME TypeInv, SInv, Orderly, handleIntent
  PROVE  SInv'
  <1>1. /\ Command.pc = "idle" /\ intents.queue # <<>>
        /\ intents'.quit = intents.quit
        /\ act'["command"].pc \in {"idle", "check"} /\ act'["command"].op # "destroy"
        /\ act'["main"] = act["main"]
        /\ field' = field /\ tun' = tun /\ thr' = thr /\ ctx' = ctx
    <2> DEFINE r == IF Head(intents.queue) = "run" THEN Idle
                    ELSE [Idle EXCEPT !.pc = "check", !.op = Head(intents.queue)]
    <2>1. intents.queue \in Seq(Commands) /\ intents.queue # <<>>
      BY DEF handleIntent, TypeInv, TypeOK, Intents
    <2>2. Head(intents.queue) \in Commands
      BY <2>1
    <2>3. r \in ActorState /\ r.pc \in {"idle", "check"} /\ r.op # "destroy"
      BY <2>2, IdleType DEF Idle, ActorState, Commands
    <2>4. act' = [act EXCEPT !["command"] = r]
      BY DEF handleIntent
    <2>5. intents'.quit = intents.quit
      BY DEF handleIntent, TypeInv, TypeOK, Intents
    <2> HIDE DEF r
    <2> QED BY <2>1, <2>3, <2>4, <2>5, ActSet
            DEF handleIntent, TypeInv, TypeOK, Actors, Command, OtherActs
  <1> USE Zero DEF SInv, Live, Alive, Command, OtherActs, OtherThreads, ServerPcs, Actors
  <1>2. ThreadInv' /\ FieldInv' /\ ServerInv' /\ TunsInv' /\ ActorInv' /\ CommandInv'
    BY <1>1 DEF ThreadInv, FieldInv, ServerInv, TunsInv, ActorInv, CommandInv
  <1> QED BY <1>2

\* A command that finds no tunnel ends, or establishes one.
LEMMA CheckSafe ==
  ASSUME TypeInv, SInv, Orderly, NEW a \in Actors, CheckVpn(a)
  PROVE  SInv'
  <1>1. /\ act[a].pc = "check" /\ OtherActs(a)
        /\ \/ field.vpn = 0 /\ act[a].op \in {"start", "reload"} /\ act'[a].pc = "establish"
              /\ act'[a].op = act[a].op
           \/ a = "main" /\ act'[a].pc = "done" /\ act'[a].op = act[a].op
              /\ (field.vpn = 0 \/ act[a].op = "start")
           \/ a = "command" /\ act'[a].pc = "idle" /\ act'[a].op = "none"
           \/ field.vpn # 0 /\ act[a].op # "start" /\ act'[a].pc = "stop_native"
              /\ act'[a].op = act[a].op
        /\ intents' = intents /\ field' = field /\ tun' = tun /\ thr' = thr /\ ctx' = ctx
    BY GotoFacts, EndedFacts, Zero DEF CheckVpn, ActorPcs, Actors, Idle, TypeInv, TypeOK
  <1> USE Zero DEF SInv, Live, Alive, Command, OtherActs, OtherThreads, ServerPcs, Actors
  <1>2. ThreadInv' /\ FieldInv' /\ ServerInv' /\ TunsInv' /\ ActorInv'
    BY <1>1 DEF ThreadInv, FieldInv, ServerInv, TunsInv, ActorInv
  <1>3. CommandInv'
    BY <1>1 DEF CommandInv, ThreadInv, ActorInv
  <1> QED BY <1>2, <1>3

\* A server thread is forgotten while it ends.
LEMMA StopNativeSafe ==
  ASSUME TypeInv, SInv, Orderly, NEW a \in Actors, stopNative(a)
  PROVE  SInv'
  <1>1. /\ act[a].pc = "stop_native" /\ OtherActs(a) /\ act'[a].op = act[a].op
        /\ \/ field.vpnServerThread # 0 /\ act'[a].pc = "stop_vpn"
           \/ field.vpnServerThread = 0 /\ field.tunnelThread # 0 /\ act'[a].pc = "wakeup"
           \/ field.tunnelThread = 0 /\ act'[a].pc = "stop_vpn"
        /\ field'.vpn = field.vpn /\ field'.tunnelThread = field.tunnelThread
        /\ field'.vpnServerThread \in {0, field.vpnServerThread}
        /\ ctx'.freed = ctx.freed
        /\ intents' = intents /\ tun' = tun /\ thr' = thr
    BY GotoFacts, FieldFacts, Zero DEF stopNative, ActorPcs, Context, TypeInv, TypeOK
  <1>f. /\ \A n \in {field.vpn, field.tunnelThread, field.vpnServerThread} : n # 0 => n \in Tuns
        /\ TunInv
    BY NotNull DEF TypeInv, TypeOK, Fields
  <1> USE Zero DEF SInv, Live, Alive, Command, OtherActs, OtherThreads, ServerPcs, Actors
  <1>2. ThreadInv' /\ FieldInv' /\ ServerInv' /\ TunsInv' /\ ActorInv'
    BY <1>1 DEF ThreadInv, FieldInv, ServerInv, TunsInv, ActorInv
  <1>3. CommandInv'
    BY <1>1, <1>f DEF CommandInv, ThreadInv, FieldInv, ServerInv, TunsInv, ActorInv, TunInv
  <1> QED BY <1>2, <1>3

\* The pipe is not part of the invariant.
LEMMA WakeupSafe ==
  ASSUME TypeInv, SInv, Orderly, NEW a \in Actors, Wakeup(a)
  PROVE  SInv'
  <1>1. /\ act[a].pc = "wakeup" /\ OtherActs(a)
        /\ act'[a].pc = "thread" /\ act'[a].op = act[a].op
        /\ ctx'.freed = ctx.freed
        /\ intents' = intents /\ field' = field /\ tun' = tun /\ thr' = thr
    BY GotoFacts, Zero DEF Wakeup, ActorPcs, Context, TypeInv, TypeOK
  <1> USE Zero DEF SInv, Live, Alive, Command, OtherActs, OtherThreads, ServerPcs, Actors
  <1>2. ThreadInv' /\ FieldInv' /\ ServerInv' /\ TunsInv' /\ ActorInv' /\ CommandInv'
    BY <1>1 DEF ThreadInv, FieldInv, ServerInv, TunsInv, ActorInv, CommandInv
  <1> QED BY <1>2

\* A live engine is the thread in the field.
LEMMA ReadThreadSafe ==
  ASSUME TypeInv, SInv, Orderly, NEW a \in Actors, ReadThread(a)
  PROVE  SInv'
  <1>1. /\ act[a].pc = "thread" /\ OtherActs(a)
        /\ act'[a].pc = "join" /\ act'[a].op = act[a].op
        /\ act'[a].thread = field.tunnelThread
        /\ intents' = intents /\ field' = field /\ tun' = tun /\ thr' = thr /\ ctx' = ctx
    <2> DEFINE r == [act[a] EXCEPT !.pc = "join", !.thread = field.tunnelThread]
    <2>1. act[a] \in ActorState /\ field.tunnelThread \in 0..IntentBound
      BY DEF TypeInv, TypeOK, Fields
    <2>2. /\ r \in ActorState /\ r.pc = "join" /\ r.op = act[a].op
          /\ r.thread = field.tunnelThread
      BY <2>1 DEF ActorState
    <2>3. act' = [act EXCEPT ![a] = r]
      BY DEF ReadThread
    <2> HIDE DEF r
    <2> QED BY <2>2, <2>3, ActSet DEF ReadThread, TypeInv, TypeOK
  <1> USE Zero DEF SInv, Live, Alive, Command, OtherActs, OtherThreads, ServerPcs, Actors
  <1>2. ThreadInv' /\ FieldInv' /\ ServerInv' /\ TunsInv' /\ ActorInv'
    BY <1>1 DEF ThreadInv, FieldInv, ServerInv, TunsInv, ActorInv
  <1>3. CommandInv'
    BY <1>1 DEF CommandInv, ThreadInv
  <1> QED BY <1>2, <1>3

\* When join returns, no engine is live.
LEMMA JoinSafe ==
  ASSUME TypeInv, SInv, Orderly, NEW a \in Actors, join(a)
  PROVE  SInv'
  <1>1. /\ act[a].pc = "join" /\ OtherActs(a) /\ act'[a].op = act[a].op
        /\ act'[a].pc = IF act[a].op = "reload" THEN "stop_vpn" ELSE "jni_clear"
        /\ act[a].thread # 0 => thr[act[a].thread].pc \in {"created", "dead"}
        /\ field'.vpn = field.vpn /\ field'.tunnelThread = 0
        /\ field'.vpnServerThread = field.vpnServerThread
        /\ intents' = intents /\ tun' = tun /\ thr' = thr /\ ctx' = ctx
    BY GotoFacts, FieldFacts, Zero DEF join, ActorPcs, TypeInv, TypeOK
  <1> USE Zero DEF SInv, Live, Alive, Command, OtherActs, OtherThreads, ServerPcs, Actors
  <1>2. FieldInv' /\ ServerInv' /\ TunsInv' /\ ActorInv'
    BY <1>1 DEF FieldInv, ServerInv, TunsInv, ActorInv
  <1>3. ThreadInv'
    BY <1>1 DEF ThreadInv, CommandInv
  <1>4. CommandInv'
    BY <1>1 DEF CommandInv, ActorInv
  <1> QED BY <1>2, <1>3, <1>4

\* jni_clear changes the sessions only.
LEMMA ClearSafe ==
  ASSUME TypeInv, SInv, Orderly, NEW a \in Actors, jni_clear(a)
  PROVE  SInv'
  <1>1. /\ act[a].pc = "jni_clear" /\ OtherActs(a)
        /\ act'[a].pc = "stop_vpn" /\ act'[a].op = act[a].op
        /\ ctx'.freed = ctx.freed
        /\ intents' = intents /\ field' = field /\ tun' = tun /\ thr' = thr
    BY GotoFacts, Zero DEF jni_clear, ActorPcs, Context, TypeInv, TypeOK
  <1> USE Zero DEF SInv, Live, Alive, Command, OtherActs, OtherThreads, ServerPcs, Actors
  <1>2. ThreadInv' /\ FieldInv' /\ ServerInv' /\ TunsInv' /\ ActorInv' /\ CommandInv'
    BY <1>1 DEF ThreadInv, FieldInv, ServerInv, TunsInv, ActorInv, CommandInv
  <1> QED BY <1>2

\* The descriptor is closed when no engine has it.
LEMMA StopVpnSafe ==
  ASSUME TypeInv, SInv, Orderly, NEW a \in Actors, stopVPN(a)
  PROVE  SInv'
  <1>1. /\ act[a].pc = "stop_vpn" /\ OtherActs(a)
        /\ \/ /\ field.vpn = 0 /\ tun' = tun
              /\ a = "main" => act'[a].pc = "done" /\ act'[a].op = act[a].op
              /\ a = "command" => act'[a].pc = "idle" /\ act'[a].op = "none"
           \/ /\ field.vpn \in Tuns /\ tun'[field.vpn] = "closed"
              /\ \A u \in Tuns : u # field.vpn => tun'[u] = tun[u]
              /\ act'[a].pc = "vpn_null" /\ act'[a].op = act[a].op
        /\ intents' = intents /\ field' = field /\ thr' = thr /\ ctx' = ctx
    BY GotoFacts, EndedFacts, TunFacts, NotNull, Zero
    DEF stopVPN, ActorPcs, Fields, Idle, TypeInv, TypeOK
  <1> USE Zero DEF SInv, Live, Alive, Command, OtherActs, OtherThreads, ServerPcs, Actors
  <1>2. FieldInv' /\ ServerInv' /\ TunsInv' /\ ActorInv'
    BY <1>1 DEF FieldInv, ServerInv, TunsInv, ActorInv
  <1>3. ThreadInv'
    BY <1>1 DEF ThreadInv, CommandInv
  <1>4. CommandInv'
    BY <1>1 DEF CommandInv, ActorInv
  <1> QED BY <1>2, <1>3, <1>4

\* The field is cleared when its descriptor is closed.
LEMMA VpnNullSafe ==
  ASSUME TypeInv, SInv, Orderly, NEW a \in Actors, VpnNull(a)
  PROVE  SInv'
  <1>1. /\ act[a].pc = "vpn_null" /\ OtherActs(a)
        /\ \/ act[a].op = "reload" /\ act'[a].pc = "establish" /\ act'[a].op = act[a].op
           \/ a = "main" /\ act'[a].pc = "done" /\ act'[a].op = act[a].op
           \/ a = "command" /\ act'[a].pc = "idle" /\ act'[a].op = "none"
        /\ field'.vpn = 0 /\ field'.tunnelThread = field.tunnelThread
        /\ field'.vpnServerThread = field.vpnServerThread
        /\ intents' = intents /\ tun' = tun /\ thr' = thr /\ ctx' = ctx
    BY GotoFacts, EndedFacts, FieldFacts, Zero
    DEF VpnNull, ActorPcs, Actors, Idle, TypeInv, TypeOK
  <1> USE Zero DEF SInv, Live, Alive, Command, OtherActs, OtherThreads, ServerPcs, Actors
  <1>2. FieldInv' /\ ActorInv' /\ CommandInv'
    BY <1>1 DEF FieldInv, ActorInv, CommandInv
  <1>3. ThreadInv'
    BY <1>1 DEF ThreadInv, CommandInv
  <1>4. ServerInv'
    BY <1>1 DEF ServerInv, CommandInv
  <1>5. TunsInv'
    BY <1>1 DEF TunsInv, CommandInv
  <1> QED BY <1>2, <1>3, <1>4, <1>5

\* The thread of the new descriptor is created while there is no other.
LEMMA StartNativeSafe ==
  ASSUME TypeInv, SInv, Orderly, NEW a \in Actors, startNative(a)
  PROVE  SInv'
  <1>1. /\ act[a].pc = "start_native" /\ OtherActs(a) /\ act[a].tun \in Tuns
        /\ \/ /\ field'.vpnServerThread = act[a].tun /\ field'.vpn = field.vpn
              /\ field'.tunnelThread = field.tunnelThread
              /\ thr'[act[a].tun].pc = "created"
              /\ thr'[act[a].tun].forwards = thr[act[a].tun].forwards /\ OtherThreads(act[a].tun)
              /\ act'[a].pc = "start_server" /\ act'[a].op = act[a].op /\ act'[a].tun = act[a].tun
           \/ /\ act'[a].pc = "create" /\ act'[a].op = act[a].op /\ act'[a].tun = act[a].tun
              /\ field' = field /\ thr' = thr
           \/ /\ field.tunnelThread # 0 /\ field' = field /\ thr' = thr
              /\ a = "main" => act'[a].pc = "done" /\ act'[a].op = act[a].op
              /\ a = "command" => act'[a].pc = "idle" /\ act'[a].op = "none"
        /\ ctx'.freed = ctx.freed
        /\ intents' = intents /\ tun' = tun
    BY GotoFacts, EndedFacts, FieldFacts, ThreadGotoFacts, NotNull, Zero
    DEF startNative, ActorPcs, Fields, Idle, TunInv, Context, ThreadPcs, TypeInv, TypeOK
  <1> USE Zero DEF SInv, Live, Alive, Command, OtherActs, OtherThreads, ServerPcs, Actors
  <1>2. ServerInv' /\ ActorInv'
    BY <1>1 DEF ServerInv, ActorInv
  <1>3. ThreadInv'
    BY <1>1 DEF ThreadInv, CommandInv, ActorInv
  <1>4. FieldInv'
    BY <1>1 DEF FieldInv, CommandInv, ActorInv
  <1>5. TunsInv'
    BY <1>1 DEF TunsInv, CommandInv, ActorInv
  <1>6. CommandInv'
    BY <1>1 DEF CommandInv, ActorInv
  <1> QED BY <1>2, <1>3, <1>4, <1>5, <1>6

\* The same for the thread of the engine, when the field is free.
LEMMA CreateSafe ==
  ASSUME TypeInv, SInv, Orderly, NEW a \in Actors, CreateTunnelThread(a)
  PROVE  SInv'
  <1>1. /\ act[a].pc = "create" /\ OtherActs(a) /\ act[a].tun \in Tuns
        /\ act'[a].pc = "start_tunnel" /\ act'[a].op = act[a].op /\ act'[a].tun = act[a].tun
        /\ field'.tunnelThread = act[a].tun /\ field'.vpn = field.vpn
        /\ field'.vpnServerThread = field.vpnServerThread
        /\ thr'[act[a].tun].pc = "created" /\ OtherThreads(act[a].tun)
        /\ thr'[act[a].tun].forwards = thr[act[a].tun].forwards
        /\ intents' = intents /\ tun' = tun /\ ctx' = ctx
    BY GotoFacts, FieldFacts, ThreadGotoFacts, Zero
    DEF CreateTunnelThread, ActorPcs, TunInv, ThreadPcs, TypeInv, TypeOK
  <1> USE Zero DEF SInv, Live, Alive, Command, OtherActs, OtherThreads, ServerPcs, Actors
  <1>2. ServerInv' /\ ActorInv'
    BY <1>1 DEF ServerInv, ActorInv
  <1>3. ThreadInv'
    BY <1>1 DEF ThreadInv, CommandInv, ActorInv
  <1>4. FieldInv'
    BY <1>1 DEF FieldInv, CommandInv, ActorInv
  <1>5. TunsInv'
    BY <1>1 DEF TunsInv, CommandInv, ActorInv
  <1>6. CommandInv'
    BY <1>1 DEF CommandInv, ActorInv
  <1> QED BY <1>2, <1>3, <1>4, <1>5, <1>6

\* The engine stays live from its start to its exit.
LEMMA RunSafe ==
  ASSUME TypeInv, SInv, Orderly, NEW t \in Tuns, jni_run(t)
  PROVE  SInv'
  <1>1. /\ thr[t].pc = "started" /\ thr'[t].pc = "top"
        /\ thr'[t].forwards = thr[t].forwards /\ OtherThreads(t)
        /\ intents' = intents /\ field' = field /\ act' = act /\ tun' = tun /\ ctx' = ctx
    BY ThreadGotoFacts, Zero DEF jni_run, ThreadPcs, TypeInv, TypeOK
  <1> USE Zero DEF SInv, Live, Alive, Command, OtherActs, OtherThreads, ServerPcs, Actors
  <1>2. ThreadInv' /\ FieldInv' /\ ServerInv' /\ TunsInv' /\ ActorInv' /\ CommandInv'
    BY <1>1 DEF ThreadInv, FieldInv, ServerInv, TunsInv, ActorInv, CommandInv
  <1> QED BY <1>2

\* So it does at the top of its loop,
LEMMA LoopSafe ==
  ASSUME TypeInv, SInv, Orderly, NEW t \in Tuns, LoopTop(t)
  PROVE  SInv'
  <1>1. /\ thr[t].pc = "top" /\ thr'[t].pc \in {"exited", "wait"}
        /\ thr'[t].forwards = thr[t].forwards /\ OtherThreads(t)
        /\ intents' = intents /\ field' = field /\ act' = act /\ tun' = tun /\ ctx' = ctx
    BY ThreadGotoFacts, Zero DEF LoopTop, ThreadPcs, TypeInv, TypeOK
  <1> USE Zero DEF SInv, Live, Alive, Command, OtherActs, OtherThreads, ServerPcs, Actors
  <1>2. ThreadInv' /\ FieldInv' /\ ServerInv' /\ TunsInv' /\ ActorInv' /\ CommandInv'
    BY <1>1 DEF ThreadInv, FieldInv, ServerInv, TunsInv, ActorInv, CommandInv
  <1> QED BY <1>2

\* and when it waits.
LEMMA WaitSafe ==
  ASSUME TypeInv, SInv, Orderly, NEW t \in Tuns, PipeReadable(t) \/ HandleEvents(t) \/ nativeExit(t)
  PROVE  SInv'
  <1>1. /\ thr[t].pc = "wait" /\ thr'[t].pc \in {"top", "exited"}
        /\ thr'[t].forwards = thr[t].forwards /\ OtherThreads(t)
        /\ ctx'.freed = ctx.freed
        /\ intents' = intents /\ field' = field /\ act' = act /\ tun' = tun
    BY ThreadGotoFacts, Zero
    DEF PipeReadable, HandleEvents, nativeExit, ThreadPcs, Context, TypeInv, TypeOK
  <1> USE Zero DEF SInv, Live, Alive, Command, OtherActs, OtherThreads, ServerPcs, Actors
  <1>2. ThreadInv' /\ FieldInv' /\ ServerInv' /\ TunsInv' /\ ActorInv' /\ CommandInv'
    BY <1>1 DEF ThreadInv, FieldInv, ServerInv, TunsInv, ActorInv, CommandInv
  <1> QED BY <1>2

\* The thread clears the field that names it.
LEMMA ExitedSafe ==
  ASSUME TypeInv, SInv, Orderly, NEW t \in Tuns, TunnelExited(t)
  PROVE  SInv'
  <1>1. /\ thr[t].pc = "exited" /\ thr'[t].pc = "dead"
        /\ thr'[t].forwards = thr[t].forwards /\ OtherThreads(t)
        /\ field'.tunnelThread = 0 /\ field'.vpn = field.vpn
        /\ field'.vpnServerThread = field.vpnServerThread
        /\ intents' = intents /\ act' = act /\ tun' = tun /\ ctx' = ctx
    BY ThreadGotoFacts, FieldFacts, Zero DEF TunnelExited, ThreadPcs, TypeInv, TypeOK
  <1> USE Zero DEF SInv, Live, Alive, Command, OtherActs, OtherThreads, ServerPcs, Actors
  <1>2. ThreadInv' /\ FieldInv' /\ ServerInv' /\ TunsInv' /\ ActorInv'
    BY <1>1 DEF ThreadInv, FieldInv, ServerInv, TunsInv, ActorInv
  <1>3. CommandInv'
    BY <1>1 DEF CommandInv, ThreadInv
  <1> QED BY <1>2, <1>3

\* A server thread has its descriptor until it ends.
LEMMA ConnectSafe ==
  ASSUME TypeInv, SInv, Orderly, NEW t \in Tuns, Connect(t) \/ ForwardEnds(t)
  PROVE  SInv'
  <1>1. /\ thr[t].pc \in {"connect", "forward"} /\ thr'[t].pc \in {"forward", "end"} /\ OtherThreads(t)
        /\ intents' = intents /\ field' = field /\ act' = act /\ tun' = tun /\ ctx' = ctx
    <2> DEFINE r == [thr[t] EXCEPT !.pc = "forward", !.forwards = TRUE]
    <2>1. thr[t] \in ThreadState => r \in ThreadState /\ r.pc = "forward"
      BY DEF ThreadState, ServerPcs
    <2>2. thr' = [thr EXCEPT ![t] = r] \/ ThreadGoto(t, "end")
      BY DEF Connect, ForwardEnds
    <2> HIDE DEF r
    <2>3. thr'[t].pc \in {"forward", "end"} /\ OtherThreads(t)
      BY <2>1, <2>2, ThreadSet, ThreadGotoFacts DEF TypeInv, TypeOK, ThreadPcs, ServerPcs
    <2> QED BY <2>3 DEF Connect, ForwardEnds
  <1> USE Zero DEF SInv, Live, Alive, Command, OtherActs, OtherThreads, ServerPcs, Actors
  <1>2. ThreadInv' /\ FieldInv' /\ ServerInv' /\ TunsInv' /\ ActorInv' /\ CommandInv'
    BY <1>1 DEF ThreadInv, FieldInv, ServerInv, TunsInv, ActorInv, CommandInv
  <1> QED BY <1>2

\* A forward closes the descriptor of its own thread.
LEMMA StreamForwardSafe ==
  ASSUME TypeInv, SInv, Orderly, NEW t \in Tuns, StreamForwardEnds(t)
  PROVE  SInv'
  <1>1. /\ thr[t].forwards /\ ~thr'[t].forwards /\ thr'[t].pc = thr[t].pc
        /\ thr'[t].vpn = thr[t].vpn /\ OtherThreads(t)
        /\ tun'[t] = "closed" /\ \A u \in Tuns : u # t => tun'[u] = tun[u]
        /\ intents' = intents /\ field' = field /\ act' = act /\ ctx' = ctx
    BY TunFacts, Zero DEF StreamForwardEnds, ThreadState, OtherThreads, TypeInv, TypeOK
  <1>f. /\ \A n \in {field.vpn, field.tunnelThread, field.vpnServerThread} : n # 0 => n \in Tuns
        /\ TunInv
    BY NotNull DEF TypeInv, TypeOK, Fields
  <1> USE Zero DEF SInv, Live, Alive, Command, OtherActs, OtherThreads, ServerPcs, Actors
  <1>2. ThreadInv' /\ FieldInv' /\ ServerInv' /\ TunsInv' /\ ActorInv'
    BY <1>1 DEF ThreadInv, FieldInv, ServerInv, TunsInv, ActorInv
  <1>3. CommandInv'
    BY <1>1, <1>f DEF CommandInv, ThreadInv, FieldInv, ServerInv, TunsInv, ActorInv, TunInv
  <1> QED BY <1>2, <1>3

\* The field that a server thread reads is its own descriptor, or null.
LEMMA ReadVpnSafe ==
  ASSUME TypeInv, SInv, Orderly, NEW t \in Tuns, ReadVpn(t)
  PROVE  SInv'
  <1>1. /\ thr[t].pc = "end" /\ thr'[t].pc = "close" /\ thr'[t].vpn = field.vpn
        /\ thr'[t].forwards = thr[t].forwards /\ OtherThreads(t)
        /\ intents' = intents /\ field' = field /\ act' = act /\ tun' = tun /\ ctx' = ctx
    BY Zero DEF ReadVpn, ThreadState, OtherThreads, TypeInv, TypeOK
  <1> USE Zero DEF SInv, Live, Alive, Command, OtherActs, OtherThreads, ServerPcs, Actors
  <1>2. ThreadInv' /\ FieldInv' /\ ServerInv' /\ TunsInv' /\ ActorInv' /\ CommandInv'
    BY <1>1 DEF ThreadInv, FieldInv, ServerInv, TunsInv, ActorInv, CommandInv
  <1> QED BY <1>2

\* So it closes no other.
LEMMA CloseVpnSafe ==
  ASSUME TypeInv, SInv, Orderly, NEW t \in Tuns, CloseVpn(t)
  PROVE  SInv'
  <1>1. /\ thr[t].pc = "close" /\ thr'[t].pc = "null"
        /\ thr'[t].forwards = thr[t].forwards /\ OtherThreads(t)
        /\ \/ thr[t].vpn = 0 /\ tun' = tun
           \/ /\ thr[t].vpn \in Tuns /\ tun'[thr[t].vpn] = "closed"
              /\ \A u \in Tuns : u # thr[t].vpn => tun'[u] = tun[u]
        /\ intents' = intents /\ field' = field /\ act' = act /\ ctx' = ctx
    BY ThreadGotoFacts, TunFacts, NotNull, Zero
    DEF CloseVpn, ThreadState, ThreadPcs, ServerPcs, TypeInv, TypeOK
  <1> USE Zero DEF SInv, Live, Alive, Command, OtherActs, OtherThreads, ServerPcs, Actors
  <1>2. ThreadInv' /\ FieldInv' /\ ServerInv' /\ TunsInv' /\ ActorInv'
    BY <1>1 DEF ThreadInv, FieldInv, ServerInv, TunsInv, ActorInv
  <1>3. CommandInv'
    BY <1>1 DEF CommandInv, ThreadInv, ActorInv, FieldInv, ServerInv
  <1> QED BY <1>2, <1>3

\* And it forgets no other.
LEMMA ForgetVpnSafe ==
  ASSUME TypeInv, SInv, Orderly, NEW t \in Tuns, ForgetVpn(t)
  PROVE  SInv'
  <1>1. /\ thr[t].pc = "null" /\ thr'[t].pc = "clear"
        /\ thr'[t].forwards = thr[t].forwards /\ OtherThreads(t)
        /\ field'.vpn = 0 /\ field'.tunnelThread = field.tunnelThread
        /\ field'.vpnServerThread = field.vpnServerThread
        /\ intents' = intents /\ act' = act /\ tun' = tun /\ ctx' = ctx
    BY ThreadGotoFacts, FieldFacts, Zero DEF ForgetVpn, ThreadPcs, ServerPcs, TypeInv, TypeOK
  <1> USE Zero DEF SInv, Live, Alive, Command, OtherActs, OtherThreads, ServerPcs, Actors
  <1>2. ThreadInv' /\ FieldInv' /\ ServerInv' /\ ActorInv'
    BY <1>1 DEF ThreadInv, FieldInv, ServerInv, ActorInv
  <1>3. TunsInv'
    BY <1>1 DEF TunsInv, ServerInv
  <1>4. CommandInv'
    BY <1>1 DEF CommandInv, ThreadInv
  <1> QED BY <1>2, <1>3, <1>4

\* The thread clears the field that may name it, and has closed its descriptor.
LEMMA ServerExitedSafe ==
  ASSUME TypeInv, SInv, Orderly, NEW t \in Tuns, ServerThreadExited(t)
  PROVE  SInv'
  <1>1. /\ thr[t].pc = "clear" /\ thr'[t].pc = "dead"
        /\ thr'[t].forwards = thr[t].forwards /\ OtherThreads(t)
        /\ field'.vpnServerThread = 0 /\ field'.vpn = field.vpn
        /\ field'.tunnelThread = field.tunnelThread
        /\ intents' = intents /\ act' = act /\ tun' = tun /\ ctx' = ctx
    BY ThreadGotoFacts, FieldFacts, Zero
    DEF ServerThreadExited, ThreadPcs, ServerPcs, TypeInv, TypeOK
  <1> USE Zero DEF SInv, Live, Alive, Command, OtherActs, OtherThreads, ServerPcs, Actors
  <1>2. ThreadInv' /\ FieldInv' /\ ServerInv' /\ ActorInv'
    BY <1>1 DEF ThreadInv, FieldInv, ServerInv, ActorInv
  <1>3. TunsInv'
    BY <1>1 DEF TunsInv, ServerInv
  <1>4. CommandInv'
    BY <1>1 DEF CommandInv, ThreadInv
  <1> QED BY <1>2, <1>3, <1>4

\* The next tunnel is established when the threads of the last one have ended.
LEMMA StartVpnSafe ==
  ASSUME TypeInv, SInv, Orderly, NEW a \in Actors, startVPN(a)
  PROVE  SInv'
  <1>1. /\ a = "command" /\ Command.pc = "establish" /\ act'["main"] = act["main"]
        /\ \A t \in Tuns : ~Alive(t)
        /\ intents' = intents /\ thr' = thr /\ ctx' = ctx
    <2>1. a = "command"
      BY DEF SInv, ActorInv, startVPN, Actors
    <2>2. /\ Command.pc = "establish" /\ intents' = intents /\ thr' = thr /\ ctx' = ctx
          /\ \A t \in Tuns : thr[t].pc \notin ServerPcs
      BY <2>1 DEF startVPN, Command, Orderly
    <2>3. \A t \in Tuns : thr[t].pc # "created" /\ ~Live(t)
      BY <2>2 DEF SInv, ThreadInv, CommandInv, Command, Actors
    <2>4. \A t \in Tuns : thr[t].pc \in ThreadPcs
      BY DEF TypeInv, TypeOK, ThreadState, ThreadPcs
    <2>5. \A t \in Tuns : ~Alive(t)
      BY <2>2, <2>3, <2>4 DEF Live, Alive, ThreadPcs
    <2>6. act'["main"] = act["main"]
      BY <2>1, EndedFacts DEF startVPN, TypeInv, TypeOK, OtherActs, Actors
    <2> QED BY <2>1, <2>2, <2>5, <2>6
  <1>2. field.vpn = 0
    BY <1>1 DEF SInv, CommandInv
  <1> USE Zero DEF SInv, Live, Alive, Command, ServerPcs, Actors
  <1>3. CASE field' = [field EXCEPT !.vpn = 0] /\ Ended(a) /\ UNCHANGED tun
    <2>1. /\ act'["command"].pc = "idle" /\ act'["command"].op = "none" /\ tun' = tun
          /\ field'.vpn = 0 /\ field'.tunnelThread = field.tunnelThread
          /\ field'.vpnServerThread = field.vpnServerThread
      BY <1>1, <1>3, EndedFacts, FieldFacts DEF TypeInv, TypeOK, Idle
    <2>2. ThreadInv' /\ FieldInv' /\ ServerInv' /\ TunsInv'
      BY <1>1, <1>2, <2>1 DEF ThreadInv, FieldInv, ServerInv, TunsInv
    <2>3. ActorInv' /\ CommandInv'
      BY <1>1, <1>2, <2>1 DEF ActorInv, CommandInv
    <2> QED BY <2>2, <2>3
  <1>4. ASSUME NEW t \in Tuns, tun[t] = "none", tun' = [tun EXCEPT ![t] = "open"],
               field' = [field EXCEPT !.vpn = t],
               act' = [act EXCEPT ![a] = [@ EXCEPT !.pc = "start_native", !.tun = t]]
        PROVE  SInv'
    <2> DEFINE r == [act[a] EXCEPT !.pc = "start_native", !.tun = t]
    <2>1. act[a] \in ActorState => r \in ActorState /\ r.pc = "start_native" /\ r.tun = t /\ r.op = act[a].op
      BY DEF ActorState
    <2>2. act' = [act EXCEPT ![a] = r]
      BY <1>4
    <2> HIDE DEF r
    <2>3. /\ act'["command"].pc = "start_native" /\ act'["command"].tun = t
          /\ act'["command"].op = act["command"].op
      BY <1>1, <2>1, <2>2, ActSet DEF TypeInv, TypeOK
    <2>4. /\ tun'[t] = "open" /\ \A u \in Tuns : u # t => tun'[u] = tun[u]
          /\ field'.vpn = t /\ field'.tunnelThread = field.tunnelThread
          /\ field'.vpnServerThread = field.vpnServerThread
      BY <1>4, TunFacts, FieldFacts DEF TypeInv, TypeOK
    <2>5. ThreadInv' /\ FieldInv' /\ ServerInv'
      BY <1>1, <1>2, <2>3, <2>4 DEF ThreadInv, FieldInv, ServerInv
    <2>6. TunsInv'
      BY <1>1, <1>2, <2>3, <2>4 DEF TunsInv
    <2>7. ActorInv'
      BY <1>1, <2>3, <2>4 DEF ActorInv
    <2>8. CommandInv'
      BY <1>1, <1>2, <1>4, <2>3, <2>4 DEF CommandInv, TunsInv, ActorInv
    <2> QED BY <2>5, <2>6, <2>7, <2>8
  <1> QED BY <1>3, <1>4 DEF startVPN

\* The thread that is started is the one that was created.
LEMMA StartThreadSafe ==
  ASSUME TypeInv, SInv, Orderly, NEW a \in Actors, StartThread(a)
  PROVE  SInv'
  <1> DEFINE t == Command.tun
  <1>1. /\ a = "command" /\ Command.pc \in {"start_server", "start_tunnel"} /\ t \in Tuns
        /\ Command.pc = "start_server" => field.vpnServerThread = t
        /\ Command.pc = "start_tunnel" => field.tunnelThread = t
    <2>1. a = "command"
      BY DEF SInv, ActorInv, StartThread, Actors
    <2> QED BY <2>1 DEF SInv, CommandInv, StartThread, Command
  <1>2. /\ act'["command"].pc = "idle" /\ act'["command"].op = "none" /\ act'["main"] = act["main"]
        /\ intents' = intents /\ field' = field /\ tun' = tun /\ ctx' = ctx
    BY <1>1, EndedFacts DEF StartThread, TypeInv, TypeOK, Idle, OtherActs, Actors
  <1>3. ThreadGoto(t, IF Command.pc = "start_server" THEN "connect" ELSE "started")
    BY <1>1, Zero DEF StartThread, Command
  <1>4. /\ thr'[t].pc = IF Command.pc = "start_server" THEN "connect" ELSE "started"
        /\ thr'[t].forwards = thr[t].forwards /\ OtherThreads(t)
    BY <1>1, <1>3, ThreadGotoFacts DEF TypeInv, TypeOK, ThreadPcs, ServerPcs
  <1> USE Zero DEF SInv, Live, Alive, Command, OtherThreads, ServerPcs, Actors
  <1>5. ThreadInv'
    BY <1>1, <1>2, <1>4 DEF ThreadInv, CommandInv
  <1>6. FieldInv'
    BY <1>1, <1>2, <1>4 DEF FieldInv, CommandInv
  <1>7. ServerInv' /\ TunsInv'
    BY <1>1, <1>2, <1>4 DEF ServerInv, TunsInv, CommandInv
  <1>8. ActorInv'
    BY <1>1, <1>2, <1>4 DEF ActorInv
  <1>9. CommandInv'
    BY <1>1, <1>2, <1>4 DEF CommandInv, ActorInv
  <1> QED BY <1>5, <1>6, <1>7, <1>8, <1>9

-----------------------------------------------------------------------------
(* Safety *)

IInv == TypeInv /\ SInv

LEMMA InvInit == Init => IInv
  <1> SUFFICES ASSUME Init PROVE IInv
    OBVIOUS
  <1>1. TypeInv
    BY TypeInit
  <1>2. /\ \A t \in Tuns : thr[t].pc = "none" /\ thr[t].forwards = FALSE /\ tun[t] = "none"
        /\ \A a \in Actors : act[a].pc = "idle" /\ act[a].op = "none"
        /\ field.vpn = 0 /\ field.tunnelThread = 0 /\ field.vpnServerThread = 0
        /\ intents.quit = FALSE /\ ctx.freed = FALSE
    BY DEF Init, onCreate, NoThread, Idle
  <1> USE Zero DEF Live, Alive, Command, ServerPcs, Actors
  <1>3. ThreadInv /\ FieldInv /\ ServerInv /\ TunsInv
    BY <1>2 DEF ThreadInv, FieldInv, ServerInv, TunsInv
  <1>4. ActorInv /\ CommandInv
    BY <1>2 DEF ActorInv, CommandInv
  <1> QED BY <1>1, <1>3, <1>4 DEF IInv, SInv

LEMMA InvStep == ASSUME Orderly PROVE IInv /\ [Next]_vars => IInv'
  <1> SUFFICES ASSUME IInv, [Next]_vars PROVE IInv'
    OBVIOUS
  <1>1. TypeInv /\ SInv
    BY DEF IInv
  <1>2. TypeInv'
    BY <1>1, TypeStep
  <1>3. CASE UNCHANGED vars
    <2>1. /\ intents' = intents /\ field' = field /\ act' = act /\ tun' = tun /\ thr' = thr
          /\ ctx' = ctx
      BY <1>3 DEF vars
    <2>2. ThreadInv' /\ FieldInv' /\ ServerInv' /\ TunsInv'
      BY <1>1, <2>1 DEF SInv, ThreadInv, FieldInv, ServerInv, TunsInv, Live, Alive, Command
    <2>3. ActorInv' /\ CommandInv'
      BY <1>1, <2>1 DEF SInv, ActorInv, CommandInv, Live, Alive, Command
    <2> QED BY <1>2, <2>2, <2>3 DEF IInv, SInv
  <1>4. CASE Next
    <2>1. ASSUME NEW a \in Actors, Step(a) PROVE SInv'
      BY <1>1, <2>1, CheckSafe, StopNativeSafe, WakeupSafe, ReadThreadSafe, JoinSafe, ClearSafe,
         StopVpnSafe, VpnNullSafe, StartVpnSafe, StartNativeSafe, CreateSafe, StartThreadSafe
      DEF Step
    <2>2. ASSUME NEW t \in Tuns, TunnelThread(t) PROVE SInv'
      BY <1>1, <2>2, RunSafe, LoopSafe, WaitSafe, ExitedSafe DEF TunnelThread
    <2>3. ASSUME NEW t \in Tuns, ServerThread(t) PROVE SInv'
      BY <1>1, <2>3, ConnectSafe, StreamForwardSafe, ReadVpnSafe, CloseVpnSafe, ForgetVpnSafe,
         ServerExitedSafe
      DEF ServerThread
    <2>4. SInv'
      BY <1>1, <1>4, <2>1, <2>2, <2>3, StartCommandSafe, DestroySafe, DoneSafe, IntentSafe
      DEF Next
    <2> QED BY <1>2, <2>4 DEF IInv
  <1> QED BY <1>3, <1>4

LEMMA Invariant == ASSUME Orderly PROVE Spec => []IInv
  BY InvInit, InvStep, PTL DEF Spec

\* The descriptor of a running engine stays open, and the fields know the engine, so
\* that the next stop finds it: when a server thread ends before the next tunnel is
\* established and onDestroy comes after the last command.  MCServiceStale shows that
\* the first of the two conditions is needed.
THEOREM EngineAlwaysHasTun == Orderly => (Spec => []EngineHasTun)
  <1> SUFFICES ASSUME Orderly PROVE Spec => []EngineHasTun
    OBVIOUS
  <1>1. IInv => EngineHasTun
    BY DEF IInv, SInv, ThreadInv, EngineHasTun, Started, Engine, Live
  <1> QED BY <1>1, Invariant, PTL

\* Between two commands no descriptor is open that nobody will close.
THEOREM TunsAlwaysAccounted == Orderly => (Spec => []TunsAccounted)
  <1> SUFFICES ASSUME Orderly PROVE Spec => []TunsAccounted
    OBVIOUS
  <1>1. IInv => TunsAccounted
    BY DEF IInv, SInv, TunsInv, TunsAccounted
  <1> QED BY <1>1, Invariant, PTL

-----------------------------------------------------------------------------
(* One engine at a time, whatever the environment does *)

\* The command thread was told to quit and has handled its last command.
Retired == intents.quit /\ intents.queue = <<>> /\ Command.pc = "idle"

\* The main thread only stops; it does so after quit has emptied the queue.
MainInv ==
    /\ act["main"].op \in {"none", "destroy"}
    /\ act["main"].pc \notin {"establish", "start_native", "create", "start_server", "start_tunnel"}
    /\ act["main"].pc # "idle" => intents.quit
    /\ intents.quit => intents.queue = <<>>

\* Two live threads would write the same sessions.
OneEngine == \A t, u \in Tuns : Live(t) /\ Live(u) => t = u

\* Whoever may create the next engine knows the live one: the field has it until the
\* command thread is retired, and join waits for it.
KnownInv ==
    \A t \in Tuns : Live(t) =>
       /\ Retired \/ (field.tunnelThread = t /\ Command.pc \notin {"create", "start_tunnel"})
       /\ Command.pc = "join" => Command.thread = t
       /\ act["main"].pc = "join" => Retired \/ act["main"].thread = t

AloneInv == MainInv /\ OneEngine /\ KnownInv

\* A step that starts no thread and leaves the field and the queue alone preserves
\* AloneInv, wherever the actors go that is neither join nor the start of a thread.
LEMMA QuietAlone ==
  ASSUME AloneInv, NEW a \in Actors, OtherActs(a), intents' = intents,
         act'[a].op = act[a].op \/ act'[a] = Idle,
         act[a].pc # "idle",
         act'[a].pc \notin {"join", "create", "start_tunnel"},
         a = "main" => act'[a].pc \notin {"idle", "establish", "start_native", "start_server"},
         \A t \in Tuns : thr'[t].pc = thr[t].pc \/ ~Live(t)',
         \A t \in Tuns : Live(t) /\ Live(t)' => field'.tunnelThread = field.tunnelThread
  PROVE  AloneInv'
  <1> USE DEF Live, Command, Retired, OtherActs, Actors, Idle
  <1>1. MainInv'
    BY DEF AloneInv, MainInv
  <1>2. OneEngine'
    BY DEF AloneInv, OneEngine
  <1>3. KnownInv'
    BY DEF AloneInv, KnownInv
  <1> QED BY <1>1, <1>2, <1>3 DEF AloneInv

\* A step of a thread: the engine it moves was live before, or is not live after.
LEMMA ThreadAlone ==
  ASSUME AloneInv, NEW t \in Tuns, OtherThreads(t), act' = act, intents' = intents,
         Live(t)' => Live(t) /\ field'.tunnelThread = field.tunnelThread,
         field'.tunnelThread # field.tunnelThread => Live(t)
  PROVE  AloneInv'
  <1> USE DEF Live, Command, Retired, OtherThreads
  <1>1. MainInv'
    BY DEF AloneInv, MainInv
  <1>2. OneEngine'
    BY DEF AloneInv, OneEngine
  <1>3. KnownInv'
    BY DEF AloneInv, KnownInv, OneEngine
  <1> QED BY <1>1, <1>2, <1>3 DEF AloneInv

\* The queue and the main thread.
LEMMA QueueAlone ==
  ASSUME TypeInv, AloneInv,
         \/ \E cmd \in Commands, server \in BOOLEAN : onStartCommand(cmd, server)
         \/ onDestroy \/ jni_done \/ handleIntent
  PROVE  AloneInv'
  <1> USE DEF Live, Command, Retired
  <1>0. "main" \in Actors /\ "command" \in Actors /\ act \in [Actors -> ActorState]
    BY DEF TypeInv, TypeOK, Actors
  <1>1. CASE \E cmd \in Commands, server \in BOOLEAN : onStartCommand(cmd, server)
    <2>1. field' = field /\ act' = act /\ thr' = thr /\ ~intents.quit /\ ~intents'.quit
      BY <1>1 DEF onStartCommand, Intents, TypeInv, TypeOK
    <2> QED BY <2>1 DEF AloneInv, MainInv, OneEngine, KnownInv
  <1>2. CASE onDestroy
    <2>1. /\ field' = field /\ thr' = thr /\ intents'.quit /\ intents'.queue = <<>>
          /\ ~intents.quit
      BY <1>2 DEF onDestroy, Intents, TypeInv, TypeOK
    <2>2. act'["main"].pc = "check" /\ act'["main"].op = "destroy" /\ act'["command"] = act["command"]
      BY <1>0, <1>2 DEF onDestroy, Idle
    <2> QED BY <2>1, <2>2 DEF AloneInv, MainInv, OneEngine, KnownInv
  <1>3. CASE jni_done
    <2>1. /\ field' = field /\ thr' = thr /\ intents' = intents
          /\ act'["main"] = Idle /\ act'["command"] = act["command"]
      BY <1>0, <1>3 DEF jni_done
    <2> QED BY <2>1 DEF AloneInv, MainInv, OneEngine, KnownInv, Idle
  <1>4. CASE handleIntent
    <2>1. /\ field' = field /\ thr' = thr /\ intents'.quit = intents.quit
          /\ intents.queue # <<>> /\ act'["main"] = act["main"]
      BY <1>0, <1>4 DEF handleIntent, Intents, TypeInv, TypeOK
    <2>2. act'["command"].pc \in {"idle", "check"}
      BY <1>0, <1>4 DEF handleIntent, Idle
    <2>3. ~intents.quit
      BY <2>1 DEF AloneInv, MainInv
    <2> QED BY <2>1, <2>2, <2>3 DEF AloneInv, MainInv, OneEngine, KnownInv
  <1> QED BY <1>1, <1>2, <1>3, <1>4

\* join returns for a thread that is not live, and the field forgets no other one.
LEMMA JoinAlone ==
  ASSUME TypeInv, AloneInv, NEW a \in Actors, join(a)
  PROVE  AloneInv'
  <1>1. /\ act[a].pc = "join" /\ OtherActs(a) /\ act'[a].op = act[a].op
        /\ act'[a].pc \in {"stop_vpn", "jni_clear"}
        /\ act[a].thread # 0 => thr[act[a].thread].pc \in {"created", "dead"}
        /\ intents' = intents /\ thr' = thr
    BY GotoFacts DEF join, ActorPcs, TypeInv, TypeOK
  <1> USE Zero DEF Live, Command, Retired, OtherActs, Actors
  <1>2. \A t \in Tuns : Live(t) => a = "main" /\ Retired
    BY <1>1 DEF AloneInv, KnownInv
  <1>3. MainInv' /\ OneEngine'
    BY <1>1 DEF AloneInv, MainInv, OneEngine
  <1>4. KnownInv'
    BY <1>1, <1>2 DEF KnownInv
  <1> QED BY <1>3, <1>4 DEF AloneInv

\* stopNative reads the field a second time and joins the thread it finds there.
LEMMA ReadThreadAlone ==
  ASSUME TypeInv, AloneInv, NEW a \in Actors, ReadThread(a)
  PROVE  AloneInv'
  <1> DEFINE r == [act[a] EXCEPT !.pc = "join", !.thread = field.tunnelThread]
  <1>1. act[a] \in ActorState /\ field.tunnelThread \in 0..IntentBound
    BY DEF TypeInv, TypeOK, Fields
  <1>2. r \in ActorState /\ r.pc = "join" /\ r.thread = field.tunnelThread /\ r.op = act[a].op
    BY <1>1 DEF ActorState
  <1>3. act' = [act EXCEPT ![a] = r] /\ act[a].pc = "thread"
    BY DEF ReadThread
  <1> HIDE DEF r
  <1>4. /\ act'[a].pc = "join" /\ act'[a].thread = field.tunnelThread
        /\ act'[a].op = act[a].op /\ OtherActs(a)
    BY <1>2, <1>3, ActSet DEF TypeInv, TypeOK
  <1>5. intents' = intents /\ field' = field /\ thr' = thr
    BY DEF ReadThread
  <1> USE DEF Live, Command, Retired, OtherActs, Actors
  <1>6. MainInv' /\ OneEngine'
    BY <1>3, <1>4, <1>5 DEF AloneInv, MainInv, OneEngine
  <1>7. KnownInv'
    BY <1>3, <1>4, <1>5 DEF AloneInv, KnownInv
  <1> QED BY <1>6, <1>7 DEF AloneInv

\* A thread is created only when the field is null, which means that none is live.
LEMMA CreateAlone ==
  ASSUME TypeInv, AloneInv, NEW a \in Actors,
         startNative(a) \/ CreateTunnelThread(a) \/ StartThread(a)
  PROVE  AloneInv'
  <1>0. a = "command" /\ act \in [Actors -> ActorState] /\ thr \in [Tuns -> ThreadState]
    BY DEF AloneInv, MainInv, startNative, CreateTunnelThread, StartThread, Actors, TypeInv, TypeOK
  <1>1. CASE startNative(a) /\ useServer
    <2>1. /\ act[a].pc = "start_native" /\ act'[a].pc = "start_server"
          /\ act'[a].op = act[a].op /\ OtherActs(a) /\ intents' = intents
      BY <1>0, <1>1, GotoFacts DEF startNative, ActorPcs
    <2>2. act[a].tun \in Tuns
      BY <2>1 DEF TypeInv, TunInv
    <2>3. \A t \in Tuns : thr'[t].pc = thr[t].pc \/ ~Live(t)'
      BY <1>0, <1>1, <2>2, ThreadGotoFacts DEF startNative, ThreadPcs, OtherThreads, Live
    <2>4. field'.tunnelThread = field.tunnelThread
      BY <1>1, <2>2, FieldFacts, Zero DEF startNative, TypeInv, TypeOK
    <2> QED BY <1>0, <2>1, <2>3, <2>4, QuietAlone
  <1>2. CASE startNative(a) /\ ~useServer /\ field.tunnelThread # 0
    <2>1. act[a].pc = "start_native" /\ act'[a] = Idle /\ OtherActs(a)
      BY <1>0, <1>2, EndedFacts DEF startNative
    <2>2. intents' = intents /\ field' = field /\ thr' = thr
      BY <1>2 DEF startNative
    <2> QED BY <1>0, <2>1, <2>2, QuietAlone DEF Idle
  <1>3. CASE startNative(a) /\ ~useServer /\ field.tunnelThread = 0
    <2>1. /\ act[a].pc = "start_native" /\ act'[a].pc = "create"
          /\ act'[a].op = act[a].op /\ OtherActs(a)
      BY <1>0, <1>3, GotoFacts DEF startNative, ActorPcs
    <2>2. intents' = intents /\ field' = field /\ thr' = thr
      BY <1>3 DEF startNative
    <2>3. \A t \in Tuns : ~Live(t)
      BY <1>0, <1>3, <2>1, Zero DEF AloneInv, KnownInv, Retired, Command
    <2> QED BY <1>0, <2>1, <2>2, <2>3
            DEF AloneInv, MainInv, OneEngine, KnownInv, Live, OtherActs, Actors
  <1>4. CASE CreateTunnelThread(a)
    <2>1. /\ act[a].pc = "create" /\ act'[a].pc = "start_tunnel"
          /\ act'[a].op = act[a].op /\ OtherActs(a) /\ intents' = intents
      BY <1>0, <1>4, GotoFacts DEF CreateTunnelThread, ActorPcs
    <2>2. act[a].tun \in Tuns
      BY <2>1 DEF TypeInv, TunInv
    <2>3. \A t \in Tuns : ~Live(t)
      BY <1>0, <2>1 DEF AloneInv, KnownInv, Retired, Command
    <2>4. \A t \in Tuns : ~Live(t)'
      BY <1>0, <1>4, <2>2, <2>3, ThreadGotoFacts DEF CreateTunnelThread, ThreadPcs, OtherThreads, Live
    <2> QED BY <1>0, <2>1, <2>4 DEF AloneInv, MainInv, OneEngine, KnownInv, OtherActs, Actors
  <1>5. CASE StartThread(a) /\ act[a].pc = "start_server"
    <2>1. act'[a] = Idle /\ OtherActs(a) /\ intents' = intents /\ field' = field
      BY <1>0, <1>5, EndedFacts DEF StartThread
    <2>2. field.vpnServerThread # 0 => field.vpnServerThread \in Tuns
      BY NotNull DEF TypeInv, TypeOK, Fields
    <2>3. \A t \in Tuns : thr'[t].pc = thr[t].pc \/ ~Live(t)'
      BY <1>0, <1>5, <2>2, ThreadGotoFacts DEF StartThread, ThreadPcs, ServerPcs, OtherThreads, Live
    <2> QED BY <1>0, <1>5, <2>1, <2>3, QuietAlone DEF Idle
  <1>6. CASE StartThread(a) /\ act[a].pc = "start_tunnel"
    <2>1. act'[a] = Idle /\ OtherActs(a) /\ intents' = intents /\ field' = field
      BY <1>0, <1>6, EndedFacts DEF StartThread
    <2>2. \A t \in Tuns : ~Live(t)
      BY <1>0, <1>6 DEF AloneInv, KnownInv, Retired, Command
    <2>3. field.tunnelThread # 0 => field.tunnelThread \in Tuns
      BY NotNull DEF TypeInv, TypeOK, Fields
    <2>4. \A t \in Tuns : Live(t)' => field.tunnelThread = t
      BY <1>0, <1>6, <2>2, <2>3, ThreadGotoFacts DEF StartThread, ThreadPcs, OtherThreads, Live
    <2>5. act'["command"].pc = "idle" /\ act'["main"] = act["main"]
      BY <1>0, <2>1 DEF Idle, OtherActs, Actors
    <2>6. MainInv' /\ OneEngine'
      BY <2>1, <2>4, <2>5 DEF AloneInv, MainInv, OneEngine
    <2>7. KnownInv'
      BY <2>1, <2>4, <2>5 DEF AloneInv, MainInv, KnownInv, Retired, Command
    <2> QED BY <2>6, <2>7 DEF AloneInv
  <1> QED BY <1>1, <1>2, <1>3, <1>4, <1>5, <1>6 DEF StartThread

\* The other steps of an actor leave the threads and tunnelThread alone.
LEMMA StepAlone ==
  ASSUME TypeInv, AloneInv, NEW a \in Actors, Step(a)
  PROVE  AloneInv'
  <1>0. act \in [Actors -> ActorState] /\ field \in Fields
    BY DEF TypeInv, TypeOK
  <1>1. CASE CheckVpn(a)
    <2>1. /\ act[a].pc = "check" /\ OtherActs(a)
          /\ act'[a].op = act[a].op \/ act'[a] = Idle
          /\ act'[a].pc \in {"establish", "stop_native", "done", "idle"}
          /\ a = "main" => act'[a].pc \in {"stop_native", "done"}
      BY <1>0, <1>1, GotoFacts, EndedFacts DEF CheckVpn, ActorPcs, Idle, Actors, AloneInv, MainInv
    <2>2. intents' = intents /\ field' = field /\ thr' = thr
      BY <1>1 DEF CheckVpn
    <2> QED BY <2>1, <2>2, QuietAlone
  <1>2. CASE stopNative(a)
    <2>1. /\ act[a].pc = "stop_native" /\ OtherActs(a) /\ act'[a].op = act[a].op
          /\ act'[a].pc \in {"stop_vpn", "wakeup"}
      BY <1>0, <1>2, GotoFacts DEF stopNative, ActorPcs
    <2>2. intents' = intents /\ thr' = thr /\ field'.tunnelThread = field.tunnelThread
      BY <1>0, <1>2, FieldFacts, Zero DEF stopNative
    <2> QED BY <2>1, <2>2, QuietAlone
  <1>3. CASE Wakeup(a) \/ jni_clear(a)
    <2>1. /\ act[a].pc # "idle" /\ OtherActs(a) /\ act'[a].op = act[a].op
          /\ act'[a].pc \in {"thread", "stop_vpn"}
      BY <1>0, <1>3, GotoFacts DEF Wakeup, jni_clear, ActorPcs
    <2>2. intents' = intents /\ field' = field /\ thr' = thr
      BY <1>3 DEF Wakeup, jni_clear
    <2> QED BY <2>1, <2>2, QuietAlone
  <1>4. CASE stopVPN(a)
    <2>1. /\ act[a].pc = "stop_vpn" /\ OtherActs(a)
          /\ act'[a].op = act[a].op \/ act'[a] = Idle
          /\ act'[a].pc \in {"vpn_null", "done", "idle"}
          /\ a = "main" => act'[a].pc # "idle"
      BY <1>0, <1>4, GotoFacts, EndedFacts DEF stopVPN, ActorPcs, Idle, Actors
    <2>2. intents' = intents /\ field' = field /\ thr' = thr
      BY <1>4 DEF stopVPN
    <2> QED BY <2>1, <2>2, QuietAlone
  <1>5. CASE VpnNull(a)
    <2>1. /\ act[a].pc = "vpn_null" /\ OtherActs(a)
          /\ act'[a].op = act[a].op \/ act'[a] = Idle
          /\ act'[a].pc \in {"establish", "done", "idle"}
          /\ a = "main" => act'[a].pc = "done"
      BY <1>0, <1>5, GotoFacts, EndedFacts DEF VpnNull, ActorPcs, Idle, Actors, AloneInv, MainInv
    <2>2. intents' = intents /\ thr' = thr /\ field'.tunnelThread = field.tunnelThread
      BY <1>0, <1>5, FieldFacts, Zero DEF VpnNull
    <2> QED BY <2>1, <2>2, QuietAlone
  <1>6. CASE startVPN(a)
    <2>1. act[a].pc = "establish" /\ a = "command"
      BY <1>6 DEF startVPN, AloneInv, MainInv, Actors
    <2>2. intents' = intents /\ thr' = thr
      BY <1>6 DEF startVPN
    <2>3. field'.tunnelThread = field.tunnelThread
      BY <1>0, <1>6, FieldFacts, Zero DEF startVPN
    <2>4. /\ OtherActs(a)
          /\ act'[a].op = act[a].op \/ act'[a] = Idle
          /\ act'[a].pc \in {"start_native", "idle"}
      <3>1. CASE Ended(a)
        BY <1>0, <2>1, <3>1, EndedFacts DEF Idle
      <3>2. ASSUME NEW t \in Tuns,
                   act' = [act EXCEPT ![a] = [@ EXCEPT !.pc = "start_native", !.tun = t]]
            PROVE  OtherActs(a) /\ act'[a].op = act[a].op /\ act'[a].pc = "start_native"
        BY <1>0, <3>2 DEF OtherActs, ActorState
      <3> QED BY <1>6, <3>1, <3>2 DEF startVPN
    <2> QED BY <2>1, <2>2, <2>3, <2>4, QuietAlone
  <1> QED BY <1>1, <1>2, <1>3, <1>4, <1>5, <1>6, JoinAlone, ReadThreadAlone, CreateAlone DEF Step

\* No thread starts itself, and only an engine that ends sets tunnelThread to null.
LEMMA ThreadsAlone ==
  ASSUME TypeInv, AloneInv, NEW t \in Tuns, TunnelThread(t) \/ ServerThread(t)
  PROVE  AloneInv'
  <1>0. thr \in [Tuns -> ThreadState] /\ field \in Fields
    BY DEF TypeInv, TypeOK
  <1>1. CASE jni_run(t) \/ LoopTop(t) \/ PipeReadable(t) \/ HandleEvents(t) \/ nativeExit(t)
    <2>1. OtherThreads(t) /\ Live(t)
      BY <1>0, <1>1, ThreadGotoFacts
      DEF jni_run, LoopTop, PipeReadable, HandleEvents, nativeExit, ThreadPcs, Live
    <2>2. intents' = intents /\ field' = field /\ act' = act
      BY <1>1 DEF jni_run, LoopTop, PipeReadable, HandleEvents, nativeExit
    <2> QED BY <2>1, <2>2, ThreadAlone
  <1>2. CASE TunnelExited(t)
    <2>1. OtherThreads(t) /\ Live(t) /\ ~Live(t)'
      BY <1>0, <1>2, ThreadGotoFacts DEF TunnelExited, ThreadPcs, Live
    <2>2. intents' = intents /\ act' = act
      BY <1>2 DEF TunnelExited
    <2> QED BY <2>1, <2>2, ThreadAlone
  <1>3. CASE ServerThread(t)
    <2>1. OtherThreads(t) /\ (Live(t)' => Live(t))
      <3>1. CASE ForwardEnds(t) \/ CloseVpn(t) \/ ForgetVpn(t) \/ ServerThreadExited(t)
        BY <1>0, <3>1, ThreadGotoFacts
        DEF ForwardEnds, CloseVpn, ForgetVpn, ServerThreadExited, ThreadPcs, ServerPcs, Live
      <3>2. CASE StreamForwardEnds(t) \/ ReadVpn(t)
        <4> DEFINE stopped == [thr[t] EXCEPT !.forwards = FALSE]
                   read == [thr[t] EXCEPT !.pc = "close", !.vpn = field.vpn]
        <4>1. thr[t] \in ThreadState /\ field.vpn \in 0..IntentBound
          BY <1>0 DEF Fields
        <4>2. stopped \in ThreadState /\ stopped.pc = thr[t].pc /\ read \in ThreadState /\ read.pc = "close"
          BY <4>1 DEF ThreadState, ServerPcs
        <4>3. thr' = [thr EXCEPT ![t] = stopped] \/ thr' = [thr EXCEPT ![t] = read]
          BY <3>2 DEF StreamForwardEnds, ReadVpn
        <4> HIDE DEF stopped, read
        <4>4. OtherThreads(t) /\ (thr'[t] = stopped \/ thr'[t] = read)
          BY <1>0, <4>2, <4>3, ThreadSet
        <4> QED BY <4>2, <4>4 DEF Live
      <3>3. CASE Connect(t) /\ ThreadGoto(t, "end")
        BY <1>0, <3>3, ThreadGotoFacts DEF ThreadPcs, ServerPcs, Live
      <3>4. CASE thr' = [thr EXCEPT ![t] = [@ EXCEPT !.pc = "forward", !.forwards = TRUE]]
        BY <1>0, <3>4 DEF Live, OtherThreads, ThreadState
      <3> QED BY <1>3, <3>1, <3>2, <3>3, <3>4 DEF ServerThread, Connect
    <2>2. intents' = intents /\ act' = act
      BY <1>3 DEF ServerThread, Connect, ForwardEnds, StreamForwardEnds, ReadVpn, CloseVpn,
                  ForgetVpn, ServerThreadExited
    <2>3. field'.tunnelThread = field.tunnelThread
      BY <1>0, <1>3, FieldFacts, Zero
      DEF ServerThread, Connect, ForwardEnds, StreamForwardEnds, ReadVpn, CloseVpn, ForgetVpn,
          ServerThreadExited
    <2> QED BY <2>1, <2>2, <2>3, ThreadAlone
  <1> QED BY <1>1, <1>2, <1>3 DEF TunnelThread

LEMMA AloneInit == Init => AloneInv
  <1> SUFFICES ASSUME Init PROVE AloneInv
    OBVIOUS
  <1>1. /\ \A t \in Tuns : thr[t].pc = "none"
        /\ \A a \in Actors : act[a].pc = "idle" /\ act[a].op = "none"
        /\ intents.quit = FALSE
    BY DEF Init, onCreate, NoThread, Idle
  <1> QED BY <1>1 DEF AloneInv, MainInv, OneEngine, KnownInv, Live, Actors

LEMMA AloneStep == TypeInv /\ AloneInv /\ [Next]_vars => AloneInv'
  <1> SUFFICES ASSUME TypeInv, AloneInv, [Next]_vars PROVE AloneInv'
    OBVIOUS
  <1>1. CASE UNCHANGED vars
    BY <1>1 DEF vars, AloneInv, MainInv, OneEngine, KnownInv, Live, Retired, Command
  <1> QED BY <1>1, QueueAlone, StepAlone, ThreadsAlone DEF Next

\* Two engines never work with the sessions of the context at once: not when a stopped
\* server thread closes the tunnel of a later start and forgets the field vpn, and not
\* when onDestroy stops the engine while the command thread starts the next one.  What
\* keeps them apart is tunnelThread, which startNative tests, and not vpn.
THEOREM EngineAlwaysAlone == Spec => []OneEngine
  <1>1. AloneInv => OneEngine
    BY DEF AloneInv
  <1> QED BY <1>1, TypeInit, TypeStep, AloneInit, AloneStep, PTL DEF Spec

=============================================================================
