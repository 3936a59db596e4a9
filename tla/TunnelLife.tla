----------------------------- MODULE TunnelLife -----------------------------
(***************************************************************************)
(* What the native engine relies on the VPN service for.  The sessions of  *)
(* a context (struct context) have one user at a time: the loop of         *)
(* handle_events, or a thread in jni_clear or jni_done, which free them    *)
(* without a lock.  The context is freed once and not used afterwards.     *)
(* VpnService implements this specification; in NetGuardSessions, where    *)
(* the user is always the engine or jni_clear, Start, Stop and clear are   *)
(* Enter, Leave and both.                                                  *)
(***************************************************************************)

CONSTANT Threads

VARIABLES users,  \* the threads that work with the sessions
          kept,   \* does the context have sessions
          freed   \* was the context freed

tunnel == <<users, kept, freed>>

Init == users = {} /\ kept = FALSE /\ freed = FALSE

Enter(t) == users = {} /\ ~freed /\ users' = {t} /\ UNCHANGED <<kept, freed>>

Work == users # {} /\ kept' \in BOOLEAN /\ UNCHANGED <<users, freed>>

Leave == users # {} /\ users' = {} /\ kept' \in BOOLEAN /\ UNCHANGED freed

Free == users # {} /\ users' = {} /\ kept' = FALSE /\ freed' = TRUE

Next == (\E t \in Threads : Enter(t)) \/ Work \/ Leave \/ Free

Spec == Init /\ [][Next]_tunnel

=============================================================================
