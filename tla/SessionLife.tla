---------------------------- MODULE SessionLife ----------------------------
(***************************************************************************)
(* What the session table of the engine relies on, for one entry: the      *)
(* abstract life of a session (struct ng_session) and its socket.  The     *)
(* loop of handle_events counts the active entries, the handlers of a      *)
(* protocol close them, and only the session check closes the last socket  *)
(* and frees the memory.  NetGuardTcp implements this specification (its   *)
(* states before CLOSING are one phase here), and NetGuardSessions         *)
(* composes many entries that follow it.                                   *)
(***************************************************************************)

VARIABLES phase,  \* "none", "active", "closing", "closed" or "blocked"
          sock    \* does the entry own an open socket

life == <<phase, sock>>

Init == phase = "none" /\ sock = FALSE

\* A packet of the app for which there is no session; sending it on may fail.
Open == phase = "none" /\ phase' \in {"active", "closing"} /\ sock' = TRUE

\* A packet that is not allowed: UDP remembers the flow, without a socket.
Block == phase = "none" /\ phase' = "blocked" /\ UNCHANGED sock

\* The socket reported its end: it is closed by its own event.
SocketEnds ==
    /\ phase = "active" /\ sock
    /\ phase' \in {"active", "closing"} /\ sock' = FALSE

\* An error, a reset, a timeout: the next check will close the socket.
Terminate == phase = "active" /\ phase' = "closing" /\ UNCHANGED sock

\* Both directions were closed one after the other.
Finish == phase = "active" /\ ~sock /\ phase' = "closed" /\ UNCHANGED sock

\* The check closes the socket of what is closing, or just timed out.
Close == phase \in {"active", "closing"} /\ phase' = "closed" /\ sock' = FALSE

\* The check frees what was closed or blocked long enough ago.
Free == phase \in {"closed", "blocked"} /\ ~sock /\ phase' = "none" /\ UNCHANGED sock

\* The tunnel is stopped: every socket is closed, every entry freed.  The check
\* does the same to an ICMP session that timed out.
Clear == phase # "none" /\ phase' = "none" /\ sock' = FALSE

Next == \/ Open \/ Block \/ SocketEnds \/ Terminate \/ Finish \/ Close \/ Free \/ Clear

Spec == Init /\ [][Next]_life

=============================================================================
