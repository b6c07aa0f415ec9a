---------------------------- MODULE DebugSession ----------------------------
(***************************************************************************)
(* What the debug server promises, without sockets, hooks or requests: at  *)
(* most one client has a session, the game is held only by the client of   *)
(* the running session, a session is never handed to another client, and   *)
(* the end of a session lets the game go.  An error lets the game go too,  *)
(* but the session it was raised in is not heard from then on.             *)
(***************************************************************************)
CONSTANTS Clients, None

VARIABLES
    session,   \* the client being served, None if there is none
    held,      \* the game waits for that client
    left,      \* clients that have closed their end
    unheard    \* the session is not read any more

sessionVars == <<session, held, left, unheard>>

SessionInit == session = None /\ held = FALSE /\ left = {} /\ unheard = FALSE

Open(c) ==
    /\ session = None
    /\ session' = c
    /\ UNCHANGED <<held, left, unheard>>

Hold ==
    /\ session # None /\ ~held
    /\ held' = TRUE
    /\ UNCHANGED <<session, left, unheard>>

Release ==
    /\ held
    /\ held' = FALSE
    /\ UNCHANGED <<session, left, unheard>>

End ==
    /\ session # None
    /\ session' = None /\ held' = FALSE /\ unheard' = FALSE
    /\ UNCHANGED left

Fail ==
    /\ session # None
    /\ unheard' = TRUE /\ held' = FALSE
    /\ UNCHANGED <<session, left>>

Quit(c) ==
    /\ c \notin left
    /\ left' = left \cup {c}
    /\ UNCHANGED <<session, held, unheard>>

SessionNext == Hold \/ Release \/ End \/ Fail \/ \E c \in Clients : Open(c) \/ Quit(c)

(* A client that is gone does not hold the game for ever, if it was heard. *)
LetGo == (Release \/ End \/ Fail) /\ held /\ session \in left /\ ~unheard

SessionSafety == SessionInit /\ [][SessionNext]_sessionVars
SessionSpec == SessionSafety /\ WF_sessionVars(LetGo)
=============================================================================
