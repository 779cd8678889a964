---------------------------- MODULE SessionPromise ----------------------------
(***************************************************************************)
(* What the session tier promises its clients, without broker, table or    *)
(* reaper: a socket is served by a task of its own session, the sockets of *)
(* a session share one task, and work only starts for a client that is     *)
(* there. SessionFleet implements this.                                    *)
(***************************************************************************)
CONSTANTS Session, Tab, Task, None

VARIABLES
    life,  \* Task -> "none", "up", or "going" once its end was asked for
    of,    \* Task -> the session it was launched for
    doing, \* Task -> does it work?
    on     \* socket -> the task that serves it, or None

promised == <<life, of, doing, on>>

Socket == Session \X Tab

-----------------------------------------------------------------------------
Launch(t, s) ==
    /\ life[t] = "none" /\ \A c \in Socket : on[c] # t
    /\ life' = [life EXCEPT ![t] = "up"]
    /\ of' = [of EXCEPT ![t] = s]
    /\ UNCHANGED <<doing, on>>

\* A socket joins a task of its session, and the task its siblings are on.
Join(c, t) ==
    /\ on[c] = None
    /\ life[t] # "none" /\ of[t] = c[1]
    /\ \A d \in Socket : d[1] = c[1] /\ on[d] # None /\ life[on[d]] = "up"
                         => on[d] = t \/ life[t] = "going"
    /\ on' = [on EXCEPT ![c] = t]
    /\ UNCHANGED <<life, of, doing>>

Connected == {c \in Socket : on[c] # None}

\* Sockets may be lost at any time, all of them when the broker restarts.
Leave(cs) ==
    /\ UNCHANGED <<of, life, doing>>
    /\ on' = [c \in Socket |-> IF c \in cs THEN None ELSE on[c]]

Begin(t) ==
    /\ life[t] # "none" /\ ~doing[t]
    /\ \E c \in Socket : on[c] = t
    /\ doing' = [doing EXCEPT ![t] = TRUE]
    /\ UNCHANGED <<life, of, on>>

Complete(t) ==
    /\ life[t] # "none" /\ doing[t]
    /\ doing' = [doing EXCEPT ![t] = FALSE]
    /\ UNCHANGED <<life, of, on>>

AskToEnd(t) ==
    /\ life[t] = "up"
    /\ life' = [life EXCEPT ![t] = "going"]
    /\ UNCHANGED <<of, doing, on>>

\* A task may end unasked as well: by itself when it is idle, or by a crash.
End(t) ==
    /\ life[t] # "none"
    /\ life' = [life EXCEPT ![t] = "none"]
    /\ of' = [of EXCEPT ![t] = None]
    /\ doing' = [doing EXCEPT ![t] = FALSE]
    /\ UNCHANGED on

-----------------------------------------------------------------------------
Init ==
    /\ life = [t \in Task |-> "none"]
    /\ of = [t \in Task |-> None]
    /\ doing = [t \in Task |-> FALSE]
    /\ on = [c \in Socket |-> None]

Next ==
    \/ \E cs \in SUBSET Connected : Leave(cs)
    \/ \E t \in Task : \/ \E s \in Session : Launch(t, s)
                       \/ \E c \in Socket : Join(c, t)
                       \/ Begin(t) \/ Complete(t) \/ AskToEnd(t) \/ End(t)

Spec == Init /\ [][Next]_promised
=============================================================================
