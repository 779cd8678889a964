------------------------------ MODULE ClientSocket ------------------------------
(***************************************************************************)
(* The web client's end of the connection (GraceWs): one object that opens *)
(* a socket after another, keeps the last one alive, and buffers what the  *)
(* user does while there is none. JavaScript runs one callback at a time,  *)
(* so a step is one callback; a socket the object has let go of still has  *)
(* its callbacks.                                                          *)
(***************************************************************************)
EXTENDS Naturals, Sequences, SequencesExt

CONSTANTS
    Socket,    \* the sockets that exist at the same time: a bound
    Intent,    \* what the user does: selects, messages, cancels: a bound
    None,
    MaxQueue,  \* MAX_QUEUE
    MaxTimers, MaxRefreshes  \* reconnect timers and token refreshes at a time: bounds

VARIABLES
    net,         \* Socket -> its readyState; "zombie" is OPEN but dead
    token,       \* the sockets whose open handler awaits the id token
    first,       \* Socket -> the first frame sent on it: "auth", "other", None
    refused,     \* the sockets on which the gate said AUTH_FAILED
    current,     \* this.socket
    timers,      \* how many reconnect timers are pending
    held,        \* this.reconnectTimer # null
    keepalive,   \* this.keepaliveTimer # null
    pong,        \* this.pongDeadlineTimer # null
    closed,      \* closedByUser
    failed,      \* authFailed
    tried,       \* authRefreshAttempted
    refreshes,   \* pending awaits in handleAuthFailure
    expired,     \* onAuthExpired was called and nothing was opened since
    queue,       \* outboundQueue
    sent         \* Intent -> how often it was handed to a socket

sockets == <<net, token, first, refused>>
flags == <<closed, failed, tried, refreshes, expired>>
clocks == <<timers, held, keepalive, pong>>
intents == <<queue, sent>>
vars == <<sockets, current, clocks, flags, intents>>

SocketAssumption ==
    {MaxQueue, MaxTimers, MaxRefreshes} \subseteq Nat \ {0} /\ None \notin Socket

IsOpen(s) == s # None /\ net[s] \in {"open", "zombie"}

\* A socket whose callbacks are all through.
Unused(s) == net[s] = "free" /\ s \notin token

-----------------------------------------------------------------------------
(* Opening                                                                  *)

\* stale.close(): the close event comes later. What is closed already stays so.
Closing(stale) ==
    [s \in Socket |-> IF s = stale /\ net[s] \in {"connecting", "open", "zombie"}
                      THEN "closing" ELSE net[s]]

\* The constructor returns. A socket that is still there is neither closed nor
\* waited for.
Constructed(states) ==
    \E s \in Socket :
        /\ Unused(s)
        /\ net' = [states EXCEPT ![s] = "connecting"]
        /\ first' = [first EXCEPT ![s] = None]
        /\ refused' = refused \ {s}
        /\ current' = s
        /\ expired' = FALSE
        /\ UNCHANGED token

\* The constructor throws: scheduleReconnect, with whatever socket was left.
Throws(states, left, pending) ==
    /\ net' = states
    /\ current' = left
    /\ pending < MaxTimers
    /\ timers' = pending + 1 /\ held' = TRUE
    /\ UNCHANGED <<token, first, refused, expired>>

\* openSocket. A pending reconnect timer goes on.
OpenSocket(states, left) ==
    \/ Constructed(states) /\ UNCHANGED <<timers, held>>
    \/ Throws(states, left, timers)

\* connect
Connect(states, left) ==
    /\ closed' = FALSE
    /\ failed' = FALSE /\ tried' = FALSE
    /\ OpenSocket(states, left)
    /\ UNCHANGED <<refreshes, intents>>

\* The user wakes a paused session, or signs in again.
WakeOrSignIn ==
    /\ closed \/ expired
    /\ Connect(net, current)
    /\ UNCHANGED <<keepalive, pong>>

\* The tab becomes visible and the socket is not OPEN. forceReconnect (mobile)
\* drops a socket that is still connecting, reconnect (desktop) leaves it.
BecomeVisible ==
    /\ ~closed /\ ~IsOpen(current)
    /\ Connect(Closing(current), None)
    /\ UNCHANGED <<keepalive, pong>>

ReconnectTimer ==
    /\ timers > 0
    /\ \/ Constructed(net) /\ timers' = timers - 1 /\ held' = FALSE
       \/ Throws(net, current, timers - 1)
    /\ UNCHANGED <<keepalive, pong, closed, failed, tried, refreshes, intents>>

\* The connect-attempt timeout: the close handler goes on from there.
ConnectTimeout ==
    /\ current # None /\ net[current] = "connecting"
    /\ net' = Closing(current)
    /\ UNCHANGED <<token, first, refused, current, clocks, flags, intents>>

-----------------------------------------------------------------------------
(* An open socket                                                           *)

\* The first frame of a socket is what the auth gate looks at.
Speaks(s, frame) == first' = [first EXCEPT ![s] = IF @ = None THEN frame ELSE @]

Opened(s) ==
    /\ net[s] = "connecting"
    /\ net' = [net EXCEPT ![s] = "open"]
    /\ token' = token \cup {s}
    /\ keepalive' = TRUE /\ pong' = FALSE
    /\ UNCHANGED <<first, refused, current, timers, held, flags, intents>>

\* Mutant: the buffer is sent and kept.
SentAndKept == UNCHANGED queue

SentAndEmptied == queue' = <<>>

Flush ==
    /\ sent' = [i \in Intent |-> IF i \in ToSet(queue) THEN sent[i] + 1 ELSE sent[i]]
    /\ SentAndEmptied

\* The open handler of s after its await: auth-token goes out on the socket that
\* is current now; session-resume and the buffer only if that is still s.
TokenArrives(s) ==
    /\ s \in token
    /\ token' = token \ {s}
    /\ IF IsOpen(current) THEN Speaks(current, "auth") ELSE UNCHANGED first
    /\ IF current = s /\ IsOpen(s) THEN Flush ELSE UNCHANGED intents
    /\ UNCHANGED <<net, refused, current, clocks, flags>>

\* sendOrQueue. Over the cap the oldest is lost.
Act(i) ==
    /\ sent[i] = 0 /\ i \notin ToSet(queue)
    /\ IF IsOpen(current)
       THEN /\ Speaks(current, "other")
            /\ sent' = [sent EXCEPT ![i] = 1]
            /\ UNCHANGED queue
       ELSE /\ queue' = Append(IF Len(queue) < MaxQueue THEN queue ELSE Tail(queue), i)
            /\ UNCHANGED <<sent, first>>
    /\ UNCHANGED <<net, token, refused, current, clocks, flags>>

\* The tab becomes visible and the socket is OPEN: requestSessionState.
PullState ==
    /\ ~closed /\ IsOpen(current)
    /\ Speaks(current, "other")
    /\ UNCHANGED <<net, token, refused, current, clocks, flags, intents>>

\* Mutant: a ping is sent and its answer is not missed.
NoDeadline == UNCHANGED pong

DeadlineArmed == pong' = TRUE

KeepalivePing ==
    /\ keepalive /\ IsOpen(current) /\ ~pong
    /\ Speaks(current, "other")
    /\ DeadlineArmed
    /\ UNCHANGED <<net, token, refused, current, timers, held, keepalive, flags, intents>>

\* A frame arrives: on any socket it counts as a sign of life.
Inbound(s) ==
    /\ net[s] = "open" /\ pong
    /\ pong' = FALSE
    /\ UNCHANGED <<sockets, current, timers, held, keepalive, flags, intents>>

\* No frame for too long: forceReconnect, unless closed or rejected.
PongTimeout ==
    /\ pong
    /\ pong' = FALSE
    /\ IF closed \/ failed
       THEN UNCHANGED <<sockets, current, timers, held, flags, intents>>
       ELSE Connect(Closing(current), None)
    /\ UNCHANGED keepalive

\* The phone or a proxy cuts the connection without a close event.
GoesZombie(s) ==
    /\ net[s] = "open"
    /\ net' = [net EXCEPT ![s] = "zombie"]
    /\ UNCHANGED <<token, first, refused, current, clocks, flags, intents>>

\* The gate rejects the credential, or a first frame that is none: the error
\* frame latches authFailed, then the socket is closed with 4401.
GateRefuses(s) ==
    /\ net[s] = "open" /\ first[s] # None /\ s \notin refused
    /\ refused' = refused \cup {s}
    /\ failed' = TRUE
    /\ pong' = FALSE
    /\ UNCHANGED <<net, token, first, current, timers, held, keepalive, closed, tried,
                   refreshes, expired, intents>>

-----------------------------------------------------------------------------
(* Closing                                                                  *)

\* clearTimeout(this.reconnectTimer): a timer whose handle was overwritten goes on.
TimerCleared ==
    /\ timers' = IF held THEN timers - 1 ELSE timers
    /\ held' = FALSE

\* scheduleReconnect: the handle of a timer that is pending is overwritten.
ScheduleReconnect ==
    /\ timers < MaxTimers
    /\ timers' = timers + 1 /\ held' = TRUE
    /\ UNCHANGED <<failed, tried, refreshes, expired>>

\* Mutant: the second rejection is not surfaced.
GivesUpSilently == UNCHANGED expired

Surfaces == expired' = TRUE

\* handleAuthFailure: one refresh of the token, then the user is asked to sign in.
HandleAuthFailure ==
    /\ failed' = TRUE
    /\ TimerCleared
    /\ \/ /\ ~tried /\ refreshes < MaxRefreshes
          /\ tried' = TRUE
          /\ refreshes' = refreshes + 1
          /\ UNCHANGED expired
       \/ /\ tried
          /\ Surfaces
          /\ UNCHANGED <<tried, refreshes>>

\* The identity guard of the close handler.
Ours(s) == current \in {None, s}

\* The close event of s.
CloseEvent(s) ==
    /\ net[s] # "free"
    /\ net' = [net EXCEPT ![s] = "free"]
    /\ IF Ours(s)
       THEN /\ current' = None
            /\ keepalive' = FALSE /\ pong' = FALSE
            /\ IF closed THEN UNCHANGED <<timers, held, failed, tried, refreshes, expired>>
               ELSE IF s \in refused \/ failed THEN HandleAuthFailure
               ELSE ScheduleReconnect
       ELSE UNCHANGED <<current, clocks, failed, tried, refreshes, expired>>
    /\ UNCHANGED <<token, first, refused, closed, intents>>

\* The refresh returns with a fresh token, or without one. Nobody looks whether
\* the session was closed or reconnected meanwhile.
FreshToken ==
    /\ refreshes > 0
    /\ refreshes' = refreshes - 1
    /\ failed' = FALSE
    /\ OpenSocket(net, current)
    /\ UNCHANGED <<keepalive, pong, closed, tried, intents>>

NoFreshToken ==
    /\ refreshes > 0
    /\ refreshes' = refreshes - 1
    /\ expired' = TRUE
    /\ UNCHANGED <<sockets, current, clocks, closed, failed, tried, intents>>

\* close: the user puts the session to sleep. The buffer is dropped.
PauseSession ==
    /\ ~closed
    /\ closed' = TRUE
    /\ queue' = <<>>
    /\ keepalive' = FALSE /\ pong' = FALSE
    /\ TimerCleared
    /\ net' = Closing(current)
    /\ current' = None
    /\ UNCHANGED <<token, first, refused, failed, tried, refreshes, expired, sent>>

-----------------------------------------------------------------------------
\* The first connect() was just called.
Init ==
    /\ \E s \in Socket :
          /\ current = s
          /\ net = [r \in Socket |-> IF r = s THEN "connecting" ELSE "free"]
    /\ token = {} /\ refused = {}
    /\ first = [s \in Socket |-> None]
    /\ timers = 0 /\ held = FALSE /\ keepalive = FALSE /\ pong = FALSE
    /\ closed = FALSE /\ failed = FALSE /\ tried = FALSE
    /\ refreshes = 0 /\ expired = FALSE
    /\ queue = <<>>
    /\ sent = [i \in Intent |-> 0]

Next ==
    \/ WakeOrSignIn \/ BecomeVisible \/ ReconnectTimer \/ ConnectTimeout
    \/ PullState \/ KeepalivePing \/ PongTimeout
    \/ FreshToken \/ NoFreshToken \/ PauseSession
    \/ \E s \in Socket : \/ Opened(s) \/ TokenArrives(s) \/ Inbound(s)
                         \/ GoesZombie(s) \/ GateRefuses(s) \/ CloseEvent(s)
    \/ \E i \in Intent : Act(i)

Spec == Init /\ [][Next]_vars

\* Timers fire, a getIdToken ends, and a socket that is closing, or does not get
\* through, is closed. The network, the server and the user are free.
Clock == KeepalivePing \/ PongTimeout
CloseEnds == \E s \in Socket : net[s] \in {"closing", "connecting"} /\ CloseEvent(s)
TokenEnds == \E s \in Socket : TokenArrives(s)

FairSpec == Spec /\ WF_vars(Clock) /\ WF_vars(CloseEnds) /\ WF_vars(TokenEnds)

-----------------------------------------------------------------------------
\* Types. The handle of a reconnect timer stands for one that is pending.
TypeOK ==
    /\ net \in [Socket -> {"free", "connecting", "open", "zombie", "closing"}]
    /\ token \subseteq Socket /\ refused \subseteq Socket
    /\ first \in [Socket -> {"auth", "other", None}]
    /\ current \in Socket \cup {None}
    /\ timers \in 0..MaxTimers /\ refreshes \in 0..MaxRefreshes
    /\ held \in BOOLEAN /\ (held => timers > 0)
    /\ {keepalive, pong, closed, failed, tried, expired} \subseteq BOOLEAN
    /\ queue \in Seq(Intent) /\ Len(queue) <= MaxQueue
    /\ sent \in [Intent -> Nat]

\* The client never gives up by itself: a session that the user has not closed has
\* a socket, a timer that will open one or a token on its way, or the user has
\* been asked to sign in.
NotStranded == closed \/ expired \/ timers > 0 \/ refreshes > 0
               \/ (current # None /\ net[current] # "free")

LateCloseLeavesFresh ==
    \A s \in Socket : net[s] = "closing" /\ net'[s] = "free" /\ current \notin {None, s}
                      => current' = current /\ keepalive' = keepalive /\ timers' = timers

\* The close of a socket that was replaced, however late it comes, takes nothing
\* from the one that replaced it ("it can't null out the FRESH socket").
StaleCloseHarmless == [][LateCloseLeavesFresh]_vars

\* What the user does is handed to a socket once at most, over any number of
\* reconnects: what the flush has sent is not sent again on the next socket.
HandedOnce ==
    /\ IsInjective(queue)
    /\ \A i \in Intent : sent[i] <= 1 /\ (i \in ToSet(queue) => sent[i] = 0)

\* A dead socket that still reports OPEN is noticed: it does not stay the current
\* one for good, unless another socket comes whose frames are taken for its own.
DeadCurrent ==
    /\ ~closed /\ ~failed /\ current # None /\ net[current] = "zombie"
    /\ \A s \in Socket \ {current} : Unused(s)
ZombieReplaced == DeadCurrent ~> ~DeadCurrent

\* The comment at the open handler: "`auth-token` MUST be the FIRST envelope on
\* every connection".
AuthFirst == \A s \in Socket : first[s] # "other"
=============================================================================
