-------------------------- MODULE ClientSocketProofs --------------------------
(***************************************************************************)
(* Lemmas about the web client's end of the connection, for any number of  *)
(* sockets and intents and any length of its queue. ClientInv says that    *)
(* the client has something that will reconnect it, and that the buffer    *)
(* and what was handed to a socket do not overlap.                         *)
(***************************************************************************)
EXTENDS ClientSocket, TLAPS

LEMMA AppendedOnce ==
    ASSUME NEW S, NEW q \in Seq(S), NEW i \in S, IsInjective(q), i \notin ToSet(q)
    PROVE  /\ IsInjective(Append(q, i))
           /\ ToSet(Append(q, i)) = ToSet(q) \cup {i}
           /\ Append(q, i) \in Seq(S) /\ Len(Append(q, i)) = Len(q) + 1
BY DEF IsInjective, ToSet

LEMMA OldestLost ==
    ASSUME NEW S, NEW q \in Seq(S), IsInjective(q), Len(q) > 0
    PROVE  /\ IsInjective(Tail(q)) /\ ToSet(Tail(q)) \subseteq ToSet(q)
           /\ Tail(q) \in Seq(S) /\ Len(Tail(q)) = Len(q) - 1
BY DEF IsInjective, ToSet

NetState == {"free", "connecting", "open", "zombie", "closing"}

\* What the user did, in the buffer or on its way.
IntentsOK ==
    /\ queue \in Seq(Intent) /\ Len(queue) <= MaxQueue
    /\ sent \in [Intent -> Nat]
    /\ HandedOnce

SocketsOK ==
    /\ net \in [Socket -> NetState]
    /\ token \subseteq Socket /\ refused \subseteq Socket
    /\ first \in [Socket -> {"auth", "other", None}]
    /\ current \in Socket \cup {None}

TimersOK ==
    /\ timers \in 0..MaxTimers /\ refreshes \in 0..MaxRefreshes
    /\ held \in BOOLEAN /\ (held => timers > 0)
    /\ keepalive \in BOOLEAN /\ pong \in BOOLEAN /\ closed \in BOOLEAN
    /\ failed \in BOOLEAN /\ tried \in BOOLEAN /\ expired \in BOOLEAN

ClientInv == SocketsOK /\ TimersOK /\ IntentsOK /\ NotStranded

LEMMA ClientBounds ==
    ASSUME SocketAssumption
    PROVE  MaxQueue \in Nat /\ MaxTimers \in Nat /\ MaxRefreshes \in Nat /\ None \notin Socket
<1>1. MaxQueue \in {MaxQueue, MaxTimers, MaxRefreshes}
      /\ MaxTimers \in {MaxQueue, MaxTimers, MaxRefreshes}
      /\ MaxRefreshes \in {MaxQueue, MaxTimers, MaxRefreshes}
  OBVIOUS
<1> QED
  BY <1>1 DEF SocketAssumption

LEMMA ClientInit == SocketAssumption /\ Init => ClientInv
<1> SUFFICES ASSUME SocketAssumption, Init PROVE ClientInv
  OBVIOUS
<1>1. SocketsOK /\ NotStranded
  BY DEF SocketAssumption, Init, SocketsOK, NotStranded, NetState
<1>3. TimersOK
  <2>1. timers = 0 /\ refreshes = 0 /\ held = FALSE
        /\ timers \in 0..MaxTimers /\ refreshes \in 0..MaxRefreshes
    BY ClientBounds DEF Init
  <2> QED
    BY <2>1, Zenon DEF Init, TimersOK
<1>2. IntentsOK
  BY DEF SocketAssumption, Init, IntentsOK, HandedOnce, IsInjective, ToSet
<1> QED
  BY <1>1, <1>2, <1>3 DEF ClientInv

LEMMA IntentsStep ==
    ASSUME SocketAssumption, ClientInv, Next
    PROVE  IntentsOK'
<1> USE DEF ClientInv
<1>1. CASE UNCHANGED <<queue, sent>>
  BY <1>1 DEF IntentsOK, HandedOnce, IsInjective, ToSet
<1>2. CASE PauseSession
  BY <1>2 DEF PauseSession, IntentsOK, HandedOnce, IsInjective, ToSet,
    SocketAssumption
<1>3. CASE Flush
  BY <1>3 DEF Flush, SentAndEmptied, IntentsOK, HandedOnce, IsInjective, ToSet,
    SocketAssumption
<1>4. ASSUME NEW i \in Intent, Act(i) PROVE IntentsOK'
  <2>1. sent[i] = 0 /\ i \notin ToSet(queue)
    BY <1>4 DEF Act
  <2>2. CASE queue' = queue /\ sent' = [sent EXCEPT ![i] = 1]
    BY <2>1, <2>2 DEF IntentsOK, HandedOnce
  <2>3. CASE /\ sent' = sent
             /\ queue' = Append(IF Len(queue) < MaxQueue THEN queue ELSE Tail(queue), i)
    <3> DEFINE q == IF Len(queue) < MaxQueue THEN queue ELSE Tail(queue)
    <3>1. /\ q \in Seq(Intent) /\ IsInjective(q) /\ ToSet(q) \subseteq ToSet(queue)
          /\ Len(q) + 1 <= MaxQueue
      <4>1. CASE Len(queue) < MaxQueue
        BY <4>1 DEF IntentsOK, HandedOnce, SocketAssumption
      <4>2. CASE ~(Len(queue) < MaxQueue)
        BY <4>2, OldestLost DEF IntentsOK, HandedOnce, SocketAssumption
      <4> QED
        BY <4>1, <4>2
    <3>2. queue' = Append(q, i)
      BY <2>3
    <3> HIDE DEF q
    <3>3. /\ IsInjective(queue') /\ ToSet(queue') = ToSet(q) \cup {i}
          /\ queue' \in Seq(Intent) /\ Len(queue') <= MaxQueue
      BY <2>1, <3>1, <3>2, AppendedOnce
    <3> QED
      BY <2>1, <2>3, <3>1, <3>3 DEF IntentsOK, HandedOnce
  <2> QED
    BY <1>4, <2>2, <2>3 DEF Act
<1>5. \/ UNCHANGED <<queue, sent>> \/ PauseSession \/ Flush \/ \E i \in Intent : Act(i)
  BY DEF Next, WakeOrSignIn, BecomeVisible, ReconnectTimer, ConnectTimeout,
    PullState, KeepalivePing, PongTimeout, FreshToken, NoFreshToken, Opened,
    TokenArrives, Inbound, GoesZombie, GateRefuses, CloseEvent, Connect,
    intents
<1> QED
  BY <1>1, <1>2, <1>3, <1>4, <1>5

-----------------------------------------------------------------------------
LEMMA SocketOpens ==
    ASSUME SocketsOK, NEW states \in [Socket -> NetState], Constructed(states), None \notin Socket
    PROVE  /\ SocketsOK' /\ current' # None /\ net'[current'] = "connecting" /\ expired' = FALSE
BY DEF SocketsOK, Constructed, NetState

LEMMA OpeningThrows ==
    ASSUME SocketAssumption, SocketsOK, TimersOK, NEW states \in [Socket -> NetState],
           NEW left \in {current, None}, NEW pending \in 0..MaxTimers,
           Throws(states, left, pending)
    PROVE  /\ SocketsOK' /\ expired' = expired
           /\ timers' \in 0..MaxTimers /\ timers' > 0 /\ held' = TRUE
BY ClientBounds DEF SocketsOK, Throws, NetState

LEMMA ClosingType ==
    ASSUME SocketsOK, NEW s
    PROVE  /\ Closing(s) \in [Socket -> NetState]
           /\ \A r \in Socket : Closing(s)[r] = "free" <=> net[r] = "free"
BY DEF SocketsOK, Closing, NetState

\* The steps that open a socket.
LEMMA ClientOpens ==
    ASSUME SocketAssumption, ClientInv,
           \/ WakeOrSignIn \/ BecomeVisible \/ ReconnectTimer \/ FreshToken
           \/ PongTimeout /\ ~closed /\ ~failed
    PROVE  SocketsOK' /\ TimersOK' /\ NotStranded'
<1> USE DEF ClientInv
<1>0. timers \in 0..MaxTimers /\ (timers > 0 => timers - 1 \in 0..MaxTimers)
  BY ClientBounds DEF TimersOK
<1>1. PICK states \in [Socket -> NetState], left \in {current, None}, pending \in 0..MaxTimers :
        \/ Constructed(states) /\ UNCHANGED <<timers, held>>
        \/ Constructed(states) /\ timers > 0 /\ timers' = timers - 1 /\ held' = FALSE
        \/ Throws(states, left, pending)
  <2>1. net \in [Socket -> NetState] /\ Closing(current) \in [Socket -> NetState]
    BY ClosingType DEF SocketsOK
  <2>2. ASSUME NEW states \in [Socket -> NetState], NEW left \in {current, None},
               OpenSocket(states, left)
        PROVE  \/ Constructed(states) /\ UNCHANGED <<timers, held>>
               \/ Throws(states, left, timers)
    BY <2>2 DEF OpenSocket
  <2>3. CASE ReconnectTimer
    BY <1>0, <2>1, <2>3 DEF ReconnectTimer
  <2>4. CASE OpenSocket(net, current) \/ OpenSocket(Closing(current), None)
    BY <1>0, <2>1, <2>2, <2>4
  <2> QED
    BY <2>3, <2>4 DEF WakeOrSignIn, BecomeVisible, FreshToken, PongTimeout, Connect
<1>2. /\ SocketsOK' /\ expired' \in {expired, FALSE}
      /\ timers' \in 0..MaxTimers /\ held' \in BOOLEAN /\ (held' => timers' > 0)
      /\ timers' > 0 \/ (current' # None /\ net'[current'] = "connecting")
  <2>1. CASE Throws(states, left, pending)
    BY <2>1, OpeningThrows
  <2>2. CASE Constructed(states) /\ UNCHANGED <<timers, held>>
    BY <2>2, SocketOpens, ClientBounds DEF TimersOK
  <2>3. CASE Constructed(states) /\ timers > 0 /\ timers' = timers - 1 /\ held' = FALSE
    BY <1>0, <2>3, SocketOpens, ClientBounds
  <2> QED
    BY <1>1, <2>1, <2>2, <2>3
<1>3. TimersOK'
  <2>1. keepalive' = keepalive /\ pong' \in {pong, FALSE} /\ closed' \in {closed, FALSE}
        /\ failed' \in {failed, FALSE} /\ tried' \in {tried, FALSE}
    BY DEF WakeOrSignIn, BecomeVisible, ReconnectTimer, FreshToken, PongTimeout,
      Connect, clocks
  <2>3. \/ refreshes' = refreshes
        \/ refreshes > 0 /\ refreshes' = refreshes - 1
    BY DEF WakeOrSignIn, BecomeVisible, ReconnectTimer, FreshToken, PongTimeout,
      Connect, clocks
  <2>5. refreshes' \in 0..MaxRefreshes
    BY <2>3, ClientBounds DEF TimersOK
  <2>6. keepalive' \in BOOLEAN /\ pong' \in BOOLEAN /\ closed' \in BOOLEAN
        /\ failed' \in BOOLEAN /\ tried' \in BOOLEAN
    BY <2>1 DEF TimersOK
  <2> QED
    BY <1>2, <2>5, <2>6 DEF TimersOK
<1>4. NotStranded'
  BY <1>2 DEF NotStranded
<1> QED
  BY <1>2, <1>3, <1>4

\* The steps of a socket that leave the current one, and open none.
LEMMA ClientRuns ==
    ASSUME SocketAssumption, ClientInv,
           \/ ConnectTimeout \/ PullState \/ KeepalivePing
           \/ PongTimeout /\ (closed \/ failed)
           \/ \E s \in Socket : \/ Opened(s) \/ TokenArrives(s) \/ Inbound(s)
                              \/ GoesZombie(s) \/ GateRefuses(s)
           \/ \E i \in Intent : Act(i)
    PROVE  SocketsOK' /\ TimersOK' /\ NotStranded'
<1> USE DEF ClientInv
<1>1. /\ UNCHANGED <<current, timers, held, refreshes, closed, expired, tried>>
      /\ \/ net' = net
         \/ net' = Closing(current)
         \/ \E s \in Socket, n \in {"open", "zombie"} : net' = [net EXCEPT ![s] = n]
  BY DEF ConnectTimeout, PullState, KeepalivePing, PongTimeout, Opened,
    TokenArrives, Inbound, GoesZombie, GateRefuses, Act, sockets, clocks,
    flags
<1>2. /\ net' \in [Socket -> NetState]
      /\ \A r \in Socket : net[r] # "free" => net'[r] # "free"
  BY <1>1, ClosingType DEF SocketsOK, NetState
<1>3. token' \subseteq Socket /\ refused' \subseteq Socket /\ first' \in [Socket -> {"auth", "other", None}]
  BY DEF ConnectTimeout, PullState, KeepalivePing, PongTimeout, Opened,
    TokenArrives, Inbound, GoesZombie, GateRefuses, Act, Speaks, sockets,
    SocketsOK
<1>4. keepalive' \in BOOLEAN /\ pong' \in BOOLEAN /\ failed' \in BOOLEAN
  BY DEF ConnectTimeout, PullState, KeepalivePing, PongTimeout, Opened,
    TokenArrives, Inbound, GoesZombie, GateRefuses, Act, DeadlineArmed,
    sockets, clocks, flags, TimersOK
<1>5. NotStranded'
  BY <1>1, <1>2 DEF NotStranded, SocketsOK
<1> QED
  BY <1>1, <1>2, <1>3, <1>4, <1>5 DEF SocketsOK, TimersOK

LEMMA ClientCloses ==
    ASSUME SocketAssumption, ClientInv,
           NoFreshToken \/ PauseSession \/ \E s \in Socket : CloseEvent(s)
    PROVE  SocketsOK' /\ TimersOK' /\ NotStranded'
<1> USE DEF ClientInv
<1>1. CASE NoFreshToken
  BY <1>1 DEF NoFreshToken, sockets, clocks, SocketsOK, TimersOK, NotStranded,
    SocketAssumption
<1>2. CASE PauseSession
  <2>1. SocketsOK'
    BY <1>2, ClosingType DEF PauseSession, SocketsOK
  <2>2. timers' \in 0..MaxTimers /\ held' = FALSE
    BY <1>2, ClientBounds DEF PauseSession, TimerCleared, TimersOK
  <2>3. closed' = TRUE /\ keepalive' = FALSE /\ pong' = FALSE
        /\ UNCHANGED <<failed, tried, refreshes, expired>>
    BY <1>2 DEF PauseSession
  <2>4. TimersOK'
    BY <2>2, <2>3 DEF TimersOK
  <2> QED
    BY <2>1, <2>3, <2>4 DEF NotStranded
<1>3. ASSUME NEW s \in Socket, CloseEvent(s) PROVE SocketsOK' /\ TimersOK' /\ NotStranded'
  <2>1. /\ net' = [net EXCEPT ![s] = "free"]
        /\ UNCHANGED <<token, first, refused, closed>>
    BY <1>3 DEF CloseEvent
  <2>2. current' \in {current, None}
    BY <1>3 DEF CloseEvent
  <2>3. SocketsOK'
    BY <2>1, <2>2 DEF SocketsOK, NetState
  <2>4. CASE ~Ours(s)
    <3>1. UNCHANGED <<current, timers, held, keepalive, pong, closed, failed, tried, refreshes,
                      expired>>
      BY <1>3, <2>1, <2>4 DEF CloseEvent, clocks
    <3>2. TimersOK'
      BY <3>1 DEF TimersOK
    <3>3. current # s
      BY <2>4 DEF Ours
    <3>4. NotStranded'
      BY <2>1, <3>1, <3>3 DEF NotStranded, SocketsOK
    <3> QED
      BY <2>3, <3>2, <3>4
  <2>5. ASSUME Ours(s)
        PROVE  /\ current' = None /\ keepalive' = FALSE /\ pong' = FALSE /\ closed' = closed
               /\ \/ closed /\ UNCHANGED <<timers, held, failed, tried, refreshes, expired>>
                  \/ HandleAuthFailure
                  \/ ScheduleReconnect
    BY <1>3, <2>5 DEF CloseEvent
  <2>6. CASE Ours(s) /\ closed /\ UNCHANGED <<timers, held, failed, tried, refreshes, expired>>
    <3>1. TimersOK'
      BY <2>5, <2>6 DEF TimersOK
    <3> QED
      BY <2>3, <2>5, <2>6, <3>1 DEF NotStranded
  <2>7. CASE Ours(s) /\ HandleAuthFailure
    <3>1. failed' = TRUE /\ timers' = (IF held THEN timers - 1 ELSE timers) /\ held' = FALSE
      BY <2>7 DEF HandleAuthFailure, TimerCleared
    <3>2. \/ tried' = TRUE /\ refreshes' = refreshes + 1 /\ expired' = expired
             /\ refreshes < MaxRefreshes
          \/ tried' = tried /\ refreshes' = refreshes /\ expired' = TRUE
      BY <2>7 DEF HandleAuthFailure, Surfaces
    <3>3. timers' \in 0..MaxTimers
      BY <3>1, ClientBounds DEF TimersOK
    <3>6. refreshes' \in 0..MaxRefreshes /\ (refreshes' = refreshes + 1 => refreshes' > 0)
      <4>1. \/ refreshes' = refreshes + 1 /\ refreshes < MaxRefreshes
            \/ refreshes' = refreshes
        BY <3>2, Zenon
      <4> QED
        BY <4>1, ClientBounds DEF TimersOK
    <3>7. expired' = TRUE \/ refreshes' = refreshes + 1
      BY <3>2, Zenon
    <3>4. tried' \in BOOLEAN /\ expired' \in BOOLEAN
      BY <3>2, Zenon DEF TimersOK
    <3>5. TimersOK'
      BY <2>5, <2>7, <3>1, <3>3, <3>4, <3>6, Zenon DEF TimersOK
    <3> QED
      BY <2>3, <3>5, <3>6, <3>7 DEF NotStranded
  <2>8. CASE Ours(s) /\ ScheduleReconnect
    <3>1. timers < MaxTimers /\ timers' = timers + 1 /\ held' = TRUE
          /\ UNCHANGED <<failed, tried, refreshes, expired>>
      BY <2>8 DEF ScheduleReconnect
    <3>2. timers' \in 0..MaxTimers /\ timers' > 0
      BY <3>1, ClientBounds DEF TimersOK
    <3>3. TimersOK'
      BY <2>5, <2>8, <3>1, <3>2 DEF TimersOK
    <3> QED
      BY <2>3, <3>2, <3>3 DEF NotStranded
  <2> QED
    BY <2>4, <2>5, <2>6, <2>7, <2>8
<1> QED
  BY <1>1, <1>2, <1>3

LEMMA ClientStep == SocketAssumption /\ ClientInv /\ [Next]_(vars) => ClientInv'
<1> SUFFICES ASSUME SocketAssumption, ClientInv, [Next]_(vars) PROVE ClientInv'
  OBVIOUS
<1>1. CASE UNCHANGED vars
  BY <1>1 DEF vars, sockets, clocks, flags, intents, ClientInv, SocketsOK, TimersOK,
    IntentsOK, NotStranded, HandedOnce, IsInjective, ToSet
<1>2. CASE Next
  <2>1. IntentsOK'
    BY <1>2, IntentsStep
  <2>2. SocketsOK' /\ TimersOK' /\ NotStranded'
    BY <1>2, ClientOpens, ClientRuns, ClientCloses DEF Next
  <2> QED
    BY <2>1, <2>2 DEF ClientInv
<1> QED
  BY <1>1, <1>2

LEMMA OnlyCloseEventFrees ==
    ASSUME SocketsOK, Next, NEW s \in Socket, net[s] = "closing", net'[s] = "free"
    PROVE  CloseEvent(s)
<1>1. CASE \E states \in [Socket -> NetState] :
              /\ \/ Constructed(states)
                 \/ \E left, pending : Throws(states, left, pending)
              /\ states[s] = "free" <=> net[s] = "free"
  BY <1>1 DEF Constructed, Throws
<1>2. CASE \/ net' = net \/ net' = Closing(current)
           \/ \E r \in Socket, n \in {"open", "zombie"} : net' = [net EXCEPT ![r] = n]
  BY <1>2, ClosingType DEF SocketsOK
<1>3. ASSUME NEW r \in Socket, CloseEvent(r) PROVE CloseEvent(s)
  <2>1. net' = [net EXCEPT ![r] = "free"]
    BY <1>3 DEF CloseEvent
  <2>2. r = s
    BY <2>1 DEF SocketsOK
  <2> QED
    BY <1>3, <2>2
<1>4. CASE WakeOrSignIn \/ BecomeVisible \/ ReconnectTimer \/ FreshToken
  BY <1>1, <1>4, ClosingType DEF WakeOrSignIn, BecomeVisible, ReconnectTimer,
    FreshToken, Connect, OpenSocket, SocketsOK
<1>5. CASE PongTimeout
  BY <1>1, <1>2, <1>5, ClosingType DEF PongTimeout, Connect, OpenSocket, sockets, SocketsOK
<1>6. CASE ConnectTimeout \/ PullState \/ KeepalivePing \/ NoFreshToken
           \/ PauseSession
  BY <1>2, <1>6 DEF ConnectTimeout, PullState, KeepalivePing, NoFreshToken,
    PauseSession, sockets
<1>7. ASSUME NEW r \in Socket, \/ Opened(r) \/ TokenArrives(r) \/ Inbound(r)
                             \/ GoesZombie(r) \/ GateRefuses(r)
      PROVE  CloseEvent(s)
  BY <1>2, <1>7 DEF Opened, TokenArrives, Inbound, GoesZombie, GateRefuses,
    sockets
<1>8. ASSUME NEW i \in Intent, Act(i) PROVE CloseEvent(s)
  BY <1>2, <1>8 DEF Act
<1> QED
  BY <1>3, <1>4, <1>5, <1>6, <1>7, <1>8 DEF Next

LEMMA ClientSafe == ASSUME ClientInv PROVE TypeOK /\ NotStranded /\ HandedOnce
BY DEF ClientInv, SocketsOK, TimersOK, IntentsOK, NetState, TypeOK

LEMMA LateCloseHarmless == ASSUME ClientInv, Next PROVE LateCloseLeavesFresh
<1>1. ASSUME NEW s \in Socket, net[s] = "closing", net'[s] = "free", current \notin {None, s}
      PROVE  current' = current /\ keepalive' = keepalive /\ timers' = timers
  <2>1. CloseEvent(s)
    BY <1>1, OnlyCloseEventFrees DEF ClientInv
  <2> QED
    BY <1>1, <2>1 DEF CloseEvent, Ours, clocks
<1> QED
  BY <1>1 DEF LateCloseLeavesFresh
=============================================================================
