--------------------------- MODULE LiveTurnsProofs ---------------------------
(***************************************************************************)
(* Theorems about the turns of a session, for any number of sockets, Cases *)
(* and turns, when no two chat sockets overlap. The invariant is that the  *)
(* registry holds every running turn under its own Case, and that what a   *)
(* connection holds live is what the registry holds.                       *)
(***************************************************************************)
EXTENDS LiveTurns, TLAPS

Closed(c) == conn[c] \in {"new", "closed"}

Registered == \A t \in Turn : Running(t) => key[t] \in Stream /\ registry[key[t]] = t

InflightRegistered ==
    \A c \in Conn, k \in Stream : Live(inflight[c][k]) => registry[k] = inflight[c][k]

\* Only a chat socket whose handler runs holds turns, and there is one at most.
ClosedHoldsNone ==
    \A c \in Conn : Closed(c) \/ c \notin Chat => \A k \in Stream : inflight[c][k] = None

OneChat == \A c, d \in Chat : ~Closed(c) /\ ~Closed(d) => c = d

OnlyChatPrompts == \A c \in Conn : conn[c] \in {"stamped", "pinned"} => c \in Chat

Pinned == \A c \in Conn : conn[c] = "pinned" => pin[c] \in Stream

NewIsUnknown ==
    \A t \in Turn : turn[t] = "new" => /\ \A k \in Stream : registry[k] # t
                                       /\ \A c \in Conn, k \in Stream : inflight[c][k] # t

TurnsInv ==
    /\ TypeOK
    /\ Registered /\ InflightRegistered /\ ClosedHoldsNone /\ OneChat
    /\ OnlyChatPrompts /\ Pinned /\ NewIsUnknown

Hypothesis == TurnsAssumption /\ ~Overlap

LEMMA TurnsInit == Hypothesis /\ Init => TurnsInv
BY DEF Hypothesis, TurnsAssumption, Init, TurnsInv, TypeOK, Registered, InflightRegistered,
    ClosedHoldsNone, OneChat, OnlyChatPrompts, Pinned, NewIsUnknown, Closed, Running, Live

-----------------------------------------------------------------------------
(* The helpers                                                              *)

LEMMA RebindType ==
    ASSUME NEW c \in Conn, NEW s \in Conn, NEW ks, TypeOK, Rebind(c, s, ks)
    PROVE  sink' \in [Conn -> Conn \cup {None}]
BY DEF Rebind, TypeOK

LEMMA SinkType == ASSUME NEW c \in Conn, TypeOK PROVE SinkOf(c) \in Conn
BY DEF SinkOf, TypeOK

\* Pruning drops no live turn, and brings in none.
LEMMA PrunedKeeps ==
    ASSUME NEW ks, TypeOK
    PROVE  /\ Pruned(ks) \in [Stream -> Turn \cup {None}]
           /\ \A k \in Stream : /\ Live(registry[k]) => Pruned(ks)[k] = registry[k]
                                /\ Pruned(ks)[k] \in {registry[k], None}
BY DEF Pruned, TypeOK

\* What may change when no turn starts, stops or ends.
LEMMA RegistryPruned ==
    ASSUME TurnsInv, Hypothesis, UNCHANGED <<inflight, turnVars>>,
           \A k \in Stream : /\ Live(registry[k]) => registry'[k] = registry[k]
                             /\ registry'[k] \in {registry[k], None}
    PROVE  Registered' /\ InflightRegistered' /\ NewIsUnknown'
<1> USE DEF TurnsInv, turnVars
<1>1. \A t \in Turn : Running(t) => Live(t)
  BY DEF Running, Live, Hypothesis, TurnsAssumption
<1>2. Registered'
  BY <1>1 DEF Registered, Running
<1>3. InflightRegistered'
  BY DEF InflightRegistered, Live
<1>4. NewIsUnknown'
  BY DEF NewIsUnknown, Hypothesis, TurnsAssumption
<1> QED
  BY <1>2, <1>3, <1>4

-----------------------------------------------------------------------------
(* Connections                                                              *)

LEMMA ConnMoves ==
    ASSUME TurnsInv, Hypothesis, NEW c \in Conn,
           \/ \E k \in Stream : Resume(c, k) \/ SelectCase(c, k) \/ StampMessage(c, k)
           \/ SocketLost(c) \/ PinCase(c) \/ StopHandled(c)
    PROVE  TurnsInv'
<1> USE DEF TurnsInv
<1>1. UNCHANGED <<inflight, sink, registry, turnVars>>
  BY DEF Resume, SelectCase, StampMessage, SocketLost, PinCase, StopHandled
<1>2. Registered' /\ InflightRegistered' /\ NewIsUnknown'
  BY <1>1, RegistryPruned
<1>3. TypeOK'
  <2>1. ASSUME NEW k \in Stream, Resume(c, k) PROVE TypeOK'
    BY <2>1 DEF TypeOK, Resume, turnVars
  <2>2. ASSUME NEW k \in Stream, SelectCase(c, k) PROVE TypeOK'
    BY <2>2 DEF TypeOK, SelectCase, turnVars
  <2>3. ASSUME NEW k \in Stream, StampMessage(c, k) PROVE TypeOK'
    BY <2>3 DEF TypeOK, StampMessage, turnVars
  <2>4. CASE SocketLost(c)
    BY <2>4 DEF TypeOK, SocketLost, turnVars
  <2>5. CASE PinCase(c)
    BY <2>5 DEF TypeOK, PinCase, turnVars
  <2>6. CASE StopHandled(c)
    BY <2>6 DEF TypeOK, StopHandled, BackToLoop, turnVars
  <2> QED
    BY <2>1, <2>2, <2>3, <2>4, <2>5, <2>6
<1>4. \/ conn' = conn
      \/ \E s \in {"resuming", "opening", "stamped", "pinned", "ready"} :
            conn' = [conn EXCEPT ![c] = s]
  BY DEF Resume, SelectCase, StampMessage, SocketLost, PinCase, StopHandled, BackToLoop
<1>5. ClosedHoldsNone'
  BY <1>1, <1>4 DEF ClosedHoldsNone, Closed, TypeOK
<1>6. OneChat'
  <2>1. CASE \E k \in Stream : Resume(c, k)
    <3>1. PICK k \in Stream : Resume(c, k)
      BY <2>1
    <3>2. \A d \in Conn : d # c => conn'[d] = conn[d]
      BY <3>1 DEF Resume, TypeOK
    <3>3. c \in Chat => \A d \in Chat : Closed(d)
      BY <3>1 DEF Resume, Hypothesis, Closed
    <3> QED
      BY <3>2, <3>3 DEF OneChat, Closed, Hypothesis, TurnsAssumption
  <2>2. CASE ~\E k \in Stream : Resume(c, k)
    <3>1. \A d \in Conn : Closed(d)' <=> Closed(d)
      BY <2>2 DEF Closed, TypeOK, SelectCase, StampMessage, SocketLost, PinCase, StopHandled,
        BackToLoop
    <3> QED
      BY <3>1 DEF OneChat, Hypothesis, TurnsAssumption
  <2> QED
    BY <2>1, <2>2
<1>7. OnlyChatPrompts'
  BY DEF OnlyChatPrompts, TypeOK, Resume, SelectCase, StampMessage, SocketLost, PinCase,
    StopHandled, BackToLoop
<1>8. Pinned'
  BY DEF Pinned, TypeOK, Resume, SelectCase, StampMessage, SocketLost, PinCase,
    StopHandled, BackToLoop
<1> QED
  BY <1>2, <1>3, <1>5, <1>6, <1>7, <1>8

LEMMA TakesOver ==
    ASSUME TurnsInv, Hypothesis, NEW c \in Conn, TakeOver(c) \/ Keepalive(c) \/ OpenCase(c)
    PROVE  TurnsInv'
<1> USE DEF TurnsInv
<1>1. /\ UNCHANGED <<open, pin, target, inflight, active, turnVars>>
      /\ conn' = [conn EXCEPT ![c] = "ready"] /\ conn[c] \in {"resuming", "opening", "ready"}
      /\ want' = want \/ want' = [want EXCEPT ![c] = None]
  BY DEF TakeOver, Keepalive, OpenCase, connVars, TypeOK
<1>2. sink' \in [Conn -> Conn \cup {None}]
  BY RebindType, SinkType DEF TakeOver, Keepalive, OpenCase, TypeOK
<1>3. registry' = registry \/ \E ks : registry' = Pruned(ks)
  BY DEF TakeOver, Keepalive, OpenCase
<1>4. /\ registry' \in [Stream -> Turn \cup {None}]
      /\ \A k \in Stream : /\ Live(registry[k]) => registry'[k] = registry[k]
                           /\ registry'[k] \in {registry[k], None}
  BY <1>3, PrunedKeeps DEF TypeOK
<1>5. TypeOK'
  BY <1>1, <1>2, <1>4 DEF TypeOK, turnVars
<1>6. Registered' /\ InflightRegistered' /\ NewIsUnknown'
  BY <1>1, <1>4, RegistryPruned
<1>7. ClosedHoldsNone' /\ OneChat' /\ OnlyChatPrompts' /\ Pinned'
  BY <1>1 DEF ClosedHoldsNone, OneChat, OnlyChatPrompts, Pinned, Closed, TypeOK, Hypothesis,
    TurnsAssumption
<1> QED
  BY <1>5, <1>6, <1>7

LEMMA HandlerCloses ==
    ASSUME TurnsInv, Hypothesis, NEW c \in Conn, CloseHandler(c)
    PROVE  TurnsInv'
<1> USE DEF TurnsInv
<1>1. /\ conn' = [conn EXCEPT ![c] = "closed"]
      /\ conn[c] \in {"resuming", "opening", "ready", "stamped", "pinned"}
      /\ registry' = [k \in Stream |->
                        IF Live(inflight[c][k]) THEN inflight[c][k] ELSE registry[k]]
      /\ inflight' = [inflight EXCEPT ![c] = [k \in Stream |-> None]]
      /\ want' = [want EXCEPT ![c] = None]
      /\ pin' = [pin EXCEPT ![c] = None]
      /\ UNCHANGED <<open, target, sink, active, turnVars>>
  BY DEF CloseHandler
<1>2. registry' = registry
  BY <1>1 DEF InflightRegistered, TypeOK
<1>3. TypeOK'
  BY <1>1, <1>2 DEF TypeOK, turnVars
<1>4. \A d \in Conn, k \in Stream : inflight'[d][k] \in {inflight[d][k], None}
  BY <1>1 DEF TypeOK
<1>5. Registered'
  BY <1>1, <1>2 DEF Registered, Running, turnVars
<1>6. InflightRegistered'
  <2> SUFFICES ASSUME NEW d \in Conn, NEW k \in Stream, Live(inflight[d][k])'
               PROVE  registry'[k] = inflight'[d][k]
    BY DEF InflightRegistered
  <2>1. inflight'[d][k] # None
    BY DEF Live
  <2>2. inflight'[d][k] = inflight[d][k]
    BY <1>4, <2>1
  <2>3. Live(inflight[d][k])
    BY <1>1, <2>2 DEF Live, turnVars
  <2> QED
    BY <1>2, <2>2, <2>3 DEF InflightRegistered
<1>7. NewIsUnknown'
  BY <1>1, <1>2, <1>4 DEF NewIsUnknown, turnVars, Hypothesis, TurnsAssumption
<1>8. ClosedHoldsNone' /\ OneChat' /\ OnlyChatPrompts' /\ Pinned'
  BY <1>1 DEF ClosedHoldsNone, OneChat, OnlyChatPrompts, Pinned, Closed, TypeOK, Hypothesis,
    TurnsAssumption
<1> QED
  BY <1>3, <1>5, <1>6, <1>7, <1>8

-----------------------------------------------------------------------------
(* Turns                                                                    *)

LEMMA TurnDispatched ==
    ASSUME TurnsInv, Hypothesis, NEW c \in Conn, Dispatch(c)
    PROVE  TurnsInv'
<1> DEFINE k == pin[c]
           prior == Prior(c, k)
           kept == [j \in Stream |-> IF Live(inflight[c][j]) THEN inflight[c][j] ELSE None]
<1> USE DEF TurnsInv
<1>1. PICK t \in Turn :
         /\ turn[t] = "new"
         /\ turn' = [(IF prior = None THEN turn ELSE Cancelled(prior)) EXCEPT ![t] = "running"]
         /\ key' = [key EXCEPT ![t] = k]
         /\ by' = [by EXCEPT ![t] = c]
         /\ inflight' = [inflight EXCEPT ![c] = [kept EXCEPT ![k] = t]]
         /\ registry' = [Pruned(Stream) EXCEPT ![k] = t]
  BY DEF Dispatch
<1>2. /\ conn[c] = "pinned" /\ k \in Stream /\ c \in Chat /\ t # None
      /\ Rebind(c, SinkOf(c), Stream)
      /\ conn' = [conn EXCEPT ![c] = "ready"] /\ pin' = [pin EXCEPT ![c] = None]
      /\ UNCHANGED <<open, want, target, active>>
  BY DEF Dispatch, Pinned, OnlyChatPrompts, Hypothesis, TurnsAssumption
<1> HIDE DEF kept, k
<1>3. kept \in [Stream -> Turn \cup {None}]
      /\ \A j \in Stream : kept[j] = None \/ (kept[j] = inflight[c][j] /\ Live(kept[j]))
  BY DEF kept, TypeOK
<1>4. /\ Pruned(Stream) \in [Stream -> Turn \cup {None}]
      /\ \A j \in Stream : /\ Live(registry[j]) => Pruned(Stream)[j] = registry[j]
                           /\ Pruned(Stream)[j] \in {registry[j], None}
  BY PrunedKeeps
<1>5. prior = IF Live(registry[k]) THEN registry[k] ELSE None
  BY <1>2 DEF Prior, Found, InflightRegistered
<1>6. /\ turn' \in [Turn -> {"new", "running", "unwinding", "done", "dropped"}]
      /\ turn'[t] = "running"
      /\ \A u \in Turn : u # t => /\ turn'[u] \in {turn[u], "unwinding"}
                                  /\ turn'[u] = "unwinding" => turn[u] \in {"running", "unwinding"}
                                  /\ turn'[u] = "running" => turn[u] = "running" /\ u # prior
  <2> DEFINE rest == IF prior = None THEN turn ELSE Cancelled(prior)
  <2>1. /\ rest \in [Turn -> {"new", "running", "unwinding", "done", "dropped"}]
        /\ \A u \in Turn : /\ rest[u] \in {turn[u], "unwinding"}
                           /\ rest[u] = "unwinding" => turn[u] \in {"running", "unwinding"}
                           /\ rest[u] = "running" => turn[u] = "running" /\ u # prior
    <3>1. CASE prior = None
      BY <3>1 DEF TypeOK, Hypothesis, TurnsAssumption
    <3>2. CASE prior # None
      <4> HIDE DEF prior
      <4> QED
        BY <3>2 DEF TypeOK, Cancelled
    <3> QED
      BY <3>1, <3>2
  <2>2. turn' = [rest EXCEPT ![t] = "running"]
    BY <1>1
  <2> HIDE DEF rest, prior
  <2> QED
    BY <2>1, <2>2
<1>7. /\ registry'[k] = t
      /\ \A j \in Stream : j # k => registry'[j] = Pruned(Stream)[j]
      /\ registry' \in [Stream -> Turn \cup {None}]
  BY <1>1, <1>2, <1>4
<1>8. /\ inflight' \in [Conn -> [Stream -> Turn \cup {None}]]
      /\ inflight'[c] = [kept EXCEPT ![k] = t]
      /\ \A d \in Conn : d # c => inflight'[d] = inflight[d]
  <2> DEFINE own == [kept EXCEPT ![k] = t]
  <2>1. own \in [Stream -> Turn \cup {None}]
    BY <1>3
  <2>2. inflight' = [inflight EXCEPT ![c] = own]
    BY <1>1
  <2> HIDE DEF own
  <2>3. inflight' \in [Conn -> [Stream -> Turn \cup {None}]] /\ inflight'[c] = own
        /\ \A d \in Conn : d # c => inflight'[d] = inflight[d]
    BY <2>1, <2>2 DEF TypeOK
  <2> QED
    BY <2>3 DEF own
<1>9. inflight'[c][k] = t /\ \A j \in Stream : j # k => inflight'[c][j] = kept[j]
  BY <1>2, <1>3, <1>8
<1>10. \A d \in Conn, j \in Stream : d # c => inflight[d][j] = None
  BY <1>2 DEF ClosedHoldsNone, OneChat, Closed
<1>11. TypeOK'
  <2>1. sink' \in [Conn -> Conn \cup {None}]
    BY <1>2, RebindType, SinkType
  <2>2. key' \in [Turn -> Stream \cup {None}] /\ by' \in [Turn -> Conn \cup {None}]
    BY <1>1, <1>2 DEF TypeOK
  <2>3. /\ conn' \in [Conn -> {"new", "resuming", "ready", "opening", "stamped", "pinned",
                              "waiting", "closed"}]
        /\ pin' \in [Conn -> Stream \cup {None}]
        /\ \A d \in Conn : conn'[d] = "waiting" <=> target'[d] # None
    BY <1>2 DEF TypeOK
  <2> QED
    BY <1>2, <1>6, <1>7, <1>8, <2>1, <2>2, <2>3 DEF TypeOK
<1>12. \A u : u # t /\ u # None /\ u \in Turn => (Live(u)' => Live(u))
  BY <1>6 DEF Live
<1>13. Registered'
  <2> SUFFICES ASSUME NEW u \in Turn, turn'[u] = "running"
               PROVE  key'[u] \in Stream /\ registry'[key'[u]] = u
    BY DEF Registered, Running
  <2>1. CASE u = t
    BY <1>1, <1>2, <1>7, <2>1 DEF TypeOK
  <2>2. CASE u # t
    <3>1. /\ turn[u] = "running" /\ u # prior /\ key'[u] = key[u]
          /\ key[u] \in Stream /\ registry[key[u]] = u
      BY <1>1, <1>6, <2>2 DEF Registered, Running, TypeOK
    <3>2. Live(registry[key[u]])
      BY <3>1 DEF Live, Hypothesis, TurnsAssumption
    <3>3. key[u] # k
      BY <1>5, <3>1, <3>2
    <3> QED
      BY <1>4, <1>7, <3>1, <3>2, <3>3
  <2> QED
    BY <2>1, <2>2
<1>14. InflightRegistered'
  <2> SUFFICES ASSUME NEW d \in Conn, NEW j \in Stream, inflight'[d][j] # None
               PROVE  registry'[j] = inflight'[d][j]
    BY DEF InflightRegistered, Live
  <2>1. d = c
    BY <1>8, <1>10
  <2>2. CASE j = k
    BY <1>7, <1>9, <2>1, <2>2
  <2>3. CASE j # k
    <3>1. inflight'[c][j] = inflight[c][j] /\ Live(inflight[c][j])
      BY <1>3, <1>9, <2>1, <2>3
    <3>2. registry[j] = inflight[c][j] /\ Live(registry[j])
      BY <3>1 DEF InflightRegistered
    <3> QED
      BY <1>4, <1>7, <2>1, <2>3, <3>1, <3>2
  <2> QED
    BY <2>2, <2>3
<1>15. NewIsUnknown'
  <2> SUFFICES ASSUME NEW u \in Turn, turn'[u] = "new"
               PROVE  /\ \A j \in Stream : registry'[j] # u
                      /\ \A d \in Conn, j \in Stream : inflight'[d][j] # u
    BY DEF NewIsUnknown
  <2>1. u # t /\ turn[u] = "new" /\ u # None
    BY <1>6 DEF Hypothesis, TurnsAssumption
  <2>2. /\ \A j \in Stream : registry[j] # u
        /\ \A d \in Conn, j \in Stream : inflight[d][j] # u
    BY <2>1 DEF NewIsUnknown
  <2>3. \A j \in Stream : registry'[j] # u
    BY <1>4, <1>7, <2>1, <2>2
  <2>4. \A d \in Conn, j \in Stream : inflight'[d][j] # u
    BY <1>3, <1>8, <1>9, <2>1, <2>2
  <2> QED
    BY <2>3, <2>4
<1>16. ClosedHoldsNone'
  BY <1>2, <1>8 DEF ClosedHoldsNone, Closed, TypeOK
<1>17. OneChat' /\ OnlyChatPrompts' /\ Pinned'
  BY <1>2 DEF OneChat, OnlyChatPrompts, Pinned, Closed, TypeOK, Hypothesis, TurnsAssumption
<1> QED
  BY <1>11, <1>13, <1>14, <1>15, <1>16, <1>17

\* A turn is cancelled, ends or is through with its callback: fewer turns live.
LEMMA FewerLive ==
    ASSUME TurnsInv, Hypothesis, UNCHANGED <<inflight, key>>,
           \A u \in Turn : /\ turn'[u] = "new" => turn[u] = "new"
                           /\ Running(u)' => Running(u)
                           /\ Live(u)' => Live(u),
           \A j \in Stream : /\ Live(registry[j])' => registry'[j] = registry[j]
                             /\ \A u \in Turn : registry[j] = u /\ Live(u)' => registry'[j] = u
                             /\ registry'[j] \in {registry[j], None}
    PROVE  Registered' /\ InflightRegistered' /\ NewIsUnknown'
<1> USE DEF TurnsInv
<1>1. Registered'
  BY DEF Registered, Running, Live, Hypothesis, TurnsAssumption
<1>2. InflightRegistered'
  <2> SUFFICES ASSUME NEW d \in Conn, NEW j \in Stream, Live(inflight[d][j])'
               PROVE  registry'[j] = inflight[d][j]
    BY DEF InflightRegistered
  <2>1. PICK u \in Turn : u = inflight[d][j]
    BY DEF TypeOK, Live
  <2>2. Live(u)'
    BY <2>1
  <2>3. registry[j] = u
    BY <2>1, <2>2 DEF InflightRegistered
  <2> QED
    BY <2>1, <2>2, <2>3
<1>3. NewIsUnknown'
  BY DEF NewIsUnknown, Hypothesis, TurnsAssumption
<1> QED
  BY <1>1, <1>2, <1>3

LEMMA StopPressed ==
    ASSUME TurnsInv, Hypothesis, NEW c \in Conn, Stop(c)
    PROVE  TurnsInv'
<1> USE DEF TurnsInv
<1>1. PICK t \in Stoppable(c) : turn' = Cancelled(t) /\ target' = [target EXCEPT ![c] = t]
  BY DEF Stop
<1>2. /\ conn[c] = "ready" /\ conn' = [conn EXCEPT ![c] = "waiting"]
      /\ UNCHANGED <<open, want, pin, inflight, sink, active, registry, key, by>>
  BY DEF Stop
<1>3. t \in Turn /\ t # None
  BY <1>1 DEF Stoppable, LiveOf, Live, TypeOK
<1>4. TypeOK'
  BY <1>1, <1>2, <1>3 DEF TypeOK, Cancelled
<1>5. \A u \in Turn : /\ turn'[u] = "new" => turn[u] = "new"
                      /\ Running(u)' => Running(u)
                      /\ Live(u)' => Live(u)
  BY <1>1 DEF Cancelled, Running, Live, TypeOK
<1>6. Registered' /\ InflightRegistered' /\ NewIsUnknown'
  BY <1>2, <1>5, FewerLive
<1>7. ClosedHoldsNone' /\ OneChat' /\ OnlyChatPrompts' /\ Pinned'
  BY <1>2 DEF ClosedHoldsNone, OneChat, OnlyChatPrompts, Pinned, Closed, TypeOK, Hypothesis,
    TurnsAssumption
<1> QED
  BY <1>4, <1>6, <1>7

LEMMA TurnOver ==
    ASSUME TurnsInv, Hypothesis, NEW t \in Turn, TurnEnds(t) \/ DoneCallback(t)
    PROVE  TurnsInv'
<1> USE DEF TurnsInv
<1>1. /\ UNCHANGED <<connVars, inflight, sink, active, key, by>>
      /\ \E s \in {"done", "dropped"} : turn' = [turn EXCEPT ![t] = s]
      /\ turn[t] \in {"running", "unwinding", "done"}
      /\ registry' = registry \/ registry' = Dropped(t)
  BY DEF TurnEnds, DoneCallback, Live
<1>2. TypeOK'
  BY <1>1 DEF TypeOK, connVars, Dropped
<1>3. \A u \in Turn : /\ turn'[u] = "new" => turn[u] = "new"
                      /\ Running(u)' => Running(u)
                      /\ Live(u)' => Live(u) /\ u # t
  BY <1>1 DEF Running, Live, TypeOK
<1>4. \A j \in Stream : registry'[j] = registry[j] \/ (registry[j] = t /\ registry'[j] = None)
  BY <1>1 DEF Dropped, TypeOK
<1>5. Registered' /\ InflightRegistered' /\ NewIsUnknown'
  BY <1>1, <1>3, <1>4, FewerLive DEF Live
<1>6. ClosedHoldsNone' /\ OneChat' /\ OnlyChatPrompts' /\ Pinned'
  BY <1>1 DEF ClosedHoldsNone, OneChat, OnlyChatPrompts, Pinned, Closed, connVars
<1> QED
  BY <1>2, <1>5, <1>6

LEMMA TurnsStep == Hypothesis /\ TurnsInv /\ [Next]_vars => TurnsInv'
<1> SUFFICES ASSUME Hypothesis, TurnsInv, [Next]_vars PROVE TurnsInv'
  OBVIOUS
<1>1. CASE UNCHANGED vars
  BY <1>1 DEF vars, connVars, turnVars, TurnsInv, TypeOK, Registered, InflightRegistered,
    ClosedHoldsNone, OneChat, OnlyChatPrompts, Pinned, NewIsUnknown, Closed, Running, Live
<1>2. ASSUME NEW c \in Conn,
             \/ \E k \in Stream : Resume(c, k) \/ SelectCase(c, k) \/ StampMessage(c, k)
             \/ SocketLost(c) \/ PinCase(c) \/ StopHandled(c)
      PROVE  TurnsInv'
  BY <1>2, ConnMoves
<1>3. ASSUME NEW c \in Conn, TakeOver(c) \/ Keepalive(c) \/ OpenCase(c) PROVE TurnsInv'
  BY <1>3, TakesOver
<1>4. ASSUME NEW c \in Conn, CloseHandler(c) PROVE TurnsInv'
  BY <1>4, HandlerCloses
<1>5. ASSUME NEW c \in Conn, Dispatch(c) PROVE TurnsInv'
  BY <1>5, TurnDispatched
<1>6. ASSUME NEW c \in Conn, Stop(c) PROVE TurnsInv'
  BY <1>6, StopPressed
<1>7. ASSUME NEW t \in Turn, TurnEnds(t) \/ DoneCallback(t) PROVE TurnsInv'
  BY <1>7, TurnOver
<1> QED
  BY <1>1, <1>2, <1>3, <1>4, <1>5, <1>6, <1>7 DEF Next

LEMMA TurnsAlways == ASSUME Hypothesis PROVE Spec => []TurnsInv
<1>1. Init => TurnsInv
  BY TurnsInit
<1>2. TurnsInv /\ [Next]_vars => TurnsInv'
  BY TurnsStep
<1> QED
  BY <1>1, <1>2, PTL DEF Spec

\* What the invariant says of the properties of LiveTurns.
LEMMA TurnsSafe ==
    ASSUME Hypothesis, TurnsInv
    PROVE  TypeOK /\ OneTurnPerStream /\ BusyCoversTurns /\ StopReachesTurn
<1> USE DEF TurnsInv
<1>1. \A t \in Turn : Running(t) => /\ key[t] \in Stream /\ registry[key[t]] = t
                                    /\ t \in LiveOf(registry)
  BY DEF Registered, Running, LiveOf, Live, Hypothesis, TurnsAssumption
<1>2. OneTurnPerStream
  BY <1>1 DEF OneTurnPerStream
<1>3. BusyCoversTurns
  BY <1>1 DEF BusyCoversTurns, TurnInFlight
<1>4. StopReachesTurn
  BY <1>1 DEF StopReachesTurn
<1> QED
  BY <1>2, <1>3, <1>4

\* The dispatch finds the turn its stream is running in the registry, on whatever
\* socket it was started, and cancels it: one turn at a time per Case.
THEOREM OneTurn == ASSUME Hypothesis PROVE Spec => []OneTurnPerStream
BY TurnsAlways, TurnsSafe, PTL

\* is_busy() counts the registry: it is true while a turn runs.
THEOREM BusyIsTrue == ASSUME Hypothesis PROVE Spec => []BusyCoversTurns
BY TurnsAlways, TurnsSafe, PTL

\* Whatever sockets came and went, the stop button finds every running turn.
THEOREM StopFinds == ASSUME Hypothesis PROVE Spec => []StopReachesTurn
BY TurnsAlways, TurnsSafe, PTL
=============================================================================
