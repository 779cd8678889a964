------------------------------ MODULE LiveTurns ------------------------------
(***************************************************************************)
(* The turns of one session inside its agent task, and the sockets that    *)
(* start, stop and watch them. A turn outlives the socket it was started   *)
(* on: the registry _SESSION_LIVE_TURNS keeps it, keyed by its Case stream, *)
(* and a later socket takes its frames over.                               *)
(*                                                                         *)
(* The agent runs on one asyncio loop: a step ends where a coroutine may   *)
(* suspend.                                                                *)
(***************************************************************************)
EXTENDS Naturals

CONSTANTS
    Conn,     \* sockets; one that is lost is replaced by another: a bound
    Chat,     \* the ones on which the user writes and presses stop
    Stream,   \* turn keys: the Cases of the session
    Turn,     \* turns, each started at most once: a bound
    Overlap,  \* may a chat socket be replaced before its handler is through?
    None

VARIABLES
    open,      \* Conn -> is the socket still connected?
    conn,      \* Conn -> where its handler coroutine is
    want,      \* Conn -> the Case that is being opened
    pin,       \* Conn -> state.current_turn_case_id, until the dispatch has used it
    target,    \* Conn -> the task the cancel handler waits for
    inflight,  \* Conn -> state.inflight_tasks
    sink,      \* Conn -> the socket that the _sink of state.emitter writes to
    active,    \* _SESSION_ACTIVE_CASE of the session
    registry,  \* _SESSION_LIVE_TURNS of the session
    turn,      \* Turn -> the state of its asyncio task
    key,       \* Turn -> its turn_key
    by         \* Turn -> the connection whose emitter it drives

connVars == <<open, conn, want, pin, target>>
turnVars == <<turn, key, by>>
vars == <<connVars, inflight, sink, active, registry, turnVars>>

TurnsAssumption ==
    Chat \subseteq Conn /\ None \notin Conn \cup Stream \cup Turn /\ Overlap \in BOOLEAN

-----------------------------------------------------------------------------
\* not task.done(): a cancelled task first runs its shielded persists.
Live(t) == t # None /\ turn[t] \in {"running", "unwinding"}

\* task.cancel(), which a task already unwinding absorbs.
Cancelled(t) ==
    [turn EXCEPT ![t] = IF @ = "running" THEN "unwinding" ELSE @]

\* _find_live_turn
Found(k) == IF Live(registry[k]) THEN registry[k] ELSE None

\* Mutant: only the Case on view is taken over.
RebindActive(c, s, ks) ==
    sink' = [d \in Conn |->
               IF d = c THEN s
               ELSE IF \E k \in ks \cap {active} : Live(registry[k]) /\ by[registry[k]] = d
               THEN s ELSE sink[d]]

\* The sinks of the live turns under ks become s, the sink of the emitter of
\* c. A turn that drives the emitter of c itself is left alone.
Rebind(c, s, ks) ==
    sink' = [d \in Conn |->
               IF d = c THEN s
               ELSE IF \E k \in ks : Live(registry[k]) /\ by[registry[k]] = d
               THEN s ELSE sink[d]]

\* _ensure_emitter: a connection's emitter starts out on its own socket.
SinkOf(c) == IF sink[c] = None THEN c ELSE sink[c]

\* _rebind_live_turns also drops the entries that are done.
Pruned(ks) ==
    [k \in Stream |-> IF k \in ks /\ ~Live(registry[k]) THEN None ELSE registry[k]]

-----------------------------------------------------------------------------
(* Connections                                                              *)

\* A socket connects and its first session-resume is handled: the stamped
\* Case becomes the active one, and that is persisted. Without Overlap the handler
\* of the chat socket it replaces is through by then. Nothing in the code sees to
\* that: with it, the finally of the older one (CloseHandler) may put a superseded
\* turn back over a newer one.
Resume(c, k) ==
    /\ conn[c] = "new"
    /\ c \in Chat /\ ~Overlap => \A d \in Chat : conn[d] \in {"new", "closed"}
    /\ open' = [open EXCEPT ![c] = TRUE]
    /\ conn' = [conn EXCEPT ![c] = "resuming"]
    /\ active' = k
    /\ UNCHANGED <<want, pin, target, inflight, sink, registry, turnVars>>

\* ... then every live turn is taken over.
TakeOver(c) ==
    /\ conn[c] = "resuming"
    /\ conn' = [conn EXCEPT ![c] = "ready"]
    /\ Rebind(c, c, Stream)
    /\ registry' = Pruned(Stream)
    /\ UNCHANGED <<open, want, pin, target, inflight, active, turnVars>>

\* The keepalive is a session-resume as well. It leaves the active Case alone
\* and takes over every live turn.
Keepalive(c) ==
    /\ conn[c] = "ready" /\ open[c]
    /\ Rebind(c, SinkOf(c), Stream)
    /\ registry' = Pruned(Stream)
    /\ UNCHANGED <<connVars, inflight, active, turnVars>>

\* case-command(select): the Case becomes the active one and is loaded ...
SelectCase(c, k) ==
    /\ conn[c] = "ready" /\ open[c]
    /\ active' = k
    /\ want' = [want EXCEPT ![c] = k]
    /\ conn' = [conn EXCEPT ![c] = "opening"]
    /\ UNCHANGED <<open, pin, target, inflight, sink, registry, turnVars>>

\* ... then case-open takes over the turn of that Case only, unless the load
\* failed.
OpenCase(c) ==
    /\ conn[c] = "opening"
    /\ \/ /\ Rebind(c, SinkOf(c), {want[c]})
          /\ registry' = Pruned({want[c]})
       \/ UNCHANGED <<sink, registry>>
    /\ conn' = [conn EXCEPT ![c] = "ready"]
    /\ want' = [want EXCEPT ![c] = None]
    /\ UNCHANGED <<open, pin, target, inflight, active, turnVars>>

SocketLost(c) ==
    /\ open[c]
    /\ open' = [open EXCEPT ![c] = FALSE]
    /\ UNCHANGED <<conn, want, pin, target, inflight, sink, active, registry, turnVars>>

\* The finally of the handler: its turns go on, and those the registry does
\* not hold are registered again.
CloseHandler(c) ==
    /\ conn[c] \in {"resuming", "opening", "ready", "stamped", "pinned"} /\ ~open[c]
    /\ conn' = [conn EXCEPT ![c] = "closed"]
    /\ registry' = [k \in Stream |->
                      IF Live(inflight[c][k]) THEN inflight[c][k] ELSE registry[k]]
    /\ inflight' = [inflight EXCEPT ![c] = [k \in Stream |-> None]]
    /\ want' = [want EXCEPT ![c] = None]
    /\ pin' = [pin EXCEPT ![c] = None]
    /\ UNCHANGED <<open, target, sink, active, turnVars>>

-----------------------------------------------------------------------------
(* user-message                                                             *)

\* _prepare_user_turn, step 0: the stamped Case becomes the active one. The
\* persist of the pointer and the sync of the Case suspend after it.
StampMessage(c, k) ==
    /\ conn[c] = "ready" /\ c \in Chat /\ open[c]
    /\ \E t \in Turn : turn[t] = "new"
    /\ active' = k
    /\ conn' = [conn EXCEPT ![c] = "stamped"]
    /\ UNCHANGED <<open, want, pin, target, inflight, sink, registry, turnVars>>

\* The pin: the turn belongs to the Case that is active now.
PinCase(c) ==
    /\ conn[c] = "stamped"
    /\ pin' = [pin EXCEPT ![c] = active]
    /\ conn' = [conn EXCEPT ![c] = "pinned"]
    /\ UNCHANGED <<open, want, target, inflight, sink, active, registry, turnVars>>

\* Mutant: a turn started on another connection is not looked for.
PriorOnConnection(c, k) == IF Live(inflight[c][k]) THEN inflight[c][k] ELSE None

\* The turn a message in stream k supersedes.
Prior(c, k) == IF Live(inflight[c][k]) THEN inflight[c][k] ELSE Found(k)

\* From the lookup of the prior turn to the registration of the new one
\* nothing suspends.
Dispatch(c) ==
    /\ conn[c] = "pinned"
    /\ LET k     == pin[c]
           prior == Prior(c, k)
           kept  == [j \in Stream |-> IF Live(inflight[c][j]) THEN inflight[c][j] ELSE None]
       IN \E t \in Turn :
             /\ turn[t] = "new"
             /\ turn' = [(IF prior = None THEN turn ELSE Cancelled(prior))
                            EXCEPT ![t] = "running"]
             /\ key' = [key EXCEPT ![t] = k]
             /\ by' = [by EXCEPT ![t] = c]
             /\ inflight' = [inflight EXCEPT ![c] = [kept EXCEPT ![k] = t]]
             /\ registry' = [Pruned(Stream) EXCEPT ![k] = t]
    /\ Rebind(c, SinkOf(c), Stream)
    /\ conn' = [conn EXCEPT ![c] = "ready"]
    /\ pin' = [pin EXCEPT ![c] = None]
    /\ UNCHANGED <<open, want, target, active>>

-----------------------------------------------------------------------------
(* cancel                                                                   *)

LiveOf(m) == {m[k] : k \in {j \in Stream : Live(m[j])}}

\* What the stop button on c may hit: the connection's turn in the active
\* Case, else another turn of the connection (the last one it started), else
\* the registered turn of the active Case, else any registered one.
Stoppable(c) ==
    IF Live(inflight[c][active]) THEN {inflight[c][active]}
    ELSE IF LiveOf(inflight[c]) # {} THEN LiveOf(inflight[c])
    ELSE IF Live(registry[active]) THEN {registry[active]}
    ELSE LiveOf(registry)

Stop(c) ==
    /\ conn[c] = "ready" /\ c \in Chat /\ open[c]
    /\ \E t \in Stoppable(c) :
          /\ turn' = Cancelled(t)
          /\ target' = [target EXCEPT ![c] = t]
    /\ conn' = [conn EXCEPT ![c] = "waiting"]
    /\ UNCHANGED <<open, want, pin, inflight, sink, active, registry, key, by>>

\* Mutant: the handler goes on without forgetting the task.
ResumeLoop(c) == conn' = [conn EXCEPT ![c] = "ready"] /\ UNCHANGED target

BackToLoop(c) ==
    /\ conn' = [conn EXCEPT ![c] = "ready"]
    /\ target' = [target EXCEPT ![c] = None]

\* wait_for(cancel_task, 5.0): the task is done or the 5 s are over.
StopHandled(c) ==
    /\ conn[c] = "waiting"
    /\ BackToLoop(c)
    /\ UNCHANGED <<open, want, pin, inflight, sink, active, registry, turnVars>>

-----------------------------------------------------------------------------
(* Turns                                                                    *)

\* A turn completes, or a cancelled one is through with its persists.
TurnEnds(t) ==
    /\ Live(t)
    /\ turn' = [turn EXCEPT ![t] = "done"]
    /\ UNCHANGED <<connVars, inflight, sink, active, registry, key, by>>

\* Mutant: the done-callback does not look whose entry it drops.
DroppedBlindly(t) == [registry EXCEPT ![key[t]] = None]

\* _drop, the done-callback: only the entry of this very task goes.
Dropped(t) ==
    [registry EXCEPT ![key[t]] = IF @ = t THEN None ELSE @]

DoneCallback(t) ==
    /\ turn[t] = "done"
    /\ turn' = [turn EXCEPT ![t] = "dropped"]
    /\ registry' = Dropped(t)
    /\ UNCHANGED <<connVars, inflight, sink, active, key, by>>

-----------------------------------------------------------------------------
Init ==
    /\ open = [c \in Conn |-> FALSE]
    /\ conn = [c \in Conn |-> "new"]
    /\ want = [c \in Conn |-> None]
    /\ pin = [c \in Conn |-> None]
    /\ target = [c \in Conn |-> None]
    /\ inflight = [c \in Conn |-> [k \in Stream |-> None]]
    /\ sink = [c \in Conn |-> None]
    /\ active \in Stream
    /\ registry = [k \in Stream |-> None]
    /\ turn = [t \in Turn |-> "new"]
    /\ key = [t \in Turn |-> None]
    /\ by = [t \in Turn |-> None]

Next ==
    \/ \E c \in Conn :
          \/ \E k \in Stream : Resume(c, k) \/ SelectCase(c, k) \/ StampMessage(c, k)
          \/ TakeOver(c) \/ OpenCase(c)
          \/ Keepalive(c) \/ SocketLost(c) \/ CloseHandler(c)
          \/ PinCase(c) \/ Dispatch(c)
          \/ Stop(c) \/ StopHandled(c)
    \/ \E t \in Turn : TurnEnds(t) \/ DoneCallback(t)

Spec == Init /\ [][Next]_vars

\* What a handler has begun: it does not stay suspended.
Handling(c) ==
    TakeOver(c) \/ OpenCase(c) \/ PinCase(c) \/ Dispatch(c) \/ StopHandled(c)

\* An open socket sends its keepalive again and again, and since a handler takes
\* its messages in order it gets to it, however many the user sends in between.
FairSpec ==
    /\ Spec
    /\ \A c \in Conn : WF_vars(Handling(c))
    /\ \A c \in Conn \ Chat : SF_vars(Keepalive(c))

-----------------------------------------------------------------------------
\* Types. The handler waits for a cancelled task exactly while it handles a
\* cancel: it returns to its loop with nothing held.
TypeOK ==
    /\ open \in [Conn -> BOOLEAN]
    /\ conn \in [Conn -> {"new", "resuming", "ready", "opening", "stamped", "pinned",
                        "waiting", "closed"}]
    /\ want \in [Conn -> Stream \cup {None}]
    /\ pin \in [Conn -> Stream \cup {None}]
    /\ target \in [Conn -> Turn \cup {None}]
    /\ \A c \in Conn : conn[c] = "waiting" <=> target[c] # None
    /\ inflight \in [Conn -> [Stream -> Turn \cup {None}]]
    /\ sink \in [Conn -> Conn \cup {None}]
    /\ active \in Stream
    /\ registry \in [Stream -> Turn \cup {None}]
    /\ turn \in [Turn -> {"new", "running", "unwinding", "done", "dropped"}]
    /\ key \in [Turn -> Stream \cup {None}]
    /\ by \in [Turn -> Conn \cup {None}]

Running(t) == turn[t] = "running"

\* A message in a stream supersedes the turn that stream was running, on
\* whatever socket it was started: one turn at a time per Case.
OneTurnPerStream ==
    \A t, u \in Turn : Running(t) /\ Running(u) /\ key[t] = key[u] => t = u

\* inflight_turn_count() > 0
TurnInFlight == LiveOf(registry) # {}

\* is_busy() is true while a turn runs, with or without sockets.
BusyCoversTurns == (\E t \in Turn : Running(t)) => TurnInFlight

\* Every running turn is among those the stop button looks through, on every
\* chat socket: a reload does not put a turn out of the user's reach.
StopReachesTurn ==
    \A c \in Chat, t \in Turn :
        conn[c] = "ready" /\ Running(t) => t \in LiveOf(inflight[c]) \cup LiveOf(registry)

\* The frames of t go to an open socket, or neither t nor c is there any more.
Watched(t, c) == Running(t) /\ open[c]
FramesHeard(t, c) == ~Running(t) \/ ~open[c] \/ open[sink[by[t]]]

\* A dead socket does not keep the frames of a turn while an App socket, which
\* only watches, stays open: its keepalive takes them over. The turn may have
\* been started on any socket, in any Case (_rebind_live_turns).
FramesReachApp ==
    \A t \in Turn, c \in Conn \ Chat : Watched(t, c) ~> FramesHeard(t, c)
=============================================================================
