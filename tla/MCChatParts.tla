----------------------------- MODULE MCChatParts -----------------------------
(***************************************************************************)
(* The parts of a chat session that share no state in their models, for    *)
(* one run of TLC: a behaviour picks a part and runs it, the others are    *)
(* off. The parts take their small sets from the same constants, so that   *)
(* few permutations serve them all.                                        *)
(***************************************************************************)
EXTENDS Naturals, FiniteSets, TLC

CONSTANTS
    Conn, Chat, Case, Turn, Writer, Key, None, Never, Owner, Stranger,
    MaxCommands, MaxQueue, MaxTimers, MaxRefreshes, MaxVersion, MaxGhosts, MaxWire, Lag

VARIABLES
    part,
    \* LiveTurns
    open, conn, want, lastPin, waitsFor, inflight, sink, onView, registry, task, stream, socket,
    \* CaseLayers
    doc, frames, commands, active, edit, handler, loading, got, emitter, synced, pin, latch, turn,
    key, by, target, merged, stopped, added, gone, edited, stale, crossed,
    \* CaseRail
    version, known, resumed, ghosts, job, wire, rail, astray,
    \* PendingGates
    lane, pc, wants, asks, card, fut, registered, memory, said, passed, before,
    \* UserIdentity
    rows, indexed, step, uid, holder, missed,
    \* ClientSocket
    net, token, first, refused, current, timers, held, keepalive, pong, closed, failed,
    tried, refreshes, expired, queue, sent

LT == INSTANCE LiveTurnsProofs WITH
        Overlap <- FALSE, Stream <- Case, pin <- lastPin, target <- waitsFor, active <- onView,
        turn <- task, key <- stream, by <- socket
CL == INSTANCE CaseLayersProofs
CR == INSTANCE CaseRail WITH Tab <- Writer, Handler <- Turn
PG == INSTANCE PendingGatesProofs WITH Gate <- Case
UI == INSTANCE UserIdentity WITH Conn <- Chat, Ulid <- Case, pc <- step
CS == INSTANCE ClientSocketProofs WITH Socket <- Case, Intent <- Chat

ASSUME PartsAssumption ==
    /\ LT!TurnsAssumption /\ CL!CaseAssumption /\ CR!RailAssumption /\ PG!GateAssumption
    /\ UI!IdentityAssumption /\ CS!SocketAssumption

turnsVars == <<open, conn, want, lastPin, waitsFor, inflight, sink, onView, registry, task,
               stream, socket>>
layersVars == <<doc, frames, commands, active, edit, handler, loading, got, emitter, synced, pin,
                latch, turn, key, by, target, merged, stopped, added, gone, edited, stale, crossed>>
railVars == <<version, known, resumed, ghosts, job, wire, rail, astray>>
gatesVars == <<lane, pc, wants, asks, card, fut, registered, memory, said, passed, before>>
identityVars == <<rows, indexed, step, uid, holder, missed>>
clientVars == <<net, token, first, refused, current, timers, held, keepalive, pong, closed,
                failed, tried, refreshes, expired, queue, sent>>
partVars == <<turnsVars, layersVars, railVars, gatesVars, identityVars, clientVars>>

\* A part that is not run: its variables mean nothing.
TurnsOff ==
    /\ open = None /\ conn = None /\ want = None /\ lastPin = None /\ waitsFor = None
    /\ inflight = None /\ sink = None /\ onView = None /\ registry = None /\ task = None
    /\ stream = None /\ socket = None

LayersOff ==
    /\ doc = None /\ frames = None /\ latch = None /\ commands = None /\ active = None
    /\ edit = None /\ handler = None
    /\ loading = None /\ got = None /\ emitter = None /\ synced = None /\ pin = None
    /\ turn = None /\ key = None /\ by = None /\ target = None /\ merged = None
    /\ stopped = None /\ added = None /\ gone = None /\ edited = None /\ stale = None
    /\ crossed = None

RailOff ==
    /\ version = None /\ known = None /\ resumed = None /\ ghosts = None /\ job = None
    /\ wire = None /\ rail = None /\ astray = None

GatesOff ==
    /\ lane = None /\ pc = None /\ wants = None /\ asks = None /\ card = None /\ fut = None
    /\ registered = None /\ memory = None /\ said = None /\ passed = None /\ before = None

IdentityOff ==
    /\ rows = None /\ indexed = None /\ step = None /\ uid = None /\ holder = None
    /\ missed = None

ClientOff ==
    /\ net = None /\ token = None /\ first = None /\ refused = None /\ current = None
    /\ timers = None /\ held = None /\ keepalive = None /\ pong = None /\ closed = None
    /\ failed = None /\ tried = None /\ refreshes = None /\ expired = None /\ queue = None
    /\ sent = None

Init ==
    \/ part = "turns" /\ LT!Init
       /\ LayersOff /\ RailOff /\ GatesOff /\ IdentityOff /\ ClientOff
    \/ part = "layers" /\ CL!Init
       /\ TurnsOff /\ RailOff /\ GatesOff /\ IdentityOff /\ ClientOff
    \/ part = "rail" /\ CR!Init
       /\ TurnsOff /\ LayersOff /\ GatesOff /\ IdentityOff /\ ClientOff
    \/ part = "gates" /\ PG!Init
       /\ TurnsOff /\ LayersOff /\ RailOff /\ IdentityOff /\ ClientOff
    \/ part = "identity" /\ UI!Init
       /\ TurnsOff /\ LayersOff /\ RailOff /\ GatesOff /\ ClientOff
    \/ part = "client" /\ CS!Init
       /\ TurnsOff /\ LayersOff /\ RailOff /\ GatesOff /\ IdentityOff

Next ==
    \/ part = "turns" /\ LT!Next
       /\ UNCHANGED <<part, layersVars, railVars, gatesVars, identityVars, clientVars>>
    \/ part = "layers" /\ CL!Next
       /\ UNCHANGED <<part, turnsVars, railVars, gatesVars, identityVars, clientVars>>
    \/ part = "rail" /\ CR!Next
       /\ UNCHANGED <<part, turnsVars, layersVars, gatesVars, identityVars, clientVars>>
    \/ part = "gates" /\ PG!Next
       /\ UNCHANGED <<part, turnsVars, layersVars, railVars, identityVars, clientVars>>
    \/ part = "identity" /\ UI!Next
       /\ UNCHANGED <<part, turnsVars, layersVars, railVars, gatesVars, clientVars>>
    \/ part = "client" /\ CS!Next
       /\ UNCHANGED <<part, turnsVars, layersVars, railVars, gatesVars, identityVars>>

Spec == Init /\ [][Next]_<<part, partVars>>

Symmetry == Permutations(Chat) \cup Permutations(Case) \cup Permutations(Turn)

\* Bounds of the layers: what happens after a connection was re-aimed is for the run
\* other_case; a socket resumes before it asks, and one handler of a chat socket is busy
\* at a time. The App sends two commands only to one chat socket and without frames, and
\* a second chat socket is there if it sends none.
LayersBound ==
    part = "layers" =>
        /\ ~crossed
        /\ \A c \in Chat : latch[c] = "none" => handler[c] = "idle" /\ synced[c] = Never
        /\ Cardinality({c \in Chat : handler[c] # "idle"}) <= 1
        /\ \/ commands = 0 /\ frames # {}
           \/ Cardinality({c \in Chat : latch[c] # "none"}) <= 1
        /\ commands > 1 => frames = {}

-----------------------------------------------------------------------------
\* Types, of every part.
TypeOK ==
    /\ part = "turns" => LT!TypeOK
    /\ part = "layers" => CL!TypeOK
    /\ part = "rail" => CR!TypeOK
    /\ part = "gates" => PG!TypeOK
    /\ part = "identity" => UI!TypeOK
    /\ part = "client" => CS!TypeOK

\* LiveTurns: one turn at a time per Case, on whatever socket it was started.
OneTurnPerStream == part = "turns" => LT!OneTurnPerStream

\* LiveTurns: is_busy() is true while a turn runs, with or without sockets.
BusyCoversTurns == part = "turns" => LT!BusyCoversTurns

\* LiveTurns: the stop button of every chat socket reaches every running turn.
StopReachesTurn == part = "turns" => LT!StopReachesTurn

\* CaseLayers: a persisted layer, or a newer frame of it, stays in its Case until the
\* user deletes it.
PublishedIsKept == part = "layers" => CL!PublishedIsKept

\* CaseLayers: a Case holds no layer of another one.
NoForeignLayer == part = "layers" => CL!NoForeignLayer

\* CaseLayers: a name or a deletion is undone only by a writer with an older read.
EditsKept == part = "layers" => CL!EditsKept

\* CaseRail: the digest keeps no list from a tab that it was not sent to.
GuardLetsThrough == part = "rail" => CR!GuardLetsThrough

\* PendingGates: no call goes through a question without its owner's decision.
AskedFailsClosed == part = "gates" => PG!AskedFailsClosed

\* PendingGates: a decision acted on before the turn began is asked for again.
FreshApproval == part = "gates" => PG!FreshApproval

\* PendingGates: a turn that waits unanswered can still be answered.
WaiterIsReachable == part = "gates" => PG!WaiterIsReachable

\* UserIdentity: the sockets that connect together get one user.
OneIdentity == part = "identity" => UI!OneIdentity

\* ClientSocket: the client never gives up by itself.
NotStranded == part = "client" => CS!NotStranded

\* ClientSocket: what the user does is handed to a socket once at most.
HandedOnce == part = "client" => CS!HandedOnce

\* ClientSocket: a late close takes nothing from the socket that replaced it.
StaleCloseHarmless == [][part = "client" => CS!LateCloseLeavesFresh]_clientVars
=============================================================================
