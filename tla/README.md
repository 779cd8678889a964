# GRACE-2: a TLA+ model of its session tier, its agent and its client

GRACE-2 is a chat-driven geospatial simulation service. A web client opens WebSockets to a
*session broker*; the broker gives each browser session a Fargate task of its own that runs
the Python *agent*; a scheduled Lambda, the *task reaper*, stops tasks that are idle, orphaned or
too old. Inside a task the agent runs *turns*, which outlive the socket they were started on,
ask their user questions, submit Batch jobs, and write map layers into the documents of *Cases*.

The hard part of the system lies in who may stop, answer or overwrite what while something runs:

* a task is paid for while it is up, so it must go down when nobody needs it;
* nobody may lose a simulation, a layer or an answer to that;
* no program sees the whole state: the broker trusts a table, the reaper a scan of it and a
  probe, the agent its own counters, a turn a document it has read, the client a socket that
  claims to be open; and each read is old by the time it is used.

## Inventory

`S` is `services/agent/src/grace2_agent/server.py`; broker and reaper are under
`infra/aws-agent-isolation/`.

| part | state it keeps | operations | hard behaviour | correct when |
|---|---|---|---|---|
| broker (`broker/app.py`, `routing.py`, `proxy.py`) | a lock per session, a coroutine per socket; rows of `grace2_session_routes` | resolve or provision a route, dial, pump frames | two tabs at once, deadlines, failed writes, restart | one task per session and no other session's, no task leaked, no session shut out |
| first-connect user row (`broker/app.py` 188-212, `routing.py` 72-246, `auth_handshake.py`) | the users table and its index | look up, mint | index lags the put, several sockets and programs | one identity per user |
| task reaper (`lambda/task_reaper/handler.py`) | streaks in the rows; locals of one invocation | pass 1: judge each row; pass 2: orphans and max age | judges snapshots, every call may fail, may be killed | work and provisionings are spared, the rest ends |
| agent task (ECS, `S`) | status, work, heartbeat, idle exit | start, run turns, upsert the row, exit | crash, heartbeat after a row was dropped | goes down when abandoned |
| live turns (`S` 1482-1640, 4379-4485, 13193-13441, 13681-13772) | `_SESSION_LIVE_TURNS`, `state.inflight_tasks`, `_SESSION_ACTIVE_CASE`, emitter sinks | resume, keepalive, select, message, stop, close | several sockets per session, awaits, late closes | one turn per Case, every turn counted and reachable, frames heard |
| liveness signals (`S` 1686-1808, 1975-2136) | `_SOLVE_IN_FLIGHT`, its start time, `idle_since` | start and finish a dispatch, auto-clear, sample, exit | overlapping and hung dispatches | never exits at work, exits when abandoned |
| Case documents and emitter (`persistence.py`, `pipeline_emitter.py`, `S` 5126-5199, 5526-5747, 11591 ff., 12694 ff.) | Case summaries, `_loaded_layers` per connection, the turn's pin | publish, supersede frames, union persist, sync, resume, take over, rename, delete | read-modify-write over awaits, several writers, layers that go from emitter to emitter | nothing is lost, nothing deleted comes back, every layer in its Case |
| pending gates (`S` 684-1033, 6981-7552, 8213-8900) | futures by request id, decisions of this turn | register, send, answer, time out, cancel | answer races the timeout, other sockets, other turns, a card that cannot be built | a question that was asked fails closed, no wait is lost |
| solver dispatch (`tools/solver.py`, `workflows/model_flood_scenario.py`) | in-flight jobs of the turn | submit, poll, time out, cancel | cancel races submission, completion and the terminate of the deadline | a job is collected or terminated, and never terminated after it was collected |
| single-box autostop, wake (`infra/aws-autostop`) | one streak item | check, stop, wake | stop races wake and work, lost writes | stops after a streak, and does stop |
| web client (`web/src/ws.ts`) | socket, timers, auth latch, outbound queue | connect, keepalive, refresh, queue, pause | late closes, zombie sockets, rejected tokens | never stranded, nothing sent twice |
| breaker, runaway guard, context budget, URI registry | counters and tables of one turn | record, trip, trim | limits | bounds are kept |

How they interact: client and broker by WebSocket; broker, agents and reaper only through the
routes table, ECS calls and the health endpoint (or the heartbeat in the row); sockets of one
agent through module-level dictionaries; turns through the documents of their Cases, the state of
their connection and the gate registries; a turn and its job through AWS Batch and a
`completion.json`; the reaper and the idle check read `is_busy()` over HTTP.

## Modules

| module | models | of |
|---|---|---|
| `FleetState` | shared state of the session tier, constants and their assumptions | rows: `routing.py` 435-452; `is_busy`: `S` 1776-1808 |
| `SessionBroker` | one coroutine per socket, as program counter `pc` | `app.py` 175-318, `routing.py` 249-459, `proxy.py` 185-243 |
| `TaskReaper` | one invocation, as program counter `rpc`; each AWS call is a step | `handler.py` 169-713 |
| `AgentTask` | ECS status, work, heartbeat, idle exit | `S` 1912-2136 and the turn handlers |
| `SessionPromise` | what the tier promises, without broker, table and reaper | abstract |
| `SessionFleet` | the three programs over one clock, specifications, properties, the refinement mapping | |
| `LiveTurns` | turns and sockets of one session inside one agent | |
| `AgentLiveness` | the detail behind `Busy` and `IdleExit` of `AgentTask` | |
| `CaseLayers` | Case documents, the emitters that feed them, the App's edits | |
| `CaseRail` | the list of Cases, its digest per session, the tabs that show it | |
| `PendingGates` | the questions of the turns of one connection | |
| `UserIdentity` | the first connects of one user | |
| `SolverJob` | the Batch jobs of one turn | |
| `BoxAutostop` | the idle check of the single box, wake and sleep | |
| `ClientSocket` | the client's end of the connection | |
| `...Proofs` | theorems about the module they are named for; `ChatPartsProofs` and `AgentPartsProofs` about the compositions below | |
| `MCFleet`, `MCLiveTurns`, `MCCaseLayers` | symmetry for TLC | |
| `MCChatParts`, `MCAgentParts` | several parts for one run | |

`PROJECT.json` maps every definition to its lines.

**Session tier.** A socket is a pair of session and tab. `pc` walks through `decide_route` in
its worker thread (`lock`, `read`, `run`, `waitip`, `health`, `write`, `abandon`) and
`handle_connection` (`dial`, `proxy`). The lock is held in the states of `Locked`. A task has a
status, with `stopping` for a task that was asked to stop and may still answer for a while. A row
has the four attributes the programs act on: `task_arn`, `idle_streak`, what the agent was doing
at its last heartbeat, and the age of that heartbeat. The reaper's locals are variables, since other
programs run between its calls: `rows` is its scan and is what both passes judge by, never the
table. Errors are choices of the steps where the code catches them: `Fault("describe")` and so on,
counted by `MaxFaults`. `longWork` and `polls` are history that no action reads. ECS never
reuses an ARN: `Fresh` takes one out of `Task` only if nothing remembers it. `IdleExit` keeps one
fact of the monitor's window, that a task cannot exit younger than the window.
What is dialled is the private address in the row (`routing.py` 271-283, `proxy.py` 185-203). `Dial` reaches the task of the row
while that one is up; once it is gone, `DialAnother` (the fault `"address"`) reaches any task that is up, as if the
address had been given to it. The probe of the reaper reads that address too; a green answer from the wrong task is, for what is judged,
one the right task gave just before it died.

**The promise.** `SessionPromise` has tasks that are up or going, sockets that are on a task, and
work. A socket joins only a task of its own session, and only the one its siblings are on unless that
one is going; work begins only for a client that is there; a task ends at any time after it was asked
to, or by itself. `SessionFleet` maps `life` to the ECS status, `on` to the proxied sockets, `doing` to
`Busy`, and states the refinement as `PromiseKept`.

**Live turns.** The agent runs on one asyncio loop, so a step lasts to the next place where the
coroutine may suspend. `Dispatch` (lookup of the prior turn, cancel, create, register, rebind) is
one step because nothing is awaited inside; `StampMessage` and `PinCase` are two, because the
persist of the pointer and the sync of the Case lie between them; likewise `Resume` and
`TakeOver`, `SelectCase` and `OpenCase`. `sink[c]` is the socket that the emitter of connection
`c` writes to, and a turn writes through the emitter of the connection it was started on.
`Overlap` says whether a chat socket may replace one whose handler has not yet noticed its own close.

**Liveness.** `marker` and `markerAge` are the counter of dispatches and the age of its start time,
`idleFor` the age of `idle_since`. The monitor samples every `SampleEvery` ticks and nothing
suspends between the sample and `os._exit`. With `Hangs` a dispatch may never return. One that does
not hang takes `SolveMax` at most; nothing relates that to the window `SolveStale`, since a dispatch prepares its input and waits for credentials
(`S` 10888-10947) besides the 1800 s of its wait. Only the monitor's
own read reaches the auto-clear: `is_busy()` counts the turn of the hung dispatch first. `presence` and `quietFor` are history:
how long somebody or something has been there on end, and how long ago that was longer than a sampling interval.

**Case layers.** A document is read and written as a whole, and read, merge and write of a persist are
three steps, as are read and write of the App's edits; loads, persists and edits may fail. The pin is per
connection, as in the code. A layer is named by the turn that publishes it. Turns in `frames` publish frames of one animation step: a newer
frame takes the place of an older one in the emitter (`Adding`) and, in the persist, of every stored one (`Union`, `S` 11644-11673).
The start of a turn and every resume or keepalive take over the running turns of the session's other connections, of whatever Case,
and union the layers of their emitters into this one (`TakeOver`: `S` 13268, 4479, 1611); the first resume that
finds no turn to take over replays the active Case (`Replay`), once per socket (`latch`). `stale` collects the documents that were
written from an outdated read, or not written although they should have been; `crossed` remembers that a
connection was re-aimed under a running turn, or took over layers of another Case. Both are history: the code has no defence against
either, and the properties say what holds up to them. Left out: the emitter of the App connection, from which nothing is persisted,
with the merge of other turns' layers when a Case is opened there; the late re-registration of a turn (`late_close`);
and what becomes of a deleted frame, which an older emitter may put back.

**Rail.** The list is a version number; the handler that sends it reads it, and compares, stores and sends in a later step, as
between two awaits. The wire of a tab is a set of lists, each with its socket and its place in the order of sending, since the two sockets
of a tab keep an order each and none between them. `ghosts` counts connections that are dead while the registry still has them. `astray`
remembers why the last emission may not be what the tab shows: sent to a dead connection, not read, or overtaken by
an older one on the tab's other socket. Empty lists, deletion tombstones and the list fetched over HTTP while the box is off are left out.

**Gates.** The six kinds of questions share one protocol and differ in the decisions that let a call through
(`Grants`), in what a timeout means and in what a malformed answer does. The card of a solver is built off the
loop, between the look into the memory and the registration (`Compose`). Where no card can be built (`NoCard`) or a payload estimate is
missing, fails or is small (`NoWarning`) the code dispatches the call without asking (`S` 8293, 8442-8476, 7012-7020, as the docstring at
8241 says), and so does the model: what fails closed is a question that was asked.

**Identity.** A look-up of the index may miss a row, because the index lags or because an error reads
as "no row". The broker acts on its second look-up only, the one under the lock; the agent acts on its own.

**Jobs.** `offload` says whether the turn calls `run_solver` in a thread (`asyncio.to_thread`, the
deployed setting) or on the loop; it is chosen in `Init`. A cancel may land on every await,
the terminate at the deadline included: the cancel handler then terminates a second time (`solver.py` 3291, 3318-3330).

**Autostop.** Each call of an invocation is a step; `Call` has as many members as invocations may overlap.
`calm` is false while AWS calls and probes fail; an error the probe does not catch ends the invocation (`ProbeAborts`).

**Client.** JavaScript runs one callback at a time, so a step is a callback. A socket the object has let go of
keeps its callbacks: its close event and its open handler may come late. `timers` may exceed one, since a pending
reconnect timer's handle can be overwritten. A WebSocket constructor that throws leaves a timer instead of a socket (`Throws`).

**Parts.** `LiveTurns`, `CaseLayers`, `CaseRail`, `PendingGates`, `UserIdentity` and `ClientSocket` share no state in
their models, so their product would only multiply their states. `MCChatParts` lets a behaviour pick one of
them and switches the others off, and states their properties as `part = "..." => M!P`; `MCAgentParts` does the
same for `AgentLiveness`, `LiveTurns`, `SolverJob`, `BoxAutostop` and `ClientSocket`, with the fairness of each. The
theorems of `ChatPartsProofs` and `AgentPartsProofs` are about these compositions, for all constants, by the theorems of the parts.

## Runs

| run | checks | bounds |
|---|---|---|
| `fleet_nominal` | `TypeOK`, `NoLeak`, `StreakIsEarned`, `RoutedWorkSurvives`, `DroppedRouteIsDead`, `PromiseKept` | 1 session, 2 tabs, 2 tasks, no failure, threshold 2 |
| `any_fault` | `ProvisionSafe`, `OrphanIsOrphan` | 1 tab, 2 tasks, one failure of any kind but a partial scan, a reused address included |
| `fleet_liveness` | `ScaleToZero`, `IdleTaskReaped`, `StaleRouteHeals`, `Served` | 1 tab, 1 task, two failures |
| `heartbeat_to_zero` | `ScaleToZero` in heartbeat mode | 1 tab, 1 task, one failure |
| `chat_parts` | turns: `OneTurnPerStream`, `BusyCoversTurns`, `StopReachesTurn`; layers: `PublishedIsKept`, `NoForeignLayer`, `EditsKept`; rail: `GuardLetsThrough`; gates: `AskedFailsClosed`, `FreshApproval`, `WaiterIsReachable`; `OneIdentity`; client: `NotStranded`, `HandedOnce`; `TypeOK` of each | App and 2 chat sockets, 2 Cases, 2 turns, 2 chat connections that publish, resume and take over, as `LayersBound` allows, frames, 2 commands of the App; 1 tab, 2 emitting handlers, 1 change of the list, places for 2 lists on the wire, a read 1 change behind, 1 unnoticed dead connection; 2 gates, 1 key; 2 sockets and 2 ids of one user; client: 2 sockets, 2 intents, queue of 2, 2 timers, 1 refresh |
| `agent_parts` | liveness: `MarkerNeverLeaks`, `NeverClearedEarly`, `NeverExitsAtWork`, `AbandonedExits`, `HungMarkerClears`; turns: `FramesReachApp`; jobs: `NoOrphanOnLoop`, `DoneIsLeftAlone`, `WaitEnds`; box: `AutostopIsEarned`, `IdleBoxStops`; client: `ZombieReplaced`; `TypeOK` of each | 2 overlapping turns, 1 client, a dispatch of 4 ticks for a window of 2; App and 1 chat socket; 2 jobs; 1 invocation at a time; 2 client sockets |

Six more runs end in a violation on purpose (below). `MCLiveTurns` and `MCCaseLayers`
serve only those; the passing runs of these components are in the parts.

Why the bounds are enough. One session suffices for most hazards because sessions share nothing but
the account's task quota and the global Batch guard, and `leftover` stands for a foreign job; what two
sessions could do to each other is in `Isolated` and `RowsAreOwn`, which are proved. Two
tasks are what it takes for one to be leaked or mistaken while another serves; two tabs what it
takes to race for the lock. Failures are left to `any_fault` (one tab) and to the proofs; they would double the two-tab run.
Ticks are scaled: `ProvisionTimeout` 1, `OrphanGrace` 3, `MaxAge` and
`IdleExitAfter` 4 keep the order of the deployed 90 s, 600 s, 5400 s and 1800 s that
`TimingAssumption` states (an idle exit below the maximum age is covered by `<=`; the proofs hold for every
choice). `ReaperBudget` 0 means that an invocation takes less than a tick; the proofs cover longer ones.
Two turns show supersession, late callbacks, two writers of one document and a shared memory; two Cases a re-aim and a foreign
layer; two commands a delete followed by a rename or a select. Two gates are one that was acted on and one that
asks again. Two handlers that emit the Case list are what it takes for an older
list to be sent after a newer one; with two changes of the list (1.5 million states) the guard holds as well. Two ids are one more than a user should get. Two client sockets are the fresh one and the stale one. `SolveStale` 2
and `SolveMax` 4 let a healthy dispatch outlast the window of the auto-clear, overlapped by another. `LayersBound` cuts the layers' part where a
connection was re-aimed or took over foreign layers (what comes after is `other_case`'s), lets one handler of a chat connection
work at a time, and brings the two chat connections, the commands of the App and the frames together in pairs, not all at once; the proofs
have none of these bounds. `WritesFail` is off and `Call` has one
member because `AutostopIsEarned` fails otherwise (below).
Deadlock is checked in the fleet, whose clock never stops. In the parts, sockets, turns, gates and jobs are used up and
processes exit, so those runs switch it off.

**Fairness.** `FairSpec` of the fleet: the scheduled Lambda, the broker's threads and ECS proceed (weak
fairness), a turn ends (a solve is bounded by its 1800 s), a Batch job ends, and time passes (strong, since
a wait loop at its deadline holds the clock until it moves). Clients, faults and new work have none.
`SelfExitSpec` adds the agent's monitor. `HeartbeatSpec` adds the
agent's heartbeats: every 60 s (`handler.py` 45, the loop of `S` 2016 ff.) where a row is stale after 180 s (`handler.py` 123-125,
`HbStale` 3), so not every scan finds a stale row (strong fairness on `FreshScan`). `ServingSpec` adds what a `threading.Lock` and repeated
provisioning need for a client to be served: the lock is handed on, and a task that is started again
and again does not miss the deadline every time (strong fairness on `AcquireLock`, `GotAddress`,
`HealthGreen`, `Dial`, `StartsInTime`). It is an assumption on ECS, not a promise of the code.
In the parts: the loop of the agent runs, a sample is taken, PUTs end and turns that do not hang end
(`AgentLiveness`); an App socket that stays open sends keepalives (25 s timer in `ws.ts`; strong, because
the handler may be busy between two) and a handler works through what it has begun (`LiveTurns`); the poll loop
of a wait runs and time passes (`SolverJob`: neither the job nor its worker has to end); the schedule
invokes the Lambda and an invocation ends (`BoxAutostop`); browser timers fire, a closing or connecting socket
is closed in the end and a token request ends (`ClientSocket`). Network, server and user are free everywhere.

## Where code and comments disagree

Six runs end in a violation; each is a finding in `PROJECT.json` with its lines.

* `scan_error`: a scan that fails half-way is acted upon, and tasks routed on the unread pages are stopped
  as orphans, against "no action this tick".
* `heartbeat_idle`: `hb_busy` is stored as a BOOL that the reaper cannot unwrap, so it reads as true; with
  probes out of reach as well, an idle task under an open tab stays up for good, although its heartbeats keep coming and are fresh. With the
  flag unwrapped the same run passes, so it is the flag.
* `late_close`: a late `finally` re-registers an old turn over a newer one, and the newer one runs uncounted.
* `layer_resurrects`: a layer delete is persisted, but the emitter of the chat connection still holds the layer and
  its next persist unions it back, against "cannot RESURRECT".
* `other_case`: the pin of a turn is a field of its connection, so a message in another Case re-aims a turn
  that still runs, against "a concurrent turn cannot re-aim".
* `orphan_job`: a cancel during a submission in a worker thread leaves a job that nobody terminates, against
  "a cancel that lands BEFORE wait_for_completion is awaited still terminates this Batch job".

Others were seen while modelling and have no run of their own:

* session tier: a failed `DescribeTasks` or `StopTask` drops the route of a live task; a heartbeat recreates a dropped row;
  a stale row whose address was given to another session's task leads a socket there (`Isolation` with the fault `"address"`: 2 sessions, 2 tasks);
  a turn may start between verdict and stop; the turn of a hung dispatch keeps `is_busy` up although the marker clears; a
  healthy dispatch that outlasts the window is cleared, against "NEVER falsely cleared";
* turns: the pin reads the session's pointer after several awaits, so another socket may move a message to a Case
  it was not stamped with (`S` 6034-6046); a reconnect
  or keepalive while a turn of Case A runs puts A's layers into the emitter of the connection, and its next message in Case B persists
  them in B (`S` 13268, 4479); the keepalive of a chat socket does not take its own emitter back (`S` 1599), so its
  turn stays mute when the App socket that took it is lost for good;
* rail: a turn that outlived its connection sends the changed Case list to the dead socket, and its digest keeps the
  keepalives of the tab's live sockets from sending it (`NeverLeftStale`), against "so the client is never left with a stale
  list" (`S` 5016-5019). A second tab of the session is left behind by any change in the first, for the same reason;
* gates: `ApprovalStaysInTurn` ("never leaks across turns", `S` 2351) is false for two turns of one connection; a cancel
  while a card is sent leaves its registry entry; a card without a live socket is dropped, and the local lane waits a day for an answer;
* identity: with a lagging index, or an error that reads as "no row", one user gets two ids, in the broker or in
  the agent's handshake, although the docstring of `provision_user` says the lock "fully covers" the two sockets;
* jobs: `solver.py` 3157 says the container catches SIGTERM; its entrypoint installs no handler;
* idle exit: a client or a turn that comes and goes between two samples of the monitor does not reset the clock, against "any
  client attach or any in-flight work RESETS the clock" (`S` 1987); `NeverExitsAtWork` says which stays do, and is false for shorter ones;
* autostop: a probe error outside the list at `idle_check/handler.py` 136 ends the invocation with the streak as it was,
  against "ANY busy signal [...] zeroes the countdown" (250-253); duplicate invocations may count one idle moment twice, a lost reset keeps an old streak (against lines 26-38 of
  `idle_check/handler.py`), and work that starts after the probe is killed;
* client: `AuthFirst` ("`auth-token` MUST be the FIRST envelope", `ws.ts` 1569) is false while the open handler awaits the token;
  an overwritten reconnect timer or a pending refresh reopens a session the user has paused; frames of a second live
  socket mask a dead one.

`NeverLeftStale`, `ApprovalStaysInTurn` and `AuthFirst` are in their modules for whoever wants to run them.

## Proofs

Eight modules, all for every value of the constants that meets the assumptions the modules state.

**Session tier** (`SessionFleetProofs`).

* `TypeCorrect`: `TypeOK`. The induction needs `ReaperControl` in addition: at each
  program point of the reaper, which locals are set.
* `ProvisionIsSafe`, under every fault. `ProvisionInv`
  adds that a provisioning thread is the only one that holds its task (`OwnTask`), that no row of the table or the scan
  names it (`UnroutedTask`), that its age is at most the time the thread has waited over its two loops
  (`YoungTask`), and that an entry of the reaper's listing is at most the age of the invocation older
  than that (`ListedYoung`). With `2 * ProvisionTimeout + ReaperBudget < OrphanGrace` pass 2 then keeps it.
* The invariants of the next five theorems form a ladder on `ProvisionInv`, and each rung excludes only the failures that break it.
  `SteadyInv` (`SteadyFaults`: no failed `GetItem`, no row lost to its TTL): one provisioner per session (`OneLocked`),
  no row that names a task while it provisions (`NoNameYet`), and a scanned row the reaper has yet to visit still is in the
  table with its name (`SteadyTodo`). `TableInv` (`TableFaults`: moreover no failed `DescribeTasks` or `StopTask`,
  heartbeats off): every row is complete, the scan agrees with the table on what is up (`Snapshot`), and a row about
  to be dropped names a task that is done (`Doomed`).
* `DroppedIsDead`: from `TableInv` alone, so under broker restarts, failed `PutItem` calls and everything else.
* `NothingLeaks`: `HarmlessFaults` excludes a failed `PutItem` and a broker restart as well; each of them does leak a task.
  Task crashes, failed `RunTask` calls and dials, missed deadlines, failed or partial scans, listings and probes, failed
  streak writes and deletes, and invocations killed half-way may all happen.
* `Converges`, `PromiseIsKept`: `NamedFaults` excludes a failed `PutItem` and a reused address, but not a broker restart. `HeldInv` says that a socket at a
  task that stays up is where the row of its session points (`HeldNamed`); two such sockets of one session therefore
  are at one task, and `SessionPromise` is refined action by action.
* `StreaksAreEarned`: on `SteadyInv`, when streak writes and invocations do not fail. Heartbeats, broker restarts and failed
  `DescribeTasks`, `StopTask` and `PutItem` calls are allowed. The count in table and scan is at most the history
  of idle verdicts about the very task the row names.
* Each excluded kind is excluded for a reason: one failure of it, or heartbeats, and no other failure, and TLC finds `NoLeak`,
  `DroppedRouteIsDead`, `StreakIsEarned`, `PromiseKept`, or `Convergence` violated (1 session, 2 tasks, and 2 tabs for the last two;
  `any_fault.cfg` with a single member in `Faults` and that property repeats it; for the streak with `IdleThreshold` 2).
* `OrphansAreOrphans`, `WorkSurvives`: under every fault except a partial scan. The invariant says that a task
  the scan did not map and that is old enough is not one a route will come to name: whoever may still write
  a route holds a task too young for pass 2. `WorkSurvives` adds that a verdict "idle" is about the work the task had at the scan.
* `RowsAreOwn`: under every fault, no row, scan or provisioning thread of another session ever names a task, since an ARN is not reused while
  anything remembers it. `Isolated`: unless an address is given away, and under every other fault, a socket therefore is on a task of its own session.

**One agent** (`LiveTurnsProofs`, `CaseLayersProofs`, `PendingGatesProofs`, `AgentLivenessProofs`, `ClientSocketProofs`), each carried to the
checked compositions by `ChatPartsProofs` and `AgentPartsProofs`, which hold the proofs about `UserIdentity`, `CaseRail`,
`SolverJob` and `BoxAutostop` as well.

* `ChatOneTurn`, `ChatBusyIsTrue`, `ChatStopFinds`, without `Overlap`: a running turn is registered under its
  own Case, a registered turn is in the set of its connection, and a handler past its close has no turn left to re-register over another.
* `ChatPublishedIsKept`, `ChatNoForeignLayer`, `ChatEditsKept`: while no connection was re-aimed and none took over foreign layers,
  a running turn and its connection are aimed at one Case and a settled emitter holds layers of that Case only (`Placed`). The layer of a turn,
  or a frame that took its place (`Versions`), is in the emitter, then in the merge, then in the document, or the document is accounted for as written by
  an outdated writer (`AddedKept`); a read that no write overtook agrees with the document (`DocsInv`).
* `ChatAskedFailsClosed`, `ChatFreshApproval`, `ChatWaiterIsReachable`: of questions that were asked; a call let through unasked leaves
  nothing in the memory. A pending future is registered exactly
  while its turn waits; an answer that was set was said by the owner; the memory holds granted gates which no
  turn that began later was let through on before.
* `ChatGuardLetsThrough`: a list that is under way, or about to be sent, is behind the last one sent unless it is that one (`RailInv`),
  so when all have come the only tab shows what the digest was taken of. A keepalive that skips leaves nobody behind.
* `ChatTypeOK`, `AgentTypeOK`: types of all parts of both compositions. A job is terminated twice at most.
* `ChatOneIdentity`: as long as no lookup that is acted on misses a row. The lock makes look and put one step.
* `ChatNotStranded`, `ChatHandedOnce`, `ChatStaleCloseHarmless`: for any number of sockets, timers, intents, any queue.
* `AgentMarkerHonest`, `AgentNeverClearedEarly`, `AgentNoExitAtWork`, for finitely many turns: the marker is
  the number of marks, by cardinality; its age is at most that of the oldest dispatch that does not hang, for any `SolveMax`. Who is there since before
  the last sample was seen by it (`StayIsSeen`), so the window is no longer than the time since a long stay (`WindowIsQuiet`). With
  `quietFor` counted from the start, an exit also is no younger than the window, which is the guard `IdleExit` of `AgentTask` keeps.
* `AgentNoOrphan`, `AgentDoneIsLeftAlone`: a job is tracked from its submission to its verdict, and not
  beyond; the first only when submissions run on the loop.
* `AutostopEarned`: without lost writes and overlapping invocations. The streak is at most the run of idle polls; one that broke off is none.

**Only model-checked**: the ten liveness properties (`ScaleToZero`, `StaleRouteHeals`, `IdleTaskReaped`, `Served`, `FramesReachApp`,
`AbandonedExits`, `HungMarkerClears`, `WaitEnds`, `IdleBoxStops`, `ZombieReplaced`), which need fairness and are beyond the prover.
Every invariant and every safety action property of the passing runs is a theorem.

## Not modelled

* Agent: the SIGTERM drain of coldview PUTs and its 10 s budget, chat rows and coldview
  snapshots, card states of the emitter, a malformed `completion.json`, the local and the Cloud Workflows backends of the
  solver. They are next in line.
* A second broker process: the code has a TODO for it and no mechanism to model.
* Breaker, runaway guard, context budget, URI registry: sequential code of one turn that unit tests reach.
* Model adapters, sign-in, sandbox, telemetry, catalogue; the Case Lambdas (stateless), the ops watchdog (changes nothing);
  schemas and terraform, apart from the values that set the constants.
* Tools, workflows and workers, by far the most lines of the repository: several hundred data fetchers,
  numerical set-ups and post-processing, and the rendering in the web client. They keep no protocol state, and what a
  model checker could say of them is not what could be wrong with them. The share of the implementation's lines that the map
  covers is small for that reason.
