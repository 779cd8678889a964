---------------------------- MODULE SessionBroker ----------------------------
(***************************************************************************)
(* The session broker: one coroutine per client socket, which resolves the *)
(* route of its session or provisions a task for it (in a worker thread,   *)
(* under the lock of that session) and then pumps frames to the task.      *)
(***************************************************************************)
EXTENDS FleetState

\* Everything but the sockets, the table and the tasks.
notBroker == <<reaperVars, history>>

Goto(c, where) == pc' = [pc EXCEPT ![c] = where]

\* The coroutine ends: the client sees a close and may connect again.
Close(c) ==
    /\ Goto(c, "closed")
    /\ dest' = [dest EXCEPT ![c] = None]
    /\ wait' = [wait EXCEPT ![c] = 0]

StartWait(c, where) ==
    /\ Goto(c, where)
    /\ wait' = [wait EXCEPT ![c] = 0]

TimedOut(c) == wait[c] >= ProvisionTimeout

-----------------------------------------------------------------------------
(* decide_route                                                             *)

\* A verified client opens a socket; decide_route starts in its own thread.
Connect(c) ==
    /\ pc[c] = "closed"
    /\ Goto(c, "lock")
    /\ NoFault
    /\ UNCHANGED <<dest, wait, route, ecsVars, notBroker>>

\* Mutant: no per-session lock.
LockNotTaken(s) == TRUE

\* The lock of _lock_for(user_ulid, session_id) is free.
LockFree(s) ==
    \A d \in Sock : SessionOf(d) = s => pc[d] \notin Locked

AcquireLock(c) ==
    /\ pc[c] = "lock"
    /\ LockFree(SessionOf(c))
    /\ Goto(c, "read")
    /\ NoFault
    /\ UNCHANGED <<dest, wait, route, ecsVars, notBroker>>

\* resolve_route: a present row is presumed live; a read error is a miss.
ResolveRoute(c) ==
    /\ pc[c] = "read"
    /\ UNCHANGED <<wait, route, ecsVars, notBroker>>
    /\ \/ /\ Hit(SessionOf(c))
          /\ Goto(c, "dial")
          /\ dest' = [dest EXCEPT ![c] = route[SessionOf(c)].arn]
          /\ NoFault
       \/ /\ ~Hit(SessionOf(c))
          /\ Goto(c, "run")
          /\ NoFault /\ UNCHANGED dest
       \/ /\ Hit(SessionOf(c))
          /\ Goto(c, "run")
          /\ Fault("getroute") /\ UNCHANGED dest

-----------------------------------------------------------------------------
(* provision_task                                                           *)

RunTask(c) ==
    /\ pc[c] = "run"
    /\ \E t \in Task :
          /\ Fresh(t)
          /\ st' = [st EXCEPT ![t] = "pending"]
          /\ owner' = [owner EXCEPT ![t] = SessionOf(c)]
          /\ polls' = [polls EXCEPT ![t] = 0]
          /\ dest' = [dest EXCEPT ![c] = t]
    /\ StartWait(c, "waitip")
    /\ NoFault
    /\ UNCHANGED <<age, work, leftover, route, reaperVars, longWork>>

\* No capacity left in the account, or the call failed: close 4401.
RunTaskFails(c) ==
    /\ pc[c] = "run"
    /\ \/ (\A t \in Task : ~Fresh(t)) /\ NoFault
       \/ Fault("runtask")
    /\ Close(c)
    /\ UNCHANGED <<route, ecsVars, notBroker>>

\* _wait_running_ip sees RUNNING and an address. A task whose stop was asked
\* for still reports RUNNING for a while.
GotAddress(c) ==
    /\ pc[c] = "waitip"
    /\ Alive(dest[c])
    /\ StartWait(c, "health")
    /\ NoFault
    /\ UNCHANGED <<dest, route, ecsVars, notBroker>>

\* _wait_running_ip sees the task stopped, or its 90 s are over.
NoAddress(c) ==
    /\ pc[c] = "waitip"
    /\ TimedOut(c) \/ st[dest[c]] \in {"gone", "stopping"}
    /\ Goto(c, "abandon")
    /\ NoFault
    /\ UNCHANGED <<dest, wait, route, ecsVars, notBroker>>

HealthGreen(c) ==
    /\ pc[c] = "health"
    /\ Alive(dest[c])
    /\ Goto(c, "write")
    /\ NoFault
    /\ UNCHANGED <<dest, wait, route, ecsVars, notBroker>>

\* The health loop has no other exit: it does not look at lastStatus.
NeverGreen(c) ==
    /\ pc[c] = "health"
    /\ TimedOut(c)
    /\ Goto(c, "abandon")
    /\ NoFault
    /\ UNCHANGED <<dest, wait, route, ecsVars, notBroker>>

\* _write_route is an unconditional put; the route is returned, and the lock
\* released, whether or not it succeeded.
WriteRoute(c) ==
    /\ pc[c] = "write"
    /\ \/ /\ route' = [route EXCEPT ![SessionOf(c)] = RouteItem(dest[c])]
          /\ NoFault
       \/ Fault("putroute") /\ UNCHANGED route
    /\ StartWait(c, "dial")
    /\ UNCHANGED <<dest, ecsVars, notBroker>>

\* Mutant: provision_task returns None without _safe_stop.
AbandonWithoutStop(c) ==
    /\ pc[c] = "abandon"
    /\ NoFault /\ UNCHANGED st
    /\ Close(c)
    /\ UNCHANGED <<route, owner, age, work, leftover, notBroker>>

\* _safe_stop, then None: close 4401.
Abandon(c) ==
    /\ pc[c] = "abandon"
    /\ \/ StopIssued(dest[c]) /\ NoFault
       \/ Fault("stoptask") /\ UNCHANGED st
    /\ Close(c)
    /\ UNCHANGED <<route, owner, age, work, leftover, notBroker>>

-----------------------------------------------------------------------------
(* handle_connection after decide_route                                     *)

Dial(c) ==
    /\ pc[c] = "dial"
    /\ Alive(dest[c])
    /\ Goto(c, "proxy")
    /\ NoFault
    /\ UNCHANGED <<dest, wait, route, ecsVars, notBroker>>

\* The row's private address, not its ARN, is what is dialled: once its task is
\* gone the address may be that of another task, of any session.
DialAnother(c) ==
    /\ pc[c] = "dial"
    /\ st[dest[c]] = "gone"
    /\ Fault("address")
    /\ \E t \in Task : Alive(t) /\ dest' = [dest EXCEPT ![c] = t]
    /\ Goto(c, "proxy")
    /\ UNCHANGED <<wait, route, ecsVars, notBroker>>

\* open_upstream fails: close 1013, the client retries. The row stays.
DialFails(c) ==
    /\ pc[c] = "dial"
    /\ \/ ~Alive(dest[c]) /\ NoFault
       \/ st[dest[c]] = "stopping" /\ NoFault
       \/ Fault("dial")
    /\ Close(c)
    /\ UNCHANGED <<route, ecsVars, notBroker>>

\* proxy_frames ends because the client left.
ClientLeaves(c) ==
    /\ pc[c] = "proxy"
    /\ Close(c)
    /\ NoFault
    /\ UNCHANGED <<route, ecsVars, notBroker>>

\* proxy_frames ends because the task's side closed; the close is passed on.
UpstreamCloses(c) ==
    /\ pc[c] = "proxy"
    /\ st[dest[c]] \in {"gone", "stopping"}
    /\ Close(c)
    /\ NoFault
    /\ UNCHANGED <<route, ecsVars, notBroker>>

\* The broker process restarts: every socket, thread and lock is gone.
BrokerRestarts ==
    /\ Fault("broker")
    /\ pc' = [c \in Sock |-> "closed"]
    /\ dest' = [c \in Sock |-> None]
    /\ wait' = [c \in Sock |-> 0]
    /\ UNCHANGED <<route, ecsVars, notBroker>>

-----------------------------------------------------------------------------
\* What the broker does by itself, once a client has connected.
BrokerStep(c) ==
    \/ AcquireLock(c)
    \/ ResolveRoute(c)
    \/ RunTask(c)
    \/ RunTaskFails(c)
    \/ GotAddress(c)
    \/ NoAddress(c)
    \/ HealthGreen(c)
    \/ NeverGreen(c)
    \/ WriteRoute(c)
    \/ Abandon(c)
    \/ Dial(c)
    \/ DialFails(c)
    \/ UpstreamCloses(c)

BrokerNext ==
    \/ \E c \in Sock : BrokerStep(c) \/ Connect(c) \/ ClientLeaves(c) \/ DialAnother(c)
    \/ BrokerRestarts
=============================================================================
