----------------------------- MODULE UserIdentity -----------------------------
(***************************************************************************)
(* The first connects of one signed-in user: his two sockets ask the       *)
(* broker for the internal id of his Cognito sub, and the agent behind it  *)
(* asks again. Whoever finds no row makes one. The rows are found through  *)
(* a secondary index, which lags behind the table.                         *)
(***************************************************************************)
CONSTANTS
    Conn,   \* the sockets of the user that connect at the same time
    Ulid,   \* fresh ids: a bound
    None

VARIABLES
    rows,    \* the ids of the users rows of this sub
    indexed, \* those the index shows
    pc,      \* Conn -> where its connect is
    uid,     \* Conn -> the id it was resolved to, or None
    holder,  \* who holds the provisioning lock of the sub
    missed   \* history: a lookup somebody acted on did not see a row that is there

vars == <<rows, indexed, pc, uid, holder, missed>>

IdentityAssumption == None \notin Conn \cup Ulid

Missing == rows # {}

-----------------------------------------------------------------------------
\* A query of the index, and what is done next with the id or without one. An error
\* reads as no row.
Lookup(c, found, absent, decides) ==
    \/ \E u \in indexed :
          /\ uid' = [uid EXCEPT ![c] = u]
          /\ pc' = [pc EXCEPT ![c] = found]
          /\ UNCHANGED missed
    \/ /\ pc' = [pc EXCEPT ![c] = absent]
       /\ uid' = [uid EXCEPT ![c] = None]
       /\ missed' = (missed \/ (decides /\ Missing))

Connects(c) ==
    /\ pc[c] = "new"
    /\ Lookup(c, "agent", "lock", FALSE)
    /\ UNCHANGED <<rows, indexed, holder>>

\* Mutant: what was read before the lock is trusted.
Trusted(c) ==
    /\ pc' = [pc EXCEPT ![c] = "put"]
    /\ UNCHANGED <<uid, missed>>

\* Under the lock the sub is looked up again.
Recheck(c) == Lookup(c, "release", "put", TRUE)

Locks(c) ==
    /\ pc[c] = "lock" /\ holder = None
    /\ holder' = c
    /\ Recheck(c)
    /\ UNCHANGED <<rows, indexed>>

Fresh(u) == u \notin rows /\ \A c \in Conn : uid[c] # u

Made(c, u) ==
    /\ Fresh(u)
    /\ rows' = rows \cup {u}
    /\ uid' = [uid EXCEPT ![c] = u]

\* provision_user: the put is conditional on an id that is fresh anyway.
Provisions(c) ==
    /\ pc[c] = "put"
    /\ \E u \in Ulid : Made(c, u)
    /\ pc' = [pc EXCEPT ![c] = "release"]
    /\ UNCHANGED <<indexed, holder, missed>>

\* The put fails: look again, else the connect is rejected.
PutFails(c) ==
    /\ pc[c] = "put"
    /\ Lookup(c, "release", "reject", FALSE)
    /\ UNCHANGED <<rows, indexed, holder>>

Unlocks(c) ==
    /\ pc[c] \in {"release", "reject"}
    /\ holder' = None
    /\ pc' = [pc EXCEPT ![c] = IF @ = "release" THEN "agent" ELSE "new"]
    /\ UNCHANGED <<rows, indexed, uid, missed>>

\* _resolve_or_provision_user, in the handshake of the agent.
Handshake(c) ==
    /\ pc[c] = "agent"
    /\ Lookup(c, "bound", "upsert", TRUE)
    /\ UNCHANGED <<rows, indexed, holder>>

AgentProvisions(c) ==
    /\ pc[c] = "upsert"
    /\ \E u \in Ulid : Made(c, u)
    /\ pc' = [pc EXCEPT ![c] = "bound"]
    /\ UNCHANGED <<indexed, holder, missed>>

\* The upsert fails: the agent goes on with an id that no row has.
UpsertFails(c) ==
    /\ pc[c] = "upsert"
    /\ \E u \in Ulid : Fresh(u) /\ uid' = [uid EXCEPT ![c] = u]
    /\ pc' = [pc EXCEPT ![c] = "bound"]
    /\ UNCHANGED <<rows, indexed, holder, missed>>

\* The socket is closed; the client connects again.
Reconnects(c) ==
    /\ pc[c] = "bound"
    /\ pc' = [pc EXCEPT ![c] = "new"]
    /\ uid' = [uid EXCEPT ![c] = None]
    /\ UNCHANGED <<rows, indexed, holder, missed>>

Indexed(u) ==
    /\ u \in rows \ indexed
    /\ indexed' = indexed \cup {u}
    /\ UNCHANGED <<rows, pc, uid, holder, missed>>

-----------------------------------------------------------------------------
Init ==
    /\ rows = {} /\ indexed = {}
    /\ pc = [c \in Conn |-> "new"]
    /\ uid = [c \in Conn |-> None]
    /\ holder = None /\ missed = FALSE

Next ==
    \/ \E c \in Conn : \/ Connects(c) \/ Locks(c) \/ Provisions(c) \/ PutFails(c)
                       \/ Unlocks(c) \/ Handshake(c) \/ AgentProvisions(c) \/ UpsertFails(c)
                       \/ Reconnects(c)
    \/ \E u \in Ulid : Indexed(u)

Spec == Init /\ [][Next]_vars

-----------------------------------------------------------------------------
\* Types. The lock is held exactly while somebody provisions.
TypeOK ==
    /\ rows \subseteq Ulid /\ indexed \subseteq rows
    /\ pc \in [Conn -> {"new", "lock", "put", "release", "reject", "agent", "upsert", "bound"}]
    /\ uid \in [Conn -> Ulid \cup {None}]
    /\ \A c \in Conn : holder = c <=> pc[c] \in {"put", "release", "reject"}
    /\ missed \in BOOLEAN

\* Two sockets that connect together get one user, made once, as long as every
\* lookup somebody acts on sees what is in the table: the broker's alone would not
\* do ("serialized per-sub so a tab's two sockets do not both create").
OneIdentity ==
    ~missed => /\ \A u, v \in rows : u = v
               /\ \A c, d \in Conn : uid[c] # None /\ uid[d] # None => uid[c] = uid[d]
=============================================================================
