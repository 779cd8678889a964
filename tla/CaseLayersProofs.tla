--------------------------- MODULE CaseLayersProofs ---------------------------
(***************************************************************************)
(* Theorems about the layers of the Cases, for any number of connections,  *)
(* Cases and turns. LayersInv strengthens the invariants of CaseLayers     *)
(* with what they rest on: a turn that runs and its connection are aimed   *)
(* at the same Case, and what a reader holds of a document is what the     *)
(* document still says, unless somebody wrote it since.                    *)
(***************************************************************************)
EXTENDS CaseLayers, TLAPS

-----------------------------------------------------------------------------
Reading(c) == handler[c] \in {"reading", "read"}

Loading(c) == handler[c] \in {"reading", "read", "replaying", "replayed"}

\* The emitter of c holds layers of the Case it was synced to, if any.
Settled(c) == handler[c] \notin {"stamped", "reading", "read"}

Persisting(t) == turn[t] \in {"merge", "write"}

Working(t) == turn[t] \in {"tool", "persist"} \/ Persisting(t)

TypeInv ==
    /\ TypeOK
    /\ loading \in [Chat -> Case \cup {None}]
    /\ got \in [Chat -> SUBSET Turn]
    /\ turn \in [Turn -> {"new", "running", "tool", "persist", "merge", "write", "done"}]
    /\ key \in [Turn -> Case \cup {None}]
    /\ by \in [Turn -> Chat \cup {None}]
    /\ target \in [Turn -> Case \cup {None}]
    /\ merged \in [Turn -> Merge \cup {None}]
    /\ edit \in Edit \cup {None}
    /\ edited \in [Case -> [status : {"absent", "active", "deleted"}, title : {"old", "new"}]]
    /\ stale \subseteq Case
    /\ crossed \in BOOLEAN
    /\ \A t \in Turn : /\ turn[t] # "new" => by[t] \in Chat
                       /\ Persisting(t) => target[t] \in Case
                       /\ t \in added => turn[t] # "new"

\* A Case that is on view, or that a turn was pinned to, is never absent again.
CasesExist ==
    /\ active # None => Exists(active)
    /\ \A t \in Turn : key[t] # None => Exists(key[t])
    /\ \A t \in Turn : Persisting(t) => merged[t].new.status # "absent"
    /\ edit # None => edit.new.status # "absent"

\* A read nobody wrote after says of the Case what its document says.
ReadsAgree ==
    /\ \A t \in Turn : Persisting(t) /\ merged[t].fresh =>
          /\ merged[t].new.status = doc[target[t]].status
          /\ merged[t].new.title = doc[target[t]].title
    /\ edit # None /\ edit.fresh =>
          /\ edit.new.status = doc[edit.case].status
          /\ edit.new.title = IF edit.named = {} THEN doc[edit.case].title ELSE "new"

-----------------------------------------------------------------------------
(* As long as no connection was re-aimed                                    *)

DocsPlaced == \A k \in Case : doc[k].layers \subseteq Belongs(k)

EmittersPlaced ==
    \A c \in Chat :
        /\ Settled(c) /\ synced[c] # Never => emitter[c] \subseteq Belongs(synced[c])
        /\ handler[c] = "stamped" => synced[c] = Never
        /\ Reading(c) => synced[c] = loading[c]
        /\ handler[c] \in {"read", "replayed"} => got[c] \subseteq Belongs(loading[c])

\* A turn that runs finds the pin of its connection where it set it.
TurnsAimed ==
    \A t \in Turn : Live(t) =>
        /\ pin[by[t]] = key[t]
        /\ Settled(by[t]) /\ synced[by[t]] # Never => synced[by[t]] = key[t]
        /\ emitter[by[t]] \subseteq Belongs(key[t])
        /\ Working(t) /\ key[t] # None => target[t] = key[t]

WritersPlaced ==
    /\ \A t \in Turn : Persisting(t) => merged[t].new.layers \subseteq Belongs(target[t])
    /\ edit # None => edit.new.layers \subseteq Belongs(edit.case)

Placed == DocsPlaced /\ EmittersPlaced /\ TurnsAimed /\ WritersPlaced

\* The layer of t, or a frame that took its place, is in its Case or accounted for.
Safe(t) == Versions(t) \cap (doc[key[t]].layers \cup gone) # {} \/ key[t] \in stale

\* Where a frame is newer, it stands for the others.
Slot(t) == IF t \in frames THEN frames ELSE {t}

\* Where the layer of a turn is, at each point of its life.
AddedKept ==
    \A t \in added :
        /\ Live(t) => Slot(t) \cap emitter[by[t]] # {}
        /\ turn[t] = "write" => Slot(t) \cap merged[t].new.layers # {}
        /\ /\ key[t] # None
           /\ \/ turn[t] \in {"running", "tool", "done"}
              \/ turn[t] = "merge" /\ Slot(t) \cap merged[t].new.layers # {}
           => Safe(t)

\* What is read loses no layer, but frames to a newer one.
Keeps(read, new) ==
    /\ read \ frames \subseteq new
    /\ read \cap frames # {} => new \cap frames # {}

\* A read nobody wrote after drops no layer but the one the user deletes.
ReadsComplete ==
    /\ \A t \in Turn : Persisting(t) /\ merged[t].fresh =>
          Keeps(doc[target[t]].layers, merged[t].new.layers)
    /\ edit # None /\ edit.fresh =>
          doc[edit.case].layers \subseteq edit.new.layers \cup edit.dropped

DocsInv == EditsKept /\ ReadsAgree /\ ReadsComplete

LayersInv ==
    /\ TypeInv /\ CasesExist /\ DocsInv
    /\ crossed \/ (Placed /\ AddedKept)

-----------------------------------------------------------------------------
(* Records with one field changed                                           *)

LEMMA WithStatus ==
    ASSUME NEW d \in Summary, NEW s \in {"absent", "active", "deleted"}, NEW e,
           e = [d EXCEPT !.status = s]
    PROVE  e \in Summary /\ e.status = s /\ e.title = d.title /\ e.layers = d.layers
BY DEF Summary

LEMMA WithTitle ==
    ASSUME NEW d \in Summary, NEW s \in {"old", "new"}, NEW e, e = [d EXCEPT !.title = s]
    PROVE  e \in Summary /\ e.status = d.status /\ e.title = s /\ e.layers = d.layers
BY DEF Summary

LEMMA WithLayers ==
    ASSUME NEW d \in Summary, NEW ls \in SUBSET Turn, NEW e, e = [d EXCEPT !.layers = ls]
    PROVE  e \in Summary /\ e.status = d.status /\ e.title = d.title /\ e.layers = ls
BY DEF Summary

LEMMA SameSummary ==
    ASSUME NEW d \in Summary, NEW e \in Summary,
           e.status = d.status, e.title = d.title, e.layers = d.layers
    PROVE  e = d
BY DEF Summary

LEMMA OutdatedType ==
    ASSUME CaseAssumption, NEW r \in Merge \cup {None}
    PROVE  /\ Outdated(r) \in Merge \cup {None}
           /\ Outdated(r) = None <=> r = None
           /\ r # None => Outdated(r).new = r.new /\ ~Outdated(r).fresh
BY DEF CaseAssumption, Outdated, Merge

LEMMA EditOutdatedType ==
    ASSUME CaseAssumption, edit \in Edit \cup {None}, NEW k \in Case
    PROVE  /\ EditOutdated(k) \in Edit \cup {None}
           /\ edit = None => EditOutdated(k) = None
           /\ edit # None => /\ EditOutdated(k) # None
                             /\ EditOutdated(k).case = edit.case
                             /\ EditOutdated(k).new = edit.new
                             /\ EditOutdated(k).named = edit.named
                             /\ EditOutdated(k).dropped = edit.dropped
                             /\ EditOutdated(k).fresh => edit.fresh /\ edit.case # k
BY DEF CaseAssumption, EditOutdated, Outdated, Edit

\* What a turn and an edit know is not of the handlers' doing.
HandlerStep(c) ==
    \/ AskHere(c) \/ Sync(c) \/ ReadCase(c) \/ LoadCase(c) \/ LoadFails(c)
    \/ Pin(c) \/ LeftAtRoot(c) \/ AutoCreate(c)
    \/ Resume(c) \/ Rebind(c) \/ ReplayRead(c) \/ Replay(c) \/ ReplayFails(c)
    \/ \E k \in Case : AskElsewhere(c, k)

TurnStep(t) ==
    \/ DispatchTool(t) \/ AddLayer(t) \/ NoLayer(t) \/ PersistRead(t) \/ PersistMerge(t)
    \/ PersistWrite(t) \/ PersistFails(t) \/ EndTurn(t)

AppStep ==
    \/ \E k \in Case : SelectCase(k) \/ DeleteCase(k) \/ RenameRead(k)
    \/ \E t \in Turn : DeleteLayerRead(t)
    \/ Deselect \/ EditWrite \/ EditFails

LEMMA NextSplit ==
    Next => /\ frames' = frames
            /\ \/ \E c \in Chat : HandlerStep(c)
               \/ \E t \in Turn : TurnStep(t)
               \/ AppStep
BY DEF Next, HandlerStep, TurnStep, AppStep

LEMMA TakeOverTypes ==
    ASSUME TypeInv, NEW c \in Chat, TakeOver(c)
    PROVE  emitter' \in [Chat -> SUBSET Turn]
<1>1. \A t \in Others(c) : by[t] \in Chat
  BY DEF Others, Live, TypeInv
<1>2. UNION {emitter[by[t]] : t \in Others(c)} \in SUBSET Turn
  BY <1>1 DEF TypeInv, TypeOK
<1> QED
  BY <1>2 DEF TakeOver, TypeInv, TypeOK

LEMMA StartTypes ==
    ASSUME CaseAssumption, TypeInv, NEW c \in Chat, NEW k \in Case \cup {None}, Start(c, k),
           UNCHANGED <<active, frames>>, ~Loading(c)
    PROVE  TypeInv'
<1>1. emitter' \in [Chat -> SUBSET Turn]
  BY TakeOverTypes DEF Start
<1>2. /\ pin' \in [Chat -> Case \cup {None}] /\ stopped' \subseteq Turn /\ crossed' \in BOOLEAN
      /\ handler' = [handler EXCEPT ![c] = "idle"] /\ ~Loading(c)
      /\ UNCHANGED <<doc, edit, commands, loading, got, synced, latch, target, merged, added,
                     gone, edited, stale>>
  BY DEF Start, TypeInv, TypeOK, Loading, appVars
<1>3. PICK t \in Turn : /\ turn[t] = "new"
                        /\ turn' = [turn EXCEPT ![t] = "running"]
                        /\ key' = [key EXCEPT ![t] = k]
                        /\ by' = [by EXCEPT ![t] = c]
  BY DEF Start
<1> QED
  BY <1>1, <1>2, <1>3 DEF TypeInv, TypeOK, Persisting, Loading

LEMMA HandlerTypes ==
    ASSUME CaseAssumption, TypeInv, NEW c \in Chat, HandlerStep(c), frames' = frames
    PROVE  TypeInv'
<1> USE DEF TypeInv, TypeOK, Persisting, appVars, turnVars, history
<1>1. ASSUME BeginSync(c, active), UNCHANGED active, ~Loading(c) PROVE TypeInv'
  <2>1. CASE Start(c, active)
    BY <1>1, <2>1, StartTypes
  <2>2. CASE /\ active # None /\ synced' = [synced EXCEPT ![c] = active]
             /\ loading' = [loading EXCEPT ![c] = active]
             /\ handler' = [handler EXCEPT ![c] = "reading"]
             /\ UNCHANGED <<doc, appVars, got, emitter, pin, latch, turnVars, history>>
    BY <1>1, <2>2
  <2>3. CASE /\ handler' = [handler EXCEPT ![c] = "creating"]
             /\ UNCHANGED <<doc, appVars, loading, got, emitter, synced, pin, latch, turnVars,
                            history>>
    BY <1>1, <2>3 DEF Loading
  <2>4. CASE /\ synced' = [synced EXCEPT ![c] = None]
             /\ Reseed(c, {})
             /\ handler' = [handler EXCEPT ![c] = "creating"]
             /\ UNCHANGED <<doc, appVars, loading, got, pin, latch, turnVars, added, gone, edited,
                            stale>>
    BY <1>1, <2>4 DEF Reseed, Loading
  <2> QED
    BY <1>1, <2>1, <2>2, <2>3, <2>4 DEF BeginSync
<1>2. CASE AskHere(c) \/ Sync(c)
  BY <1>1, <1>2 DEF AskHere, Sync, Loading
<1>3. CASE ReadCase(c)
  BY <1>3 DEF ReadCase, Summary, CaseAssumption
<1>4. CASE LoadCase(c)
  BY <1>4 DEF LoadCase, Loaded, Reseed
<1>5. CASE LoadFails(c)
  BY <1>5 DEF LoadFails, Loaded, Reseed
<1>6. CASE Pin(c)
  BY <1>6, StartTypes DEF Pin, Loading
<1>7. CASE LeftAtRoot(c)
  BY <1>7 DEF LeftAtRoot
<1>8. CASE AutoCreate(c)
  <2>1. CASE UNCHANGED <<doc, active, appVars, synced, emitter, crossed, edited>>
    BY <1>8, <2>1 DEF AutoCreate
  <2>2. CASE ~(UNCHANGED <<doc, active, appVars, synced, emitter, crossed, edited>>)
    <3>1. PICK k \in Case : /\ doc' = [doc EXCEPT ![k].status = "active"]
                            /\ edited' = [edited EXCEPT ![k].status = "active"]
                            /\ active' = k
                            /\ synced' = [synced EXCEPT ![c] = k]
                            /\ Reseed(c, {})
                            /\ UNCHANGED appVars
      BY <1>8, <2>2 DEF AutoCreate
    <3>2. doc' \in [Case -> Summary]
      BY <3>1, WithStatus
    <3>3. edited' \in [Case -> [status : {"absent", "active", "deleted"}, title : {"old", "new"}]]
      BY <3>1
    <3> QED
      BY <1>8, <3>1, <3>2, <3>3 DEF AutoCreate, Reseed
  <2> QED
    BY <2>1, <2>2
<1>9. ASSUME NEW k \in Case, AskElsewhere(c, k) PROVE TypeInv'
  BY <1>9 DEF AskElsewhere
<1>10. CASE Resume(c)
  <2>1. /\ handler' = [handler EXCEPT ![c] = "resuming"] /\ handler[c] = "idle"
        /\ latch' \in [Chat -> {"none", "first", "done"}]
        /\ UNCHANGED <<doc, appVars, loading, got, emitter, pin, turnVars, history>>
    BY <1>10 DEF Resume
  <2>2. active' \in Case \cup {None} /\ synced' \in [Chat -> Case \cup {None, Never}]
    BY <1>10 DEF Resume
  <2> QED
    BY <2>1, <2>2
<1>11. CASE Rebind(c)
  <2>1. emitter' \in [Chat -> SUBSET Turn]
    BY <1>11, TakeOverTypes DEF Rebind
  <2> QED
    BY <1>11, <2>1 DEF Rebind
<1>12. CASE ReplayRead(c)
  BY <1>12 DEF ReplayRead, Summary, CaseAssumption
<1>13. CASE Replay(c)
  BY <1>13 DEF Replay, Resumed
<1>14. CASE ReplayFails(c)
  BY <1>14 DEF ReplayFails, Resumed
<1> QED
  BY <1>2, <1>3, <1>4, <1>5, <1>6, <1>7, <1>8, <1>9, <1>10, <1>11, <1>12,
    <1>13, <1>14 DEF HandlerStep

LEMMA TurnTypes ==
    ASSUME CaseAssumption, TypeInv, NEW t \in Turn, TurnStep(t), frames' = frames
    PROVE  TypeInv'
<1> USE DEF TypeInv, TypeOK, Persisting, appVars, chatVars, history
<1>1. CASE DispatchTool(t)
  BY <1>1 DEF DispatchTool, TurnCase
<1>2. CASE AddLayer(t)
  <2>1. /\ by[t] \in Chat
        /\ \A held \in Adding(t, emitter[by[t]]) : held \in SUBSET Turn
    BY <1>2 DEF AddLayer, Adding
  <2>2. emitter' \in [Chat -> SUBSET Turn]
    BY <1>2, <2>1 DEF AddLayer
  <2> QED
    BY <1>2, <2>2 DEF AddLayer
<1>3. CASE NoLayer(t)
  BY <1>3 DEF NoLayer
<1>4. CASE PersistRead(t)
  <2>1. CASE target[t] = None \/ ~Exists(target[t])
    <3>1. /\ turn[t] = "persist" /\ turn' = [turn EXCEPT ![t] = "running"] /\ UNCHANGED merged
          /\ UNCHANGED <<doc, active, appVars, chatVars, key, by, target, stopped, history>>
      BY <1>4, <2>1 DEF PersistRead
    <3> QED
      BY <3>1
  <2>2. CASE ~(target[t] = None \/ ~Exists(target[t]))
    <3>1. PICK m \in Merge : merged' = [merged EXCEPT ![t] = m]
      BY <1>4, <2>2 DEF PersistRead, Merge
    <3> QED
      BY <1>4, <2>2, <3>1 DEF PersistRead, CaseAssumption
  <2> QED
    BY <2>1, <2>2
<1>5. CASE PersistMerge(t)
  <2>0. UNCHANGED <<doc, active, appVars, chatVars, key, by, target, stopped, history>>
    BY <1>5 DEF PersistMerge
  <2>1. /\ merged[t] \in Merge /\ turn[t] = "merge"
        /\ Union(merged[t].new.layers, emitter[by[t]]) \in SUBSET Turn
    BY <1>5 DEF PersistMerge, Merge, Summary, Union
  <2>2. PICK d \in Summary :
          IF d = merged[t].new
          THEN turn' = [turn EXCEPT ![t] = "running"] /\ merged' = [merged EXCEPT ![t] = None]
          ELSE turn' = [turn EXCEPT ![t] = "write"] /\ merged' = [merged EXCEPT ![t].new = d]
    BY <1>5, <2>1, WithLayers DEF PersistMerge, DropRead, Merge
  <2>3. CASE turn' = [turn EXCEPT ![t] = "running"] /\ merged' = [merged EXCEPT ![t] = None]
    BY <2>0, <2>1, <2>3
  <2>4. CASE turn' = [turn EXCEPT ![t] = "write"] /\ merged' = [merged EXCEPT ![t].new = d]
    <3>1. PICK m \in Merge : merged' = [merged EXCEPT ![t] = m]
      BY <2>1, <2>4 DEF Merge
    <3>2. turn' = [turn EXCEPT ![t] = "write"]
      BY <2>4
    <3> QED
      BY <2>0, <2>1, <3>1, <3>2 DEF CaseAssumption
  <2> QED
    BY <2>2, <2>3, <2>4
<1>6. CASE PersistWrite(t)
  <2>1. merged[t].new \in Summary
    BY <1>6 DEF PersistWrite, Merge
  <2> QED
    BY <1>6, <2>1, OutdatedType, EditOutdatedType DEF PersistWrite, Upsert
<1>7. CASE PersistFails(t)
  BY <1>7 DEF PersistFails, DropRead
<1>8. CASE EndTurn(t)
  BY <1>8 DEF EndTurn
<1> QED
  BY <1>1, <1>2, <1>3, <1>4, <1>5, <1>6, <1>7, <1>8 DEF TurnStep

LEMMA AppTypes ==
    ASSUME CaseAssumption, TypeInv, AppStep, frames' = frames
    PROVE  TypeInv'
<1> USE DEF TypeInv, TypeOK, Persisting, chatVars, turnVars, history
<1>1. ASSUME NEW k \in Case, SelectCase(k) PROVE TypeInv'
  BY <1>1 DEF SelectCase, Command, CaseAssumption
<1>2. ASSUME NEW k \in Case, DeleteCase(k) PROVE TypeInv'
  <2>0. /\ Command /\ active' = IF active = k THEN None ELSE active
        /\ UNCHANGED <<edit, chatVars, turn, key, by, target, stopped, added, gone, crossed>>
    BY <1>2 DEF DeleteCase
  <2>1. PICK d \in Summary : Store(k, d, TRUE)
    BY <1>2, WithStatus DEF DeleteCase
  <2>2. edited' \in [Case -> [status : {"absent", "active", "deleted"}, title : {"old", "new"}]]
    BY <1>2 DEF DeleteCase
  <2>3. doc' \in [Case -> Summary] /\ stale' = stale
    BY <2>1 DEF Store
  <2>4. /\ merged' \in [Turn -> Merge \cup {None}]
        /\ \A t \in Turn : merged'[t] = None <=> merged[t] = None
    BY <2>1, OutdatedType DEF Store
  <2>5. active' \in Case \cup {None} /\ commands' \in 0..MaxCommands
    BY <2>0 DEF Command, CaseAssumption
  <2>6. /\ latch' = latch /\ handler' = handler /\ emitter' = emitter /\ synced' = synced /\ pin' = pin
        /\ loading' = loading /\ got' = got /\ edit' = edit /\ turn' = turn /\ key' = key
        /\ by' = by /\ target' = target /\ stopped' = stopped /\ added' = added
        /\ crossed' = crossed /\ gone' = gone
    BY <2>0
  <2> QED
    BY <2>2, <2>3, <2>4, <2>5, <2>6
<1>3. ASSUME NEW k \in Case, RenameRead(k) PROVE TypeInv'
  <2>1. edit' \in Edit
    BY <1>3, WithTitle DEF RenameRead, Edit
  <2> QED
    BY <1>3, <2>1 DEF RenameRead, Command, CaseAssumption
<1>4. ASSUME NEW t \in Turn, DeleteLayerRead(t) PROVE TypeInv'
  <2>1. active \in Case /\ doc[active].layers \ {t} \in SUBSET Turn
    BY <1>4 DEF DeleteLayerRead, Summary
  <2>2. PICK d \in Summary :
          edit' = [case |-> active, new |-> d, named |-> {}, dropped |-> {t}, fresh |-> TRUE]
    BY <1>4, <2>1, WithLayers DEF DeleteLayerRead
  <2>3. edit' \in Edit
    BY <2>1, <2>2 DEF Edit
  <2> QED
    BY <1>4, <2>3 DEF DeleteLayerRead, Command, CaseAssumption
<1>5. CASE Deselect
  BY <1>5 DEF Deselect, Command, CaseAssumption
<1>6. CASE EditWrite
  <2>1. edit.case \in Case /\ edit.new \in Summary /\ edit.dropped \subseteq Turn
    BY <1>6 DEF EditWrite, Edit
  <2>2. edited' \in [Case -> [status : {"absent", "active", "deleted"}, title : {"old", "new"}]]
    BY <1>6, <2>1 DEF EditWrite
  <2> QED
    BY <1>6, <2>1, <2>2, OutdatedType DEF EditWrite, Store
<1>7. CASE EditFails
  BY <1>7 DEF EditFails
<1> QED
  BY <1>1, <1>2, <1>3, <1>4, <1>5, <1>6, <1>7 DEF AppStep

LEMMA TypeInit == CaseAssumption /\ Init => TypeInv
<1> SUFFICES ASSUME CaseAssumption, Init PROVE TypeInv
  OBVIOUS
<1>1. doc \in [Case -> Summary] /\ edited \in [Case -> [status : {"absent", "active", "deleted"},
                                                        title : {"old", "new"}]]
  BY DEF Init, Summary
<1>2. TypeOK
  BY <1>1 DEF CaseAssumption, Init, TypeOK
<1>3. \A t \in Turn : turn[t] = "new" /\ t \notin added
  BY DEF Init
<1>4. /\ loading \in [Chat -> Case \cup {None}] /\ got \in [Chat -> SUBSET Turn]
      /\ turn \in [Turn -> {"new", "running", "tool", "persist", "merge", "write", "done"}]
      /\ key \in [Turn -> Case \cup {None}] /\ by \in [Turn -> Chat \cup {None}]
      /\ target \in [Turn -> Case \cup {None}] /\ merged \in [Turn -> Merge \cup {None}]
      /\ edit = None /\ stale = {} /\ crossed = FALSE
  BY DEF Init
<1> QED
  BY <1>1, <1>2, <1>3, <1>4 DEF TypeInv, Persisting

LEMMA TypeStep ==
    ASSUME CaseAssumption, TypeInv, Next
    PROVE  TypeInv'
BY NextSplit, HandlerTypes, TurnTypes, AppTypes

-----------------------------------------------------------------------------
(* What the writers and the readers of a document do                        *)

\* A new Case: only the status of its document changes.
Created(k, d) ==
    /\ ~Exists(k)
    /\ doc' = [doc EXCEPT ![k] = d] /\ d.status = "active"
    /\ d.title = doc[k].title /\ d.layers = doc[k].layers
    /\ edited'[k].status = "active" /\ edited'[k].title = edited[k].title
    /\ \A x \in Case \ {k} : edited'[x] = edited[x]

LEMMA AutoCreates ==
    ASSUME TypeInv, NEW c \in Chat, AutoCreate(c)
    PROVE  \/ UNCHANGED <<doc, active, appVars, synced, emitter, crossed, edited>>
           \/ \E k \in Case, d \in Summary :
                 /\ Created(k, d) /\ active' = k /\ UNCHANGED appVars
                 /\ synced' = [synced EXCEPT ![c] = k] /\ Reseed(c, {})
<1>1. SUFFICES ASSUME NEW k \in Case, ~Exists(k),
                      doc' = [doc EXCEPT ![k].status = "active"],
                      edited' = [edited EXCEPT ![k].status = "active"]
               PROVE  \E d \in Summary : Created(k, d)
  BY DEF AutoCreate
<1> DEFINE d == [doc[k] EXCEPT !.status = "active"]
<1>2. doc' = [doc EXCEPT ![k] = d]
  BY <1>1 DEF TypeInv, TypeOK
<1>3. doc[k] \in Summary
  BY DEF TypeInv, TypeOK
<1>4. /\ d \in Summary /\ d.status = "active"
      /\ d.title = doc[k].title /\ d.layers = doc[k].layers
  BY <1>3, WithStatus
<1> HIDE DEF d
<1>5. /\ edited'[k].status = "active" /\ edited'[k].title = edited[k].title
      /\ \A x \in Case \ {k} : edited'[x] = edited[x]
  BY <1>1 DEF TypeInv
<1> QED
  BY <1>1, <1>2, <1>4, <1>5 DEF Created

\* A document is written: whoever read it before is outdated, and only he.
Overtaken(k) ==
    /\ \A t \in Turn : Persisting(t)' =>
          /\ merged'[t].new = merged[t].new
          /\ merged'[t].fresh => merged[t].fresh /\ target[t] # k

LEMMA StoreOvertakes ==
    ASSUME CaseAssumption, TypeInv, NEW k \in Case, NEW d, NEW fresh, Store(k, d, fresh),
           turn' = turn
    PROVE  Overtaken(k)
BY OutdatedType DEF Store, TypeInv, TypeOK, Persisting, Overtaken

LEMMA PersistMerges ==
    ASSUME TypeInv, NEW t \in Turn, PersistMerge(t)
    PROVE  LET ls == Union(merged[t].new.layers, emitter[by[t]])
           IN \/ /\ turn' = [turn EXCEPT ![t] = "running"] /\ ls = merged[t].new.layers
                 /\ merged' = [merged EXCEPT ![t] = None]
              \/ /\ turn' = [turn EXCEPT ![t] = "write"]
                 /\ \E m \in Merge : /\ merged' = [merged EXCEPT ![t] = m]
                                     /\ m.fresh = merged[t].fresh
                                     /\ m.new.status = merged[t].new.status
                                     /\ m.new.title = merged[t].new.title
                                     /\ m.new.layers = ls
<1> DEFINE ls == Union(merged[t].new.layers, emitter[by[t]])
<1>1. turn[t] = "merge" /\ merged[t] \in Merge /\ merged[t].new \in Summary /\ ls \in SUBSET Turn
  BY DEF PersistMerge, TypeInv, TypeOK, Merge, Summary, Union
<1> DEFINE d == [merged[t].new EXCEPT !.layers = ls]
<1>2. /\ d \in Summary /\ d.layers = ls
      /\ d.status = merged[t].new.status /\ d.title = merged[t].new.title
  <2> HIDE DEF ls
  <2> QED
    BY <1>1, WithLayers
<1>3. IF d = merged[t].new
      THEN turn' = [turn EXCEPT ![t] = "running"] /\ merged' = [merged EXCEPT ![t] = None]
      ELSE turn' = [turn EXCEPT ![t] = "write"] /\ merged' = [merged EXCEPT ![t].new = d]
  BY DEF PersistMerge, DropRead
<1> HIDE DEF d
<1>4. CASE merged' = [merged EXCEPT ![t].new = d]
  <2> DEFINE m == [merged[t] EXCEPT !.new = d]
  <2>1. merged' = [merged EXCEPT ![t] = m]
    BY <1>4
  <2>2. m \in Merge /\ m.new = d /\ m.fresh = merged[t].fresh
    BY <1>1, <1>2 DEF Merge
  <2> HIDE DEF m
  <2> QED
    BY <1>2, <1>3, <2>1, <2>2
<1> QED
  BY <1>2, <1>3, <1>4

LEMMA CaseDeleted ==
    ASSUME CaseAssumption, TypeInv, NEW k \in Case, DeleteCase(k)
    PROVE  /\ edit = None /\ edit' = None /\ UNCHANGED <<turn, target, key, stale>>
           /\ active' \in {active, None} /\ Overtaken(k)
           /\ \E d \in Summary : /\ doc' = [doc EXCEPT ![k] = d] /\ d.status = "deleted"
                                 /\ d.title = doc[k].title /\ d.layers = doc[k].layers
           /\ edited'[k].status = "deleted" /\ edited'[k].title = edited[k].title
           /\ \A x \in Case \ {k} : edited'[x] = edited[x]
<1>1. /\ edited' = [edited EXCEPT ![k].status = "deleted"]
      /\ edit = None /\ edit' = edit /\ UNCHANGED <<turn, target, key>>
      /\ active' \in {active, None}
  BY DEF DeleteCase, Command
<1> DEFINE d == [doc[k] EXCEPT !.status = "deleted"]
<1>2. /\ d \in Summary /\ d.status = "deleted"
      /\ d.title = doc[k].title /\ d.layers = doc[k].layers
  BY WithStatus DEF TypeInv, TypeOK
<1>3. Store(k, d, TRUE)
  BY DEF DeleteCase
<1> HIDE DEF d
<1>4. Overtaken(k)
  BY <1>1, <1>3, StoreOvertakes
<1>5. doc' = [doc EXCEPT ![k] = d] /\ stale' = stale
  BY <1>3 DEF Store
<1>6. /\ edited'[k].status = "deleted" /\ edited'[k].title = edited[k].title
      /\ \A x \in Case \ {k} : edited'[x] = edited[x]
  BY <1>1 DEF TypeInv
<1> QED
  BY <1>1, <1>2, <1>4, <1>5, <1>6

\* What the App handler reads, and how it differs from the document.
EditRead(k) ==
    /\ edit = None /\ edit'.case = k /\ edit'.new.status = doc[k].status
    /\ edit'.new.title = IF edit'.named = {} THEN doc[k].title ELSE "new"
    /\ doc[k].layers \subseteq edit'.new.layers \cup edit'.dropped
    /\ edit'.new.layers \subseteq doc[k].layers
    /\ UNCHANGED <<doc, active, chatVars, turnVars, history>>

LEMMA EditReads ==
    ASSUME TypeInv, CasesExist,
           (\E k \in Case : RenameRead(k)) \/ (\E t \in Turn : DeleteLayerRead(t))
    PROVE  \E x \in Case : Exists(x) /\ EditRead(x)
<1>1. ASSUME NEW k \in Case, RenameRead(k) PROVE \E x \in Case : Exists(x) /\ EditRead(x)
  <2> DEFINE d == [doc[k] EXCEPT !.title = "new"]
  <2>1. d.status = doc[k].status /\ d.title = "new" /\ d.layers = doc[k].layers
    BY WithTitle DEF TypeInv, TypeOK
  <2>2. /\ edit' = [case |-> k, new |-> d, named |-> {"new"}, dropped |-> {}, fresh |-> TRUE]
        /\ edit = None /\ Exists(k)
        /\ UNCHANGED <<doc, active, chatVars, turnVars, history>>
    BY <1>1 DEF RenameRead, Command
  <2> HIDE DEF d
  <2> QED
    BY <2>1, <2>2 DEF EditRead
<1>2. ASSUME NEW t \in Turn, DeleteLayerRead(t)
      PROVE  \E x \in Case : Exists(x) /\ EditRead(x)
  <2> DEFINE ls == doc[active].layers \ {t}
             d == [doc[active] EXCEPT !.layers = ls]
  <2>1. active \in Case /\ doc[active] \in Summary /\ ls \in SUBSET Turn
    BY <1>2 DEF DeleteLayerRead, TypeInv, TypeOK, Summary
  <2>2. d.status = doc[active].status /\ d.title = doc[active].title /\ d.layers = ls
    <3> HIDE DEF ls
    <3> QED
      BY <2>1, WithLayers
  <2>3. /\ edit' = [case |-> active, new |-> d, named |-> {}, dropped |-> {t}, fresh |-> TRUE]
        /\ edit = None /\ active # None
        /\ UNCHANGED <<doc, active, chatVars, turnVars, history>>
    BY <1>2 DEF DeleteLayerRead, Command
  <2> HIDE DEF d
  <2> QED
    BY <2>1, <2>2, <2>3 DEF EditRead, CasesExist
<1> QED
  BY <1>1, <1>2

-----------------------------------------------------------------------------
(* What the documents and their readers say                                 *)

\* The handlers of the chat connections write no document but a new one.
HandlerReads ==
    /\ UNCHANGED <<edit, target, merged, stale>>
    /\ \A t \in Turn : /\ Persisting(t)' <=> Persisting(t)
                       /\ key'[t] \in {key[t], active}
    /\ \/ UNCHANGED <<doc, edited>> /\ active' \in {active} \cup {k \in Case : Exists(k)}
       \/ \E k \in Case, d \in Summary : Created(k, d) /\ active' = k

LEMMA HandlersRead ==
    ASSUME TypeInv, NEW c \in Chat, HandlerStep(c)
    PROVE  HandlerReads
<1> USE DEF appVars, turnVars, history
<1>1. ASSUME NEW k, Start(c, k), k = active, UNCHANGED active PROVE HandlerReads
  BY <1>1 DEF Start, HandlerReads, Persisting, TypeInv
<1>2. ASSUME BeginSync(c, active), UNCHANGED active PROVE HandlerReads
  <2>1. CASE Start(c, active)
    BY <1>2, <2>1, <1>1
  <2>2. CASE UNCHANGED <<doc, edit, turn, key, target, merged, edited, stale>>
    BY <1>2, <2>2 DEF HandlerReads, Persisting
  <2> QED
    BY <1>2, <2>1, <2>2 DEF BeginSync
<1>3. CASE AskHere(c) \/ Sync(c)
  BY <1>2, <1>3 DEF AskHere, Sync
<1>4. CASE Pin(c)
  BY <1>1, <1>4 DEF Pin
<1>5. CASE ReadCase(c) \/ LoadCase(c) \/ LoadFails(c) \/ LeftAtRoot(c)
  BY <1>5 DEF ReadCase, LoadCase, LoadFails, Loaded, LeftAtRoot, HandlerReads, Persisting
<1>6. CASE AutoCreate(c)
  <2>1. UNCHANGED <<edit, target, merged, stale, turn, key>>
    BY <1>6, AutoCreates DEF AutoCreate
  <2> QED
    BY <1>6, <2>1, AutoCreates DEF HandlerReads, Persisting
<1>7. ASSUME NEW k \in Case, AskElsewhere(c, k) PROVE HandlerReads
  BY <1>7 DEF AskElsewhere, HandlerReads, Persisting, Exists, TypeInv
<1>8. CASE Resume(c)
  <2>1. active' = active \/ \E k \in Case : Exists(k) /\ active' = k
    BY <1>8 DEF Resume
  <2> QED
    BY <1>8, <2>1 DEF Resume, HandlerReads, Persisting, Exists
<1>9. CASE Rebind(c) \/ ReplayRead(c) \/ Replay(c) \/ ReplayFails(c)
  BY <1>9 DEF Rebind, ReplayRead, Replay, ReplayFails, Resumed, HandlerReads, Persisting
<1> QED
  BY <1>3, <1>4, <1>5, <1>6, <1>7, <1>8, <1>9 DEF HandlerStep

LEMMA HandlersKeepDocs ==
    ASSUME CaseAssumption, TypeInv, CasesExist, DocsInv, NEW c \in Chat, HandlerStep(c),
           frames' = frames
    PROVE  CasesExist' /\ DocsInv'
<1>1. HandlerReads
  BY HandlersRead
<1>2. CASE UNCHANGED <<doc, edited>> /\ active' \in {active} \cup {k \in Case : Exists(k)}
  <2>1. CasesExist'
    BY <1>1, <1>2 DEF HandlerReads, CasesExist, Exists
  <2>2. DocsInv'
    BY <1>1, <1>2 DEF HandlerReads, DocsInv, EditsKept, ReadsAgree, ReadsComplete, Keeps
  <2> QED
    BY <2>1, <2>2
<1>3. ASSUME NEW k \in Case, NEW d \in Summary, Created(k, d), active' = k
      PROVE  CasesExist' /\ DocsInv'
  <2>1. /\ doc[k].status = "absent" /\ doc'[k] = d /\ d.status = "active"
        /\ d.title = doc[k].title /\ d.layers = doc[k].layers
        /\ \A x \in Case \ {k} : doc'[x] = doc[x]
    BY <1>3 DEF Created, Exists, TypeInv, TypeOK
  <2>2. \A x \in Case : Exists(x) => Exists(x)'
    BY <2>1 DEF Exists
  <2>3. CasesExist'
    <3>1. Exists(k)'
      BY <2>1 DEF Exists
    <3>2. \A t \in Turn : key'[t] # None => doc'[key'[t]].status # "absent"
      <4>1. SUFFICES ASSUME NEW t \in Turn, key'[t] # None PROVE doc'[key'[t]].status # "absent"
        OBVIOUS
      <4>2. key'[t] \in {key[t], active} /\ {key[t], active} \subseteq Case \cup {None}
        BY <1>1 DEF HandlerReads, TypeInv, TypeOK
      <4>3. key'[t] \in Case /\ Exists(key'[t])
        BY <4>1, <4>2 DEF CasesExist
      <4> QED
        BY <2>2, <4>3 DEF Exists
    <3> QED
      BY <1>1, <1>3, <3>1, <3>2 DEF HandlerReads, CasesExist, Exists
  <2>4. EditsKept'
    BY <1>1, <1>3, <2>1 DEF HandlerReads, DocsInv, EditsKept, Created
  <2>5. \A t \in Turn : Persisting(t) => target[t] \in Case /\ merged[t].new.status # "absent"
    BY DEF TypeInv, CasesExist
  <2>6. edit # None => edit.case \in Case /\ edit.new.status # "absent"
    BY DEF TypeInv, CasesExist, Edit
  <2>7. ReadsAgree'
    BY <1>1, <2>1, <2>5, <2>6 DEF HandlerReads, DocsInv, ReadsAgree
  <2>8. ReadsComplete'
    BY <1>1, <2>1, <2>5, <2>6 DEF HandlerReads, DocsInv, ReadsComplete, Keeps, ReadsAgree
  <2> QED
    BY <2>3, <2>4, <2>7, <2>8 DEF DocsInv
<1> QED
  BY <1>1, <1>2, <1>3 DEF HandlerReads

\* A write back of a whole document, by a turn or by the user.
LEMMA WriteBack ==
    ASSUME TypeInv, CasesExist, DocsInv, NEW k \in Case, NEW d \in Summary, NEW fresh \in BOOLEAN,
           doc' = [doc EXCEPT ![k] = d], d.status # "absent", Overtaken(k),
           stale' = IF fresh THEN stale ELSE stale \cup {k},
           fresh => d.status = edited'[k].status \/ k \in stale,
           fresh => d.title = edited'[k].title \/ k \in stale,
           \A x \in Case \ {k} : edited'[x] = edited[x],
           active' \in {active, None}, UNCHANGED <<key, target, frames>>,
           \A t \in Turn : Persisting(t)' => Persisting(t),
           edit' # None => /\ edit # None
                           /\ edit'.case = edit.case /\ edit'.new = edit.new
                           /\ edit'.named = edit.named /\ edit'.dropped = edit.dropped
                           /\ edit'.fresh => edit.fresh /\ edit.case # k
    PROVE  CasesExist' /\ DocsInv'
<1>1. doc'[k] = d /\ \A x \in Case \ {k} : doc'[x] = doc[x]
  BY DEF TypeInv, TypeOK
<1>2. \A x \in Case : Exists(x) => Exists(x)'
  BY <1>1 DEF Exists
<1>3. \A t \in Turn : Persisting(t) => target[t] \in Case
  BY DEF TypeInv
<1>4. edit # None => edit.case \in Case
  BY DEF TypeInv, Edit
<1>5. CasesExist'
  BY <1>2 DEF CasesExist, TypeInv, TypeOK, Overtaken
<1>6. EditsKept'
  BY <1>1 DEF DocsInv, EditsKept
<1>7. ReadsAgree'
  BY <1>1, <1>3, <1>4 DEF DocsInv, ReadsAgree, Overtaken
<1>8. ReadsComplete'
  BY <1>1, <1>3, <1>4 DEF DocsInv, ReadsComplete, Keeps, Overtaken
<1> QED
  BY <1>5, <1>6, <1>7, <1>8 DEF DocsInv

LEMMA TurnsKeepDocs ==
    ASSUME CaseAssumption, TypeInv, CasesExist, DocsInv, NEW t \in Turn, TurnStep(t),
           frames' = frames
    PROVE  CasesExist' /\ DocsInv'
<1> USE DEF appVars, history
<1>1. CASE DispatchTool(t) \/ AddLayer(t) \/ NoLayer(t) \/ EndTurn(t)
  <2>1. /\ UNCHANGED <<doc, active, edit, key, merged, edited, stale>>
        /\ \A u \in Turn : Persisting(u)' => Persisting(u) /\ target'[u] = target[u]
    BY <1>1 DEF DispatchTool, AddLayer, NoLayer, EndTurn, Persisting, TypeInv
  <2> QED
    BY <2>1 DEF CasesExist, Exists, DocsInv, EditsKept, ReadsAgree, ReadsComplete, Keeps
<1>2. CASE PersistRead(t)
  <2>1. UNCHANGED <<doc, active, edit, key, target, edited, stale>>
    BY <1>2 DEF PersistRead
  <2>2. \A u \in Turn : Persisting(u)' =>
           \/ Persisting(u) /\ merged'[u] = merged[u]
           \/ /\ merged'[u].new = doc[target[u]] /\ target[u] \in Case /\ Exists(target[u])
    BY <1>2 DEF PersistRead, Persisting, TypeInv
  <2>3. CasesExist' /\ EditsKept'
    BY <2>1, <2>2 DEF CasesExist, Exists, DocsInv, EditsKept
  <2>4. ReadsAgree' /\ ReadsComplete'
    BY <2>1, <2>2 DEF DocsInv, ReadsAgree, ReadsComplete, Keeps
  <2> QED
    BY <2>3, <2>4 DEF DocsInv
<1>3. CASE PersistMerge(t)
  <2>1. UNCHANGED <<doc, active, edit, key, target, edited, stale>> /\ turn[t] = "merge"
    BY <1>3 DEF PersistMerge
  <2>2. \A u \in Turn : Persisting(u)' =>
           /\ Persisting(u)
           /\ merged'[u].fresh = merged[u].fresh
           /\ merged'[u].new.status = merged[u].new.status
           /\ merged'[u].new.title = merged[u].new.title
           /\ Keeps(merged[u].new.layers, merged'[u].new.layers)
    BY <1>3, <2>1, PersistMerges DEF Persisting, TypeInv, Keeps, Union
  <2> QED
    BY <2>1, <2>2 DEF CasesExist, Exists, DocsInv, EditsKept, ReadsAgree, ReadsComplete, Keeps
<1>4. CASE PersistWrite(t)
  <2> DEFINE k == target[t]
             d == merged[t].new
  <2>1. /\ turn[t] = "write" /\ turn' = [turn EXCEPT ![t] = "running"]
        /\ doc' = [doc EXCEPT ![k] = d] /\ edit' = EditOutdated(k)
        /\ stale' = IF merged[t].fresh THEN stale ELSE stale \cup {k}
        /\ merged' = [u \in Turn |-> IF u = t THEN None
                                     ELSE IF target[u] = k THEN Outdated(merged[u])
                                     ELSE merged[u]]
        /\ UNCHANGED <<active, key, target, edited>>
    BY <1>4 DEF PersistWrite, Upsert
  <2>2. k \in Case /\ d \in Summary /\ merged[t].fresh \in BOOLEAN /\ Persisting(t)
    BY <2>1 DEF TypeInv, TypeOK, Persisting, Merge
  <2>3. Overtaken(k)
    BY <2>1, OutdatedType DEF Overtaken, Persisting, TypeInv, TypeOK
  <2>4. d.status # "absent"
    BY <2>2 DEF CasesExist
  <2>5. merged[t].fresh => d.status = doc[k].status /\ d.title = doc[k].title
    BY <2>2 DEF DocsInv, ReadsAgree
  <2>6. k \in stale \/ (doc[k].status = edited[k].status /\ doc[k].title = edited[k].title)
    BY <2>2 DEF DocsInv, EditsKept
  <2>7. \A u \in Turn : Persisting(u)' => Persisting(u)
    BY <2>1 DEF Persisting, TypeInv
  <2> HIDE DEF k, d
  <2> QED
    BY <2>1, <2>2, <2>3, <2>4, <2>5, <2>6, <2>7, WriteBack, EditOutdatedType DEF TypeInv
<1>5. CASE PersistFails(t)
  <2>1. /\ UNCHANGED <<doc, active, edit, key, target, edited>> /\ stale \subseteq stale'
        /\ \A u \in Turn : Persisting(u)' => Persisting(u) /\ merged'[u] = merged[u]
    BY <1>5 DEF PersistFails, DropRead, Persisting, TypeInv
  <2> QED
    BY <2>1 DEF CasesExist, Exists, DocsInv, EditsKept, ReadsAgree, ReadsComplete, Keeps
<1> QED
  BY <1>1, <1>2, <1>3, <1>4, <1>5 DEF TurnStep

LEMMA AppKeepsDocs ==
    ASSUME CaseAssumption, TypeInv, CasesExist, DocsInv, AppStep,
           frames' = frames
    PROVE  CasesExist' /\ DocsInv'
<1> USE DEF turnVars, history
<1>1. CASE (\E k \in Case : SelectCase(k)) \/ Deselect \/ EditFails
  <2>1. UNCHANGED <<doc, turn, key, target, merged, edited, stale>>
    BY <1>1 DEF SelectCase, Deselect, EditFails
  <2>2. (edit' = edit \/ edit' = None) /\ (active' \in {active, None} \/ Exists(active'))
    BY <1>1 DEF SelectCase, Deselect, EditFails
  <2>3. CasesExist'
    BY <2>1, <2>2 DEF CasesExist, Exists, Persisting
  <2>4. DocsInv'
    BY <2>1, <2>2 DEF DocsInv, EditsKept, ReadsAgree, ReadsComplete, Keeps, Persisting
  <2> QED
    BY <2>3, <2>4
<1>2. ASSUME NEW k \in Case, DeleteCase(k) PROVE CasesExist' /\ DocsInv'
  <2>1. PICK d \in Summary : /\ doc' = [doc EXCEPT ![k] = d] /\ d.status = "deleted"
                             /\ d.title = doc[k].title /\ d.layers = doc[k].layers
    BY <1>2, CaseDeleted
  <2>2. k \in stale \/ doc[k].title = edited[k].title
    BY DEF DocsInv, EditsKept
  <2>3. \A u \in Turn : Persisting(u)' => Persisting(u)
    BY <1>2, CaseDeleted DEF Persisting
  <2> QED
    BY <1>2, <2>1, <2>2, <2>3, CaseDeleted, WriteBack
<1>3. CASE (\E k \in Case : RenameRead(k)) \/ (\E t \in Turn : DeleteLayerRead(t))
  <2>1. PICK x \in Case : Exists(x) /\ EditRead(x)
    BY <1>3, EditReads
  <2> QED
    BY <2>1 DEF EditRead, CasesExist, Exists, DocsInv, EditsKept, ReadsAgree, ReadsComplete, Keeps,
      Persisting
<1>4. CASE EditWrite
  <2> DEFINE k == edit.case
             d == edit.new
  <2>1. /\ edit # None /\ edit' = None /\ Store(k, d, edit.fresh)
        /\ edited' = IF edit.named = {} THEN edited ELSE [edited EXCEPT ![k].title = "new"]
        /\ UNCHANGED <<active, turn, key, target>>
    BY <1>4 DEF EditWrite
  <2>2. k \in Case /\ d \in Summary /\ edit.fresh \in BOOLEAN
    BY <2>1 DEF TypeInv, Edit
  <2>3. /\ edited'[k].status = edited[k].status
        /\ edited'[k].title = IF edit.named = {} THEN edited[k].title ELSE "new"
        /\ \A x \in Case \ {k} : edited'[x] = edited[x]
    BY <2>1, <2>2 DEF TypeInv
  <2>4. edit.fresh => /\ d.status = doc[k].status
                      /\ d.title = IF edit.named = {} THEN doc[k].title ELSE "new"
    BY <2>1 DEF DocsInv, ReadsAgree
  <2>5. k \in stale \/ (doc[k].status = edited[k].status /\ doc[k].title = edited[k].title)
    BY <2>2 DEF DocsInv, EditsKept
  <2>6. Overtaken(k)
    BY <2>1, <2>2, StoreOvertakes
  <2>7. d.status # "absent"
    BY <2>1 DEF CasesExist
  <2>8. \A u \in Turn : Persisting(u)' => Persisting(u)
    BY <2>1 DEF Persisting
  <2>9. doc' = [doc EXCEPT ![k] = d] /\ stale' = IF edit.fresh THEN stale ELSE stale \cup {k}
    BY <2>1 DEF Store
  <2> HIDE DEF k, d
  <2> QED
    BY <2>1, <2>2, <2>3, <2>4, <2>5, <2>6, <2>7, <2>8, <2>9, WriteBack
<1> QED
  BY <1>1, <1>2, <1>3, <1>4 DEF AppStep

-----------------------------------------------------------------------------
(* Where the layers are, as long as no connection was re-aimed              *)

LEMMA BelongsGrows ==
    ASSUME \A t \in Turn : turn[t] # "new" => turn'[t] # "new" /\ key'[t] = key[t]
    PROVE  \A k : Belongs(k) \subseteq Belongs(k)'
BY DEF Belongs, PinnedTo

LEMMA BelongsNowhere == \A k : Belongs(None) \subseteq Belongs(k)
BY DEF Belongs, PinnedTo

\* What a connection takes over is of the Case it serves.
LEMMA TakenPlaced ==
    ASSUME TypeInv, Placed, NEW c \in Chat, TakeOver(c), ~TakesForeign(c)
    PROVE  /\ emitter[c] \subseteq emitter'[c]
           /\ \A x \in Chat \ {c} : emitter'[x] = emitter[x]
           /\ \A k : synced[c] = k /\ k # Never /\ emitter[c] \subseteq Belongs(k)
                    => emitter'[c] \subseteq Belongs(k)
           /\ \A u \in Turn : Live(u) /\ by[u] = c => emitter'[c] \subseteq Belongs(key[u])
<1>1. /\ emitter'[c] = emitter[c] \cup UNION {emitter[by[t]] : t \in Others(c)}
      /\ \A x \in Chat \ {c} : emitter'[x] = emitter[x]
  BY DEF TakeOver, TypeInv, TypeOK
<1>2. \A t \in Others(c) : emitter[by[t]] \subseteq Belongs(key[t]) /\ ~Elsewhere(c, key[t])
  BY DEF Others, Placed, TurnsAimed, TakesForeign
<1>3. ASSUME NEW k, synced[c] = k, k # Never, emitter[c] \subseteq Belongs(k)
      PROVE  emitter'[c] \subseteq Belongs(k)
  <2>1. \A t \in Others(c) : emitter[by[t]] \subseteq Belongs(k)
    BY <1>2, <1>3 DEF Elsewhere
  <2> QED
    BY <1>1, <1>3, <2>1
<1>4. ASSUME NEW u \in Turn, Live(u), by[u] = c PROVE emitter'[c] \subseteq Belongs(key[u])
  <2>1. \A t \in Others(c) : emitter[by[t]] \subseteq Belongs(key[u])
    BY <1>2, <1>4 DEF Elsewhere
  <2>2. emitter[c] \subseteq Belongs(key[u])
    BY <1>4 DEF Placed, TurnsAimed
  <2> QED
    BY <1>1, <2>1, <2>2
<1> QED
  BY <1>1, <1>3, <1>4

\* A turn starts on a connection that was synced to its Case.
LEMMA StartPlaced ==
    ASSUME CaseAssumption, TypeInv, Placed, AddedKept, NEW c \in Chat, NEW k \in Case \cup {None},
           Start(c, k), Settled(c), ~crossed', frames' = frames
    PROVE  Placed' /\ AddedKept'
<1>1. PICK t \in Turn : /\ turn[t] = "new"
                        /\ turn' = [turn EXCEPT ![t] = "running"]
                        /\ key' = [key EXCEPT ![t] = k]
                        /\ by' = [by EXCEPT ![t] = c]
  BY DEF Start
<1>2. /\ synced[c] = k /\ pin' = [pin EXCEPT ![c] = k]
      /\ handler' = [handler EXCEPT ![c] = "idle"]
      /\ TakeOver(c) /\ ~TakesForeign(c)
      /\ UNCHANGED <<doc, edit, loading, got, synced, target, merged, added, gone, stale>>
  BY DEF Start, appVars
<1>3. \A x : Belongs(x) \subseteq Belongs(x)'
  BY <1>1, BelongsGrows DEF TypeInv
<1>9. /\ emitter[c] \subseteq emitter'[c] /\ emitter'[c] \subseteq Belongs(k)
      /\ \A x \in Chat \ {c} : emitter'[x] = emitter[x]
  <2>1. k # Never /\ emitter[c] \subseteq Belongs(k)
    BY <1>2 DEF Placed, EmittersPlaced, CaseAssumption
  <2> QED
    BY <1>2, <2>1, TakenPlaced
<1>4. DocsPlaced'
  BY <1>2, <1>3 DEF Placed, DocsPlaced
<1>5. EmittersPlaced'
  BY <1>2, <1>3, <1>9 DEF Placed, EmittersPlaced, Settled, Reading, TypeInv, TypeOK
<1>6. TurnsAimed'
  <2> SUFFICES ASSUME NEW u \in Turn, Live(u)'
               PROVE  /\ pin'[by'[u]] = key'[u]
                      /\ Settled(by[u])' /\ synced[by'[u]] # Never => synced[by'[u]] = key'[u]
                      /\ emitter'[by'[u]] \subseteq Belongs(key[u])'
                      /\ Working(u)' /\ key'[u] # None => target[u] = key'[u]
    BY <1>2 DEF TurnsAimed
  <2>1. CASE u = t
    <3>1. by'[u] = c /\ key'[u] = k /\ ~Working(u)'
      BY <1>1, <2>1 DEF TypeInv, Working, Persisting
    <3> QED
      BY <1>2, <1>3, <1>9, <3>1 DEF TypeInv, TypeOK
  <2>2. CASE u # t
    <3>1. /\ by'[u] = by[u] /\ key'[u] = key[u] /\ Live(u) /\ by[u] \in Chat
          /\ Working(u)' => Working(u)
      BY <1>1, <2>2 DEF TypeInv, Live, Working, Persisting
    <3>2. by[u] = c => key[u] = k
      BY <1>2, <1>9, <3>1 DEF Placed, TurnsAimed, CaseAssumption
    <3> QED
      BY <1>2, <1>3, <1>9, <3>1, <3>2 DEF TypeInv, TypeOK, Placed, TurnsAimed, Settled
  <2> QED
    BY <2>1, <2>2
<1>7. WritersPlaced'
  <2>1. \A u \in Turn : Persisting(u)' => Persisting(u)
    BY <1>1 DEF Persisting, TypeInv
  <2> QED
    BY <1>2, <1>3, <2>1 DEF Placed, WritersPlaced
<1>8. AddedKept'
  <2>1. \A u \in added : /\ u # t /\ u \in Turn /\ turn[u] # "new"
                         /\ turn'[u] = turn[u] /\ key'[u] = key[u] /\ by'[u] = by[u]
    BY <1>1 DEF TypeInv, TypeOK
  <2>2. \A u \in added : Live(u) => by[u] \in Chat /\ emitter[by[u]] \subseteq emitter'[by[u]]
    BY <1>9, <2>1 DEF TypeInv
  <2>3. \A u \in added : key[u] # None /\ Safe(u) => Safe(u)'
    <3>1. \A u \in added : Versions(u) \subseteq Versions(u)'
      BY <1>3, <2>1 DEF Versions
    <3> QED
      BY <1>2, <2>1, <3>1 DEF Safe
  <2> QED
    BY <1>2, <2>1, <2>2, <2>3 DEF AddedKept, Slot, Live
<1> QED
  BY <1>4, <1>5, <1>6, <1>7, <1>8 DEF Placed

\* A connection is synced anew: its emitter changes when no turn uses it.
LEMMA SyncPlaced ==
    ASSUME TypeInv, Placed, AddedKept, NEW c \in Chat,
           UNCHANGED <<edit, frames, pin, turn, key, by, target, merged, added, gone, stale>>,
           \A k \in Case : doc'[k].layers = doc[k].layers,
           \A x \in Chat \ {c} : /\ handler'[x] = handler[x] /\ loading'[x] = loading[x]
                                 /\ got'[x] = got[x] /\ emitter'[x] = emitter[x]
                                 /\ synced'[x] = synced[x],
           \/ \A t \in Turn : ~(Live(t) /\ by[t] = c)
           \/ /\ emitter[c] \subseteq emitter'[c]
              /\ \A t \in Turn : Live(t) /\ by[t] = c => emitter'[c] \subseteq Belongs(key[t])
              /\ Settled(c)' /\ synced'[c] # Never => Settled(c) /\ synced'[c] = synced[c],
           /\ Settled(c)' /\ synced'[c] # Never => emitter'[c] \subseteq Belongs(synced'[c])
           /\ handler'[c] = "stamped" => synced'[c] = Never
           /\ Reading(c)' => synced'[c] = loading'[c]
           /\ handler'[c] \in {"read", "replayed"} => got'[c] \subseteq Belongs(loading'[c])
    PROVE  Placed' /\ AddedKept'
<1>1. \A x : Belongs(x)' = Belongs(x)
  BY DEF Belongs, PinnedTo
<1>2. DocsPlaced' /\ WritersPlaced'
  BY <1>1 DEF Placed, DocsPlaced, WritersPlaced, Persisting
<1>3. EmittersPlaced'
  BY <1>1 DEF Placed, EmittersPlaced, Settled, Reading, Belongs, PinnedTo
<1>4. TurnsAimed'
  BY <1>1 DEF Placed, TurnsAimed, Settled, Live, Working, Persisting, TypeInv, Belongs, PinnedTo
<1>5. AddedKept'
  <2>1. \A t \in added : t \in Turn /\ key[t] \in Case \cup {None}
    BY DEF TypeInv, TypeOK
  <2>2. \A t \in added : /\ Live(t)' <=> Live(t)
                         /\ Live(t) => by[t] \in Chat /\ emitter[by[t]] \subseteq emitter'[by[t]]
    BY <2>1 DEF Live, TypeInv
  <2>3. \A t \in added : key[t] # None /\ Safe(t) => Safe(t)'
    BY <1>1, <2>1 DEF Safe, Versions
  <2> QED
    BY <2>1, <2>2, <2>3 DEF AddedKept, Slot
<1> QED
  BY <1>2, <1>3, <1>4, <1>5 DEF Placed

\* The emitter of a connection stays, and serves what it did.
LEMMA EmitterStays ==
    ASSUME Placed, NEW c \in Chat, emitter' = emitter
    PROVE  /\ emitter[c] \subseteq emitter'[c]
           /\ \A t \in Turn : Live(t) /\ by[t] = c => emitter'[c] \subseteq Belongs(key[t])
BY DEF Placed, TurnsAimed

LEMMA HandlersPlace ==
    ASSUME CaseAssumption, TypeInv, CasesExist, Placed, AddedKept, NEW c \in Chat, HandlerStep(c),
           ~crossed', frames' = frames
    PROVE  Placed' /\ AddedKept'
<1> USE DEF appVars, turnVars, history
<1>1. ASSUME BeginSync(c, active), ~Loading(c), UNCHANGED active PROVE Placed' /\ AddedKept'
  <2>1. CASE synced[c] = active /\ Start(c, active)
    <3>1. Settled(c)
      BY <1>1, <2>1 DEF Placed, EmittersPlaced, Settled, Reading, Loading, CaseAssumption,
        TypeInv, TypeOK
    <3> QED
      BY <2>1, <3>1, StartPlaced DEF TypeInv, TypeOK
  <2>2. CASE /\ active # None /\ synced[c] # active
             /\ synced' = [synced EXCEPT ![c] = active]
             /\ loading' = [loading EXCEPT ![c] = active]
             /\ handler' = [handler EXCEPT ![c] = "reading"]
             /\ UNCHANGED <<doc, appVars, got, emitter, pin, latch, turnVars, history>>
    <3>1. /\ ~Settled(c)' /\ handler'[c] = "reading"
          /\ synced'[c] = loading'[c]
      BY <2>2 DEF Settled, TypeInv, TypeOK
    <3> QED
      BY <2>2, <3>1, SyncPlaced, EmitterStays DEF TypeInv, TypeOK
  <2>3. CASE /\ synced[c] = None
             /\ handler' = [handler EXCEPT ![c] = "creating"]
             /\ UNCHANGED <<doc, appVars, loading, got, emitter, synced, pin, latch, turnVars,
                            history>>
    <3>1. Settled(c) /\ handler'[c] = "creating" /\ ~Reading(c)'
      BY <1>1, <2>3 DEF Placed, EmittersPlaced, Settled, Reading, Loading, CaseAssumption,
        TypeInv, TypeOK
    <3>2. emitter[c] \subseteq Belongs(synced[c]) /\ synced[c] # Never
      BY <2>3, <3>1 DEF Placed, EmittersPlaced, CaseAssumption
    <3> QED
      BY <2>3, <3>1, <3>2, SyncPlaced, EmitterStays DEF TypeInv, TypeOK
  <2>4. CASE /\ synced' = [synced EXCEPT ![c] = None]
             /\ Reseed(c, {})
             /\ handler' = [handler EXCEPT ![c] = "creating"]
             /\ UNCHANGED <<doc, appVars, loading, got, pin, latch, turnVars, added, gone, edited,
                            stale>>
    <3>1. /\ handler'[c] = "creating" /\ ~Reading(c)' /\ emitter'[c] = {}
          /\ \A t \in Turn : ~(Live(t) /\ by[t] = c)
      BY <2>4 DEF Reseed, Reading, TypeInv, TypeOK
    <3> QED
      BY <2>4, <3>1, SyncPlaced, EmitterStays DEF Reseed, TypeInv, TypeOK
  <2> QED
    BY <1>1, <2>1, <2>2, <2>3, <2>4 DEF BeginSync
<1>2. CASE AskHere(c) \/ Sync(c)
  BY <1>1, <1>2 DEF AskHere, Sync, Loading
<1>3. CASE ReadCase(c)
  <2>1. /\ handler[c] = "reading" /\ handler' = [handler EXCEPT ![c] = "read"]
        /\ got' = [got EXCEPT ![c] = doc[loading[c]].layers]
        /\ UNCHANGED <<doc, loading, edit, emitter, synced, pin, turn, key, by, target, merged,
                       added, gone, stale>>
    BY <1>3 DEF ReadCase
  <2>2. loading[c] \in Case /\ synced[c] = loading[c]
    BY <2>1 DEF TypeInv, TypeOK, Placed, EmittersPlaced, Reading
  <2>3. /\ handler'[c] = "read" /\ ~Settled(c)'
        /\ synced'[c] = loading'[c]
        /\ got'[c] \subseteq Belongs(loading'[c])
    BY <2>1, <2>2 DEF Settled, TypeInv, TypeOK, Placed, DocsPlaced
  <2> QED
    BY <2>1, <2>3, SyncPlaced, EmitterStays DEF TypeInv, TypeOK
<1>4. ASSUME NEW ls, Loaded(c, ls), Reading(c), ls \subseteq Belongs(loading[c])
      PROVE  Placed' /\ AddedKept'
  <2>1. /\ handler' = [handler EXCEPT ![c] = "loaded"]
        /\ loading' = [loading EXCEPT ![c] = None] /\ got' = [got EXCEPT ![c] = {}]
        /\ emitter' = [emitter EXCEPT ![c] = ls]
        /\ \A t \in Turn : ~(Live(t) /\ by[t] = c)
        /\ UNCHANGED <<doc, edit, synced, pin, turn, key, by, target, merged, added, gone, stale>>
    BY <1>4 DEF Loaded, Reseed
  <2>2. synced[c] = loading[c] /\ synced[c] # Never
    BY <1>4 DEF Placed, EmittersPlaced, TypeInv, CaseAssumption
  <2>3. handler'[c] = "loaded" /\ ~Reading(c)' /\ emitter'[c] \subseteq Belongs(synced'[c])
    BY <1>4, <2>1, <2>2 DEF Reading, TypeInv, TypeOK
  <2> QED
    BY <2>1, <2>2, <2>3, SyncPlaced, EmitterStays DEF TypeInv, TypeOK
<1>5. CASE LoadCase(c) \/ LoadFails(c)
  BY <1>4, <1>5 DEF LoadCase, LoadFails, Reading, Placed, EmittersPlaced
<1>6. CASE Pin(c)
  BY <1>6, StartPlaced DEF Pin, Settled, TypeInv, TypeOK
<1>7. CASE LeftAtRoot(c)
  <2>1. /\ handler[c] = "loaded" /\ handler' = [handler EXCEPT ![c] = "creating"]
        /\ UNCHANGED <<doc, loading, got, edit, emitter, synced, pin, turn, key, by, target, merged,
                       added, gone, stale>>
    BY <1>7 DEF LeftAtRoot
  <2>2. handler'[c] = "creating" /\ Settled(c) /\ ~Reading(c)'
    BY <2>1 DEF Settled, Reading, TypeInv, TypeOK
  <2>3. synced[c] # Never => emitter[c] \subseteq Belongs(synced[c])
    BY <2>2 DEF Placed, EmittersPlaced
  <2> QED
    BY <2>1, <2>2, <2>3, SyncPlaced, EmitterStays DEF TypeInv, TypeOK
<1>8. CASE AutoCreate(c)
  <2>1. /\ handler[c] = "creating" /\ handler' = [handler EXCEPT ![c] = "created"]
        /\ UNCHANGED <<edit, loading, got, pin, turn, key, by, target, merged, added, gone, stale>>
    BY <1>8, AutoCreates DEF AutoCreate
  <2>2. handler'[c] = "created" /\ Settled(c) /\ ~Reading(c)'
    BY <2>1 DEF Settled, Reading, TypeInv, TypeOK
  <2>3. synced[c] # Never => emitter[c] \subseteq Belongs(synced[c])
    BY <2>2 DEF Placed, EmittersPlaced
  <2>4. CASE UNCHANGED <<doc, synced, emitter>>
    BY <2>1, <2>2, <2>3, <2>4, SyncPlaced, EmitterStays DEF TypeInv, TypeOK
  <2>5. ASSUME NEW k \in Case, NEW d \in Summary, Created(k, d),
               synced' = [synced EXCEPT ![c] = k], Reseed(c, {})
        PROVE  Placed' /\ AddedKept'
    <3>1. \A x \in Case : doc'[x].layers = doc[x].layers
      BY <2>5 DEF Created, TypeInv, TypeOK
    <3>2. emitter'[c] = {} /\ \A t \in Turn : ~(Live(t) /\ by[t] = c)
      BY <2>5 DEF Reseed, TypeInv, TypeOK
    <3> QED
      BY <2>1, <2>2, <2>5, <3>1, <3>2, SyncPlaced, EmitterStays DEF Reseed, TypeInv, TypeOK
  <2> QED
    BY <1>8, <2>4, <2>5, AutoCreates
<1>9. ASSUME NEW k \in Case, AskElsewhere(c, k) PROVE Placed' /\ AddedKept'
  <2>1. /\ synced' = [synced EXCEPT ![c] = Never]
        /\ handler' = [handler EXCEPT ![c] = "stamped"]
        /\ UNCHANGED <<doc, edit, loading, got, emitter, pin, turn, key, by, target, merged, added,
                       gone, stale>>
    BY <1>9 DEF AskElsewhere
  <2>2. /\ handler'[c] = "stamped" /\ synced'[c] = Never
        /\ ~Settled(c)' /\ ~Reading(c)'
    BY <2>1 DEF Settled, Reading, TypeInv, TypeOK
  <2> QED
    BY <2>1, <2>2, SyncPlaced, EmitterStays DEF TypeInv, TypeOK
<1>10. CASE Resume(c)
  <2>1. /\ handler[c] = "idle" /\ handler' = [handler EXCEPT ![c] = "resuming"]
        /\ synced' = synced \/ synced' = [synced EXCEPT ![c] = Never]
        /\ UNCHANGED <<doc, edit, loading, got, emitter, pin, turn, key, by, target, merged, added,
                       gone, stale>>
    BY <1>10 DEF Resume
  <2>2. /\ handler'[c] = "resuming" /\ Settled(c) /\ ~Reading(c)'
        /\ synced'[c] # Never => synced'[c] = synced[c]
        /\ \A x \in Chat \ {c} : handler'[x] = handler[x] /\ synced'[x] = synced[x]
    BY <2>1 DEF Settled, Reading, TypeInv, TypeOK
  <2>3. synced[c] # Never => emitter[c] \subseteq Belongs(synced[c])
    BY <2>2 DEF Placed, EmittersPlaced
  <2> QED
    BY <2>1, <2>2, <2>3, SyncPlaced, EmitterStays
<1>11. CASE Rebind(c)
  <2>1. /\ handler[c] = "resuming" /\ TakeOver(c) /\ ~TakesForeign(c)
        /\ UNCHANGED <<doc, edit, got, synced, pin, turn, key, by, target, merged, added, gone,
                       stale>>
    BY <1>11 DEF Rebind
  <2>2. /\ handler'[c] \in {"idle", "replaying"}
        /\ \A x \in Chat \ {c} : handler'[x] = handler[x] /\ loading'[x] = loading[x]
    BY <1>11 DEF Rebind, TypeInv, TypeOK
  <2>3. Settled(c) /\ ~Reading(c)' /\ handler'[c] \notin {"stamped", "read", "replayed"}
    BY <2>1, <2>2 DEF Settled, Reading
  <2>4. synced[c] # Never => emitter[c] \subseteq Belongs(synced[c])
    BY <2>3 DEF Placed, EmittersPlaced
  <2>5. /\ emitter[c] \subseteq emitter'[c]
        /\ \A x \in Chat \ {c} : emitter'[x] = emitter[x]
        /\ synced[c] # Never => emitter'[c] \subseteq Belongs(synced[c])
        /\ \A u \in Turn : Live(u) /\ by[u] = c => emitter'[c] \subseteq Belongs(key[u])
    BY <2>1, <2>4, TakenPlaced
  <2> QED
    BY <2>1, <2>2, <2>3, <2>5, SyncPlaced
<1>12. CASE ReplayRead(c)
  <2>1. /\ handler[c] = "replaying" /\ handler' = [handler EXCEPT ![c] = "replayed"]
        /\ got' = [got EXCEPT ![c] = doc[loading[c]].layers]
        /\ UNCHANGED <<doc, loading, edit, emitter, synced, pin, turn, key, by, target, merged,
                       added, gone, stale>>
    BY <1>12 DEF ReplayRead
  <2>2. loading[c] \in Case /\ Settled(c)
    BY <2>1 DEF TypeInv, TypeOK, Settled
  <2>3. /\ handler'[c] = "replayed" /\ ~Reading(c)'
        /\ synced[c] # Never => emitter[c] \subseteq Belongs(synced[c])
        /\ got'[c] \subseteq Belongs(loading'[c])
    BY <2>1, <2>2 DEF Reading, TypeInv, TypeOK, Placed, DocsPlaced, EmittersPlaced
  <2> QED
    BY <2>1, <2>2, <2>3, SyncPlaced, EmitterStays DEF TypeInv, TypeOK
<1>13. CASE Replay(c)
  <2>1. /\ handler[c] = "replayed" /\ handler' = [handler EXCEPT ![c] = "idle"]
        /\ loading' = [loading EXCEPT ![c] = None] /\ got' = [got EXCEPT ![c] = {}]
        /\ emitter' = [emitter EXCEPT ![c] = got[c]]
        /\ synced[c] \in {Never, loading[c]}
        /\ \A t \in Turn : ~(Live(t) /\ by[t] = c)
        /\ UNCHANGED <<doc, edit, synced, pin, turn, key, by, target, merged, added, gone, stale>>
    BY <1>13 DEF Replay, Resumed
  <2>2. /\ handler'[c] = "idle" /\ ~Reading(c)'
        /\ synced[c] # Never => emitter'[c] \subseteq Belongs(synced[c])
    BY <2>1 DEF Reading, TypeInv, TypeOK, Placed, EmittersPlaced
  <2> QED
    BY <2>1, <2>2, SyncPlaced DEF TypeInv, TypeOK
<1>14. CASE ReplayFails(c)
  <2>1. /\ handler[c] = "replaying" /\ handler' = [handler EXCEPT ![c] = "idle"]
        /\ loading' = [loading EXCEPT ![c] = None] /\ got' = [got EXCEPT ![c] = {}]
        /\ UNCHANGED <<doc, edit, emitter, synced, pin, turn, key, by, target, merged, added, gone,
                       stale>>
    BY <1>14 DEF ReplayFails, Resumed
  <2>2. handler'[c] = "idle" /\ Settled(c) /\ ~Reading(c)'
    BY <2>1 DEF Settled, Reading, TypeInv, TypeOK
  <2>3. synced[c] # Never => emitter[c] \subseteq Belongs(synced[c])
    BY <2>2 DEF Placed, EmittersPlaced
  <2> QED
    BY <2>1, <2>2, <2>3, SyncPlaced, EmitterStays DEF TypeInv, TypeOK
<1> QED
  BY <1>2, <1>3, <1>5, <1>6, <1>7, <1>8, <1>9, <1>10, <1>11, <1>12, <1>13, <1>14 DEF HandlerStep

-----------------------------------------------------------------------------
(* Turns                                                                    *)

\* A layer is lost by no write, unless the user deletes it.
LEMMA SafeStays ==
    ASSUME TypeInv, NEW k \in Case, NEW d \in Summary, NEW fresh \in BOOLEAN,
           doc' = [doc EXCEPT ![k] = d], UNCHANGED <<key, frames>>, d.layers \subseteq Belongs(k),
           \A t \in Turn : turn[t] # "new" => turn'[t] # "new",
           stale' = IF fresh THEN stale ELSE stale \cup {k}, gone \subseteq gone',
           fresh => \/ Keeps(doc[k].layers, d.layers)
                    \/ doc[k].layers \subseteq d.layers \cup gone'
    PROVE  \A t \in Turn : key[t] # None /\ Safe(t) => Safe(t)'
<1>1. \A t \in Turn : Versions(t) \subseteq Versions(t)'
  BY DEF Versions, Belongs, PinnedTo
<1>2. SUFFICES ASSUME NEW t \in Turn, key[t] # None, Safe(t), key[t] \notin stale'
               PROVE  Versions(t) \cap (doc'[key[t]].layers \cup gone') # {}
  BY <1>1 DEF Safe
<1>3. PICK x \in Versions(t) : x \in doc[key[t]].layers \cup gone
  BY <1>2 DEF Safe
<1>4. CASE key[t] # k \/ x \in gone
  BY <1>2, <1>3, <1>4 DEF TypeInv, TypeOK
<1>5. CASE key[t] = k /\ x \in doc[k].layers
  <2>1. doc'[k] = d /\ fresh
    BY <1>2, <1>5 DEF TypeInv, TypeOK
  <2>2. CASE doc[k].layers \subseteq d.layers \cup gone'
    BY <1>3, <1>5, <2>1, <2>2
  <2>3. CASE Keeps(doc[k].layers, d.layers) /\ t \notin frames
    BY <1>3, <1>5, <2>1, <2>3 DEF Keeps, Versions
  <2>4. CASE Keeps(doc[k].layers, d.layers) /\ t \in frames
    BY <1>3, <1>5, <2>1, <2>4 DEF Keeps, Versions
  <2> QED
    BY <2>1, <2>2, <2>3, <2>4
<1> QED
  BY <1>3, <1>4, <1>5

\* Nothing happens to the layers of the documents.
LEMMA SafeIsStill ==
    ASSUME \A t \in Turn : turn[t] # "new" => turn'[t] # "new",
           UNCHANGED <<doc, key, frames, gone>>, stale \subseteq stale'
    PROVE  \A t \in Turn : Safe(t) => Safe(t)'
<1>1. \A t \in Turn : Versions(t) \subseteq Versions(t)'
  BY DEF Versions, Belongs, PinnedTo
<1> QED
  BY <1>1 DEF Safe

\* The connections keep still: what a turn does to its own place.
LEMMA TurnPlaced ==
    ASSUME TypeInv, Placed, NEW t \in Turn, Live(t), NEW p,
           turn' = [turn EXCEPT ![t] = p], p # "new",
           UNCHANGED <<doc, handler, loading, got, emitter, synced, pin, key, by>>,
           \A u \in Turn \ {t} : target'[u] = target[u] /\ merged'[u] = merged[u],
           p \in {"tool", "persist", "merge", "write"} /\ key[t] # None => target'[t] = key[t],
           p \in {"merge", "write"} => merged'[t].new.layers \subseteq Belongs(target'[t]),
           edit' = edit
    PROVE  Placed'
<1>1. \A x : Belongs(x)' = Belongs(x)
  BY DEF Belongs, PinnedTo, TypeInv, Live
<1>2. DocsPlaced'
  BY <1>1 DEF Placed, DocsPlaced
<1>3. EmittersPlaced'
  BY <1>1 DEF Placed, EmittersPlaced, Settled, Reading
<1>4. turn'[t] = p /\ \A u \in Turn \ {t} : turn'[u] = turn[u]
  BY DEF TypeInv
<1>5. TurnsAimed'
  BY <1>1, <1>4 DEF Placed, TurnsAimed, Settled, Live, Working, Persisting
<1>6. WritersPlaced'
  BY <1>1, <1>4 DEF Placed, WritersPlaced, Persisting
<1> QED
  BY <1>2, <1>3, <1>5, <1>6 DEF Placed

LEMMA TurnsPlace ==
    ASSUME CaseAssumption, TypeInv, CasesExist, DocsInv, Placed, AddedKept,
           NEW t \in Turn, TurnStep(t), frames' = frames
    PROVE  Placed' /\ AddedKept'
<1> USE DEF appVars, chatVars, history
<1>0. Live(t) => /\ pin[by[t]] = key[t] /\ by[t] \in Chat
                 /\ emitter[by[t]] \subseteq Belongs(key[t])
                 /\ Working(t) /\ key[t] # None => target[t] = key[t]
  BY DEF Placed, TurnsAimed, TypeInv, Live
<1>1. CASE DispatchTool(t)
  <2>1. /\ turn[t] = "running" /\ turn' = [turn EXCEPT ![t] = "tool"]
        /\ target' = [target EXCEPT ![t] = TurnCase(by[t])]
        /\ UNCHANGED <<doc, handler, loading, got, emitter, synced, pin, key, by, edit, merged,
                       added, gone, stale>>
    BY <1>1 DEF DispatchTool
  <2>2. Live(t) /\ (key[t] # None => target'[t] = key[t])
    BY <1>0, <2>1 DEF Live, TurnCase, TypeInv
  <2>3. Placed'
    BY <2>1, <2>2, TurnPlaced DEF TypeInv
  <2>4. AddedKept'
    BY <2>1, SafeIsStill DEF AddedKept, Slot, Live, TypeInv, TypeOK
  <2> QED
    BY <2>3, <2>4
<1>2. CASE AddLayer(t)
  <2>1. /\ turn[t] = "tool" /\ turn' = [turn EXCEPT ![t] = "persist"]
        /\ \E held \in Adding(t, emitter[by[t]]) : emitter' = [emitter EXCEPT ![by[t]] = held]
        /\ added' = added \cup {t} /\ gone' = gone \ ({t} \ frames)
        /\ UNCHANGED <<doc, edit, handler, loading, got, synced, pin, key, by, target, merged,
                       stale>>
    BY <1>2 DEF AddLayer
  <2>2. \A x : Belongs(x)' = Belongs(x)
    BY <2>1 DEF Belongs, PinnedTo, TypeInv
  <2>3. t \in Belongs(key[t]) /\ Live(t) /\ Working(t) /\ by[t] \in Chat
    BY <2>1 DEF Belongs, PinnedTo, Live, Working, TypeInv
  <2>4. /\ emitter'[by[t]] \subseteq emitter[by[t]] \cup {t} /\ t \in emitter'[by[t]]
        /\ emitter[by[t]] \ emitter'[by[t]] \subseteq frames
        /\ emitter[by[t]] \subseteq emitter'[by[t]] \/ t \in frames
        /\ \A c \in Chat \ {by[t]} : emitter'[c] = emitter[c]
    BY <2>1, <2>3 DEF TypeInv, TypeOK, Adding
  <2>5. DocsPlaced' /\ WritersPlaced'
    BY <2>1, <2>2 DEF Placed, DocsPlaced, WritersPlaced, Persisting, TypeInv
  <2>6. Settled(by[t]) /\ synced[by[t]] # Never => /\ synced[by[t]] = key[t]
                                                  /\ emitter'[by[t]] \subseteq Belongs(key[t])
    BY <1>0, <2>3, <2>4 DEF Placed, TurnsAimed, TypeInv, CaseAssumption
  <2>7. EmittersPlaced'
    BY <2>1, <2>2, <2>4, <2>6 DEF Placed, EmittersPlaced, Settled, Reading
  <2>8. \A u \in Turn : Live(u) /\ by[u] = by[t] => t \in Belongs(key[u])
    <3>1. SUFFICES ASSUME NEW u \in Turn, Live(u), by[u] = by[t] PROVE t \in Belongs(key[u])
      OBVIOUS
    <3>2. key[u] = key[t]
      BY <1>0, <2>3, <3>1 DEF Placed, TurnsAimed
    <3> QED
      BY <2>3, <3>2
  <2>9. \A u \in Turn : /\ Live(u)' <=> Live(u)
                        /\ Working(u)' <=> Working(u)
                        /\ Live(u) => by[u] \in Chat
    BY <2>1 DEF Live, Working, Persisting, TypeInv
  <2>10. TurnsAimed'
    BY <2>1, <2>2, <2>4, <2>8, <2>9 DEF Placed, TurnsAimed, Settled
  <2>11. AddedKept'
    <3>1. \A u \in added : Live(u) => by[u] \in Chat /\ Slot(u) \cap emitter'[by[u]] # {}
      BY <2>4, <2>9 DEF AddedKept, Slot, TypeInv, TypeOK
    <3>2. \A u \in Turn \ {t} : Safe(u) => Safe(u)'
      BY <2>1, <2>2 DEF Safe, Versions
    <3>3. turn'[t] = "persist" /\ \A u \in Turn \ {t} : turn'[u] = turn[u]
      BY <2>1 DEF TypeInv
    <3>4. t \in Slot(t) /\ added \subseteq Turn
      BY DEF Slot, TypeInv, TypeOK
    <3> QED
      BY <2>1, <2>3, <2>4, <2>9, <3>1, <3>2, <3>3, <3>4 DEF AddedKept, Slot
  <2> QED
    BY <2>5, <2>7, <2>10, <2>11 DEF Placed
<1>3. CASE NoLayer(t)
  <2>1. /\ turn[t] = "tool" /\ turn' = [turn EXCEPT ![t] = "persist"]
        /\ UNCHANGED <<doc, handler, loading, got, emitter, synced, pin, key, by, edit, target,
                       merged, added, gone, stale>>
    BY <1>3 DEF NoLayer
  <2>2. Placed'
    BY <1>0, <2>1, TurnPlaced DEF Live, Working
  <2>3. AddedKept'
    BY <2>1, SafeIsStill DEF AddedKept, Slot, Live, TypeInv, TypeOK
  <2> QED
    BY <2>2, <2>3
<1>4. CASE EndTurn(t)
  <2>1. /\ turn[t] = "running" /\ turn' = [turn EXCEPT ![t] = "done"]
        /\ UNCHANGED <<doc, handler, loading, got, emitter, synced, pin, key, by, edit, target,
                       merged, added, gone, stale>>
    BY <1>4 DEF EndTurn
  <2>2. Placed'
    BY <2>1, TurnPlaced DEF Live
  <2>3. AddedKept'
    BY <2>1, SafeIsStill DEF AddedKept, Slot, Live, TypeInv, TypeOK
  <2> QED
    BY <2>2, <2>3
<1>5. CASE PersistRead(t)
  <2>1. /\ turn[t] = "persist"
        /\ UNCHANGED <<doc, handler, loading, got, emitter, synced, pin, key, by, edit, target,
                       added, gone, stale>>
    BY <1>5 DEF PersistRead
  <2>2. CASE target[t] = None \/ ~Exists(target[t])
    <3>1. turn' = [turn EXCEPT ![t] = "running"] /\ UNCHANGED merged
      BY <1>5, <2>2 DEF PersistRead
    <3>2. key[t] = None
      BY <1>0, <2>1, <2>2 DEF Live, Working, CasesExist
    <3>3. Placed'
      BY <2>1, <3>1, TurnPlaced DEF Live
    <3>4. AddedKept'
      BY <2>1, <3>1, <3>2, SafeIsStill DEF AddedKept, Slot, Live, TypeInv, TypeOK
    <3> QED
      BY <3>3, <3>4
  <2>3. CASE ~(target[t] = None \/ ~Exists(target[t]))
    <3>1. /\ turn' = [turn EXCEPT ![t] = "merge"]
          /\ merged' = [merged EXCEPT ![t] = [new |-> doc[target[t]], fresh |-> TRUE]]
      BY <1>5, <2>3 DEF PersistRead
    <3>2. target[t] \in Case /\ merged'[t].new = doc[target[t]]
      BY <2>3, <3>1 DEF TypeInv
    <3>3. Placed'
      <4>1. doc[target[t]].layers \subseteq Belongs(target[t])
        BY <3>2 DEF Placed, DocsPlaced
      <4>2. \A u \in Turn \ {t} : merged'[u] = merged[u]
        BY <3>1 DEF TypeInv
      <4> QED
        BY <1>0, <2>1, <3>1, <3>2, <4>1, <4>2, TurnPlaced DEF Live, Working
    <3>4. key[t] # None => target[t] = key[t]
      BY <1>0, <2>1 DEF Live, Working
    <3>6. key[t] # None /\ Slot(t) \cap doc[target[t]].layers # {} => Safe(t)
      BY <3>2, <3>4 DEF Placed, DocsPlaced, Slot, Safe, Versions
    <3>5. AddedKept'
      BY <2>1, <3>1, <3>2, <3>6, SafeIsStill DEF AddedKept, Slot, Live, TypeInv, TypeOK
    <3> QED
      BY <3>3, <3>5
  <2> QED
    BY <2>2, <2>3
<1>6. CASE PersistMerge(t)
  <2>1. /\ turn[t] = "merge"
        /\ UNCHANGED <<doc, handler, loading, got, emitter, synced, pin, key, by, edit, target,
                       added, gone, stale>>
    BY <1>6 DEF PersistMerge
  <2>2. /\ t \in added => Slot(t) \cap emitter[by[t]] # {}
        /\ Live(t) /\ Working(t) /\ Persisting(t)
    BY <2>1 DEF AddedKept, Live, Working, Persisting
  <2>3. Union(merged[t].new.layers, emitter[by[t]]) \subseteq Belongs(target[t])
    <3>1. merged[t].new.layers \subseteq Belongs(target[t])
      BY <2>2 DEF Placed, WritersPlaced
    <3>2. emitter[by[t]] \subseteq Belongs(target[t])
      BY <1>0, <2>2, BelongsNowhere
    <3> QED
      BY <3>1, <3>2 DEF Union
  <2>9. t \in added => Slot(t) \cap Union(merged[t].new.layers, emitter[by[t]]) # {}
    BY <2>2 DEF Slot, Union
  <2>4. CASE /\ turn' = [turn EXCEPT ![t] = "running"]
             /\ Union(merged[t].new.layers, emitter[by[t]]) = merged[t].new.layers
             /\ merged' = [merged EXCEPT ![t] = None]
    <3>1. Placed'
      BY <2>1, <2>2, <2>4, TurnPlaced DEF TypeInv
    <3>2. AddedKept'
      BY <2>1, <2>2, <2>4, <2>9, SafeIsStill DEF AddedKept, Slot, Live, TypeInv, TypeOK
    <3> QED
      BY <3>1, <3>2
  <2>5. ASSUME NEW m \in Merge, turn' = [turn EXCEPT ![t] = "write"],
               merged' = [merged EXCEPT ![t] = m],
               m.new.layers = Union(merged[t].new.layers, emitter[by[t]])
        PROVE  Placed' /\ AddedKept'
    <3>1. merged'[t] = m /\ \A u \in Turn \ {t} : merged'[u] = merged[u]
      BY <2>5 DEF TypeInv
    <3>2. Placed'
      BY <1>0, <2>1, <2>2, <2>3, <2>5, <3>1, TurnPlaced
    <3>3. AddedKept'
      BY <2>1, <2>2, <2>5, <2>9, <3>1, SafeIsStill DEF AddedKept, Slot, Live, TypeInv, TypeOK
    <3> QED
      BY <3>2, <3>3
  <2> QED
    BY <1>6, <2>4, <2>5, PersistMerges
<1>7. CASE PersistWrite(t)
  <2> DEFINE k == target[t]
             d == merged[t].new
  <2>1. /\ turn[t] = "write" /\ turn' = [turn EXCEPT ![t] = "running"]
        /\ doc' = [doc EXCEPT ![k] = d] /\ edit' = EditOutdated(k)
        /\ stale' = IF merged[t].fresh THEN stale ELSE stale \cup {k}
        /\ \A u \in Turn \ {t} : Persisting(u) => merged'[u].new = merged[u].new
        /\ UNCHANGED <<handler, loading, got, emitter, synced, pin, key, by, target, added, gone>>
    BY <1>7, OutdatedType DEF PersistWrite, Upsert, TypeInv, TypeOK, Persisting
  <2>2. k \in Case /\ d \in Summary /\ merged[t].fresh \in BOOLEAN /\ Persisting(t)
    BY <2>1 DEF TypeInv, TypeOK, Persisting, Merge
  <2>3. \A x : Belongs(x)' = Belongs(x)
    BY <2>1 DEF Belongs, PinnedTo, TypeInv
  <2>4. DocsPlaced'
    BY <2>1, <2>2, <2>3 DEF Placed, DocsPlaced, WritersPlaced, TypeInv, TypeOK
  <2>5. EmittersPlaced'
    BY <2>1, <2>3 DEF Placed, EmittersPlaced, Settled, Reading
  <2>6. TurnsAimed'
    BY <2>1, <2>3 DEF Placed, TurnsAimed, Settled, Live, Working, Persisting, TypeInv
  <2>7. WritersPlaced'
    <3>1. \A u \in Turn : Persisting(u)' => u # t /\ Persisting(u)
      BY <2>1 DEF Persisting, TypeInv
    <3>2. edit' # None => edit # None /\ edit'.new = edit.new /\ edit'.case = edit.case
      BY <2>1, <2>2, EditOutdatedType DEF TypeInv
    <3> QED
      BY <2>1, <2>3, <3>1, <3>2 DEF Placed, WritersPlaced
  <2>8. AddedKept'
    <3>1. merged[t].fresh => Keeps(doc[k].layers, d.layers)
      BY <2>2 DEF DocsInv, ReadsComplete
    <3>8. d.layers \subseteq Belongs(k)
      BY <2>2 DEF Placed, WritersPlaced
    <3>9. \A u \in Turn : turn[u] # "new" => turn'[u] # "new"
      BY <2>1 DEF TypeInv
    <3>2. \A u \in Turn : key[u] # None /\ Safe(u) => Safe(u)'
      <4> HIDE DEF k, d
      <4> QED
        BY <2>1, <2>2, <3>1, <3>8, <3>9, SafeStays
    <3>3. key[t] # None => k = key[t]
      BY <1>0, <2>1 DEF Live, Working, Persisting
    <3>4. t \in added /\ key[t] # None => Safe(t)'
      <4>1. t \in added => Slot(t) \cap d.layers # {}
        BY <2>1 DEF AddedKept
      <4>2. doc'[k] = d
        BY <2>1, <2>2 DEF TypeInv, TypeOK
      <4> HIDE DEF k, d
      <4>3. SUFFICES ASSUME t \in added, key[t] # None
                     PROVE  Versions(t)' \cap doc'[key[t]].layers # {}
        BY <2>1 DEF Safe
      <4>4. Versions(t)' = Versions(t)
        BY <2>1 DEF Versions, Belongs, PinnedTo, TypeInv
      <4>5. key[t] = k
        BY <3>3, <4>3
      <4> QED
        BY <3>8, <4>1, <4>2, <4>3, <4>4, <4>5 DEF Slot, Versions
    <3>5. turn'[t] = "running" /\ \A u \in Turn \ {t} : turn'[u] = turn[u]
      BY <2>1 DEF TypeInv
    <3>6. added \subseteq Turn /\ added' = added /\ Live(t)
      BY <2>1 DEF TypeInv, TypeOK, Live
    <3>7. \A u \in added \ {t} : turn[u] \in {"merge", "write"} => merged'[u].new = merged[u].new
      BY <2>1, <3>6 DEF Persisting
    <3> QED
      BY <2>1, <3>2, <3>4, <3>5, <3>6, <3>7 DEF AddedKept, Slot, Live
  <2> QED
    BY <2>4, <2>5, <2>6, <2>7, <2>8 DEF Placed
<1>8. CASE PersistFails(t)
  <2>1. /\ turn[t] = "write" /\ turn' = [turn EXCEPT ![t] = "running"]
        /\ merged' = [merged EXCEPT ![t] = None] /\ stale' = stale \cup {target[t]}
        /\ UNCHANGED <<doc, handler, loading, got, emitter, synced, pin, key, by, edit, target,
                       added, gone>>
    BY <1>8 DEF PersistFails, DropRead
  <2>2. Placed'
    BY <2>1, TurnPlaced DEF Live, TypeInv
  <2>3. key[t] # None => target[t] = key[t]
    BY <1>0, <2>1 DEF Live, Working, Persisting
  <2>5. key[t] # None => Safe(t)'
    BY <2>1, <2>3 DEF Safe
  <2>4. AddedKept'
    BY <2>1, <2>5, SafeIsStill DEF AddedKept, Slot, Live, TypeInv, TypeOK
  <2> QED
    BY <2>2, <2>4
<1> QED
  BY <1>1, <1>2, <1>3, <1>4, <1>5, <1>6, <1>7, <1>8 DEF TurnStep

-----------------------------------------------------------------------------
(* The App connection                                                       *)

\* A document is written by the App: nobody else moves.
LEMMA AppWrites ==
    ASSUME TypeInv, Placed, AddedKept, NEW k \in Case, NEW d \in Summary, NEW fresh \in BOOLEAN,
           doc' = [doc EXCEPT ![k] = d], d.layers \subseteq Belongs(k),
           stale' = IF fresh THEN stale ELSE stale \cup {k}, gone \subseteq gone',
           fresh => doc[k].layers \subseteq d.layers \cup gone',
           Overtaken(k), edit' = None,
           UNCHANGED <<chatVars, frames, turn, key, by, target, added>>
    PROVE  Placed' /\ AddedKept'
<1> USE DEF chatVars
<1>1. \A x : Belongs(x)' = Belongs(x)
  BY DEF Belongs, PinnedTo
<1>2. DocsPlaced'
  BY <1>1 DEF Placed, DocsPlaced, TypeInv, TypeOK
<1>3. EmittersPlaced' /\ TurnsAimed'
  BY <1>1 DEF Placed, EmittersPlaced, TurnsAimed, Settled, Reading, Live, Working, Persisting
<1>4. WritersPlaced'
  BY <1>1 DEF Placed, WritersPlaced, Overtaken, Persisting
<1>5. AddedKept'
  <2>1. \A u \in Turn : key[u] # None /\ Safe(u) => Safe(u)'
    BY SafeStays
  <2>2. \A u \in Turn : turn[u] \in {"merge", "write"} => merged'[u].new = merged[u].new
    BY DEF Overtaken, Persisting
  <2>3. added \subseteq Turn
    BY DEF TypeInv, TypeOK
  <2> QED
    BY <2>1, <2>2, <2>3 DEF AddedKept, Slot, Live
<1> QED
  BY <1>2, <1>3, <1>4, <1>5 DEF Placed

LEMMA AppPlaces ==
    ASSUME CaseAssumption, TypeInv, CasesExist, DocsInv, Placed, AddedKept, AppStep,
           frames' = frames
    PROVE  Placed' /\ AddedKept'
<1> USE DEF turnVars, history
<1>1. CASE (\E k \in Case : SelectCase(k)) \/ Deselect \/ EditFails
  <2>1. /\ UNCHANGED <<doc, chatVars, turn, key, by, target, merged, added, gone, stale>>
        /\ edit' = edit \/ edit' = None
    BY <1>1 DEF SelectCase, Deselect, EditFails
  <2> QED
    BY <2>1 DEF chatVars, Placed, DocsPlaced, EmittersPlaced, TurnsAimed, WritersPlaced, Belongs,
      PinnedTo, Settled, Reading, Live, Working, Persisting, AddedKept, Slot, Safe, Versions
<1>2. ASSUME NEW k \in Case, DeleteCase(k) PROVE Placed' /\ AddedKept'
  <2>1. PICK d \in Summary : doc' = [doc EXCEPT ![k] = d] /\ d.layers = doc[k].layers
    BY <1>2, CaseDeleted
  <2>2. d.layers \subseteq Belongs(k)
    BY <2>1 DEF Placed, DocsPlaced
  <2>3. UNCHANGED <<chatVars, turn, key, by, target, added, gone>>
    BY <1>2 DEF DeleteCase
  <2> QED
    BY <1>2, <2>1, <2>2, <2>3, CaseDeleted, AppWrites
<1>3. CASE (\E k \in Case : RenameRead(k)) \/ (\E t \in Turn : DeleteLayerRead(t))
  <2>1. PICK x \in Case : EditRead(x)
    BY <1>3, EditReads
  <2>2. UNCHANGED <<doc, chatVars, turn, key, by, target, merged, added, gone, stale>>
    BY <2>1 DEF EditRead
  <2>3. edit'.new.layers \subseteq Belongs(x) /\ edit'.case = x
    BY <2>1 DEF EditRead, Placed, DocsPlaced
  <2> QED
    BY <2>2, <2>3 DEF chatVars, Placed, DocsPlaced, EmittersPlaced, TurnsAimed, WritersPlaced,
      Belongs, PinnedTo, Settled, Reading, Live, Working, Persisting, AddedKept, Slot, Safe,
      Versions
<1>4. CASE EditWrite
  <2> DEFINE k == edit.case
             d == edit.new
  <2>1. /\ edit # None /\ edit' = None /\ Store(k, d, edit.fresh)
        /\ gone' = gone \cup edit.dropped
        /\ UNCHANGED <<chatVars, turn, key, by, target, added>>
    BY <1>4 DEF EditWrite
  <2>2. k \in Case /\ d \in Summary /\ edit.fresh \in BOOLEAN
    BY <2>1 DEF TypeInv, Edit
  <2>3. Overtaken(k)
    BY <2>1, <2>2, StoreOvertakes
  <2>4. doc' = [doc EXCEPT ![k] = d] /\ stale' = IF edit.fresh THEN stale ELSE stale \cup {k}
    BY <2>1 DEF Store
  <2>5. d.layers \subseteq Belongs(k)
    BY <2>1 DEF Placed, WritersPlaced
  <2>6. edit.fresh => doc[k].layers \subseteq d.layers \cup gone'
    BY <2>1 DEF DocsInv, ReadsComplete
  <2>7. gone \subseteq gone'
    BY <2>1
  <2> HIDE DEF k, d
  <2> QED
    BY <2>1, <2>2, <2>3, <2>4, <2>5, <2>6, <2>7, AppWrites
<1> QED
  BY <1>1, <1>2, <1>3, <1>4 DEF AppStep

-----------------------------------------------------------------------------
LEMMA LayersInit == CaseAssumption /\ Init => LayersInv
<1> SUFFICES ASSUME CaseAssumption, Init PROVE LayersInv
  OBVIOUS
<1>1. TypeInv
  BY TypeInit
<1>2. CasesExist /\ DocsInv
  BY DEF Init, CasesExist, DocsInv, EditsKept, ReadsAgree, ReadsComplete, Persisting
<1>3. Placed /\ AddedKept
  BY DEF Init, CaseAssumption, Placed, DocsPlaced, EmittersPlaced, TurnsAimed, WritersPlaced,
    AddedKept, Settled, Reading, Live, Persisting
<1> QED
  BY <1>1, <1>2, <1>3 DEF LayersInv

LEMMA CrossedStays == ASSUME Next, crossed PROVE crossed'
BY DEF Next, Start, Reseed, Resume, Rebind, ReplayRead, Replay, ReplayFails, Resumed, BeginSync,
  AskHere, AskElsewhere, Sync, ReadCase, LoadCase, LoadFails,
  Loaded, Pin, LeftAtRoot, AutoCreate, DispatchTool, AddLayer, NoLayer, PersistRead, PersistMerge,
  PersistWrite, PersistFails, EndTurn, DeleteLayerRead, SelectCase, DeleteCase, RenameRead,
  Deselect, EditWrite, EditFails, turnVars, history

LEMMA LayersStep == CaseAssumption /\ LayersInv /\ [Next]_vars => LayersInv'
<1> SUFFICES ASSUME CaseAssumption, LayersInv, [Next]_vars PROVE LayersInv'
  OBVIOUS
<1>1. CASE Next
  <2>1. TypeInv'
    BY <1>1, TypeStep DEF LayersInv
  <2>2. CasesExist' /\ DocsInv'
    BY <1>1, NextSplit, HandlersKeepDocs, TurnsKeepDocs, AppKeepsDocs DEF LayersInv
  <2>3. ~crossed' => Placed' /\ AddedKept'
    BY <1>1, CrossedStays, NextSplit, HandlersPlace, TurnsPlace, AppPlaces DEF LayersInv
  <2> QED
    BY <2>1, <2>2, <2>3 DEF LayersInv
<1>2. CASE UNCHANGED vars
  <2> USE <1>2 DEF vars, appVars, chatVars, turnVars, history
  <2>1. TypeInv'
    BY DEF LayersInv, TypeInv, TypeOK, Persisting
  <2>2. CasesExist' /\ DocsInv'
    BY DEF LayersInv, CasesExist, Exists, DocsInv, EditsKept, ReadsAgree, ReadsComplete, Keeps,
      Persisting
  <2>3. crossed' \/ (Placed' /\ AddedKept')
    BY DEF LayersInv, Placed, DocsPlaced, EmittersPlaced, TurnsAimed, WritersPlaced, Belongs,
      PinnedTo, Settled, Reading, Live, Working, Persisting, AddedKept, Slot, Safe, Versions
  <2> QED
    BY <2>1, <2>2, <2>3 DEF LayersInv
<1> QED
  BY <1>1, <1>2

LEMMA LayersSafe ==
    ASSUME LayersInv PROVE TypeOK /\ PublishedIsKept /\ NoForeignLayer /\ EditsKept
<1>1. TypeOK /\ EditsKept
  BY DEF LayersInv, TypeInv, DocsInv
<1>2. PublishedIsKept
  BY DEF LayersInv, AddedKept, PublishedIsKept, Safe
<1>3. NoForeignLayer
  BY DEF LayersInv, Placed, DocsPlaced, NoForeignLayer, Belongs
<1> QED
  BY <1>1, <1>2, <1>3

=============================================================================
