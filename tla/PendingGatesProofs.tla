-------------------------- MODULE PendingGatesProofs --------------------------
(***************************************************************************)
(* Theorems about the gates, for any number of turns, questions and keys.  *)
(* GateInv strengthens the invariants of PendingGates with what the parts  *)
(* rely on: which questions let a call through already, and where the      *)
(* answers, the memory and the marks of earlier turns come from.           *)
(***************************************************************************)
EXTENDS PendingGates, TLAPS

Asking(t) == pc[t] \in {"sending", "waiting"}

Went(g) == \E p \in passed : p.gate = g

OwnerGranted(g) == card[g] # None /\ said[g] \cap card[g].grants # {}

\* A decision in a future was given by the owner.
AnswersSaid == \A g \in Gate : fut[g] \in Decisions => fut[g] \in said[g]

\* What is remembered was granted, and let its first call through.
MemoryGranted ==
    \A k \in Key : memory[k] # None => OwnerGranted(memory[k]) /\ Went(memory[k])

PassedGranted ==
    \A p \in passed :
        p.gate # None => card[p.gate] # None /\ (card[p.gate].kind = "region" \/ OwnerGranted(p.gate))

\* A gate that is still asked let nothing through.
AskedIsNew == \A t \in Turn : Asking(t) => ~Went(asks[t])

BeforePassed ==
    \A t \in Turn : /\ \A g \in before[t] : Went(g)
                    /\ pc[t] = "idle" => \A p \in passed : p.turn # t

MemoryFresh == \A k \in Key, t \in Turn : memory[k] # None => memory[k] \notin before[t]

AskedReachable ==
    \A t \in Turn : Asking(t) => (fut[asks[t]] = Pending <=> asks[t] \in registered)

GateInv ==
    /\ TypeOK
    /\ AnswersSaid /\ MemoryGranted /\ PassedGranted
    /\ AskedIsNew /\ BeforePassed /\ MemoryFresh /\ FreshApproval
    /\ AskedReachable

LEMMA GateInit == GateAssumption /\ Init => GateInv
BY DEF GateAssumption, Init, GateInv, TypeOK, AnswersSaid, MemoryGranted, PassedGranted,
    AskedIsNew, BeforePassed, MemoryFresh, FreshApproval, AskedReachable, Asking, Went,
    Decisions, Pending

\* Two turns never ask the same question.
LEMMA AskedApart ==
    ASSUME TypeOK
    PROVE  \A t, u \in Turn : Asking(t) /\ Asking(u) /\ asks[t] = asks[u] => t = u
BY DEF TypeOK, Asking

-----------------------------------------------------------------------------
(* The steps that open no gate and answer none                              *)

LEMMA TurnStarts ==
    ASSUME GateAssumption, GateInv, NEW t \in Turn, StartTurn(t)
    PROVE  GateInv'
<1> USE DEF GateInv
<1>1. /\ pc[t] = "idle" /\ pc' = [pc EXCEPT ![t] = "running"]
      /\ memory' = [k \in Key |-> None]
      /\ before' = [before EXCEPT ![t] = {p.gate : p \in passed} \ {None}]
      /\ UNCHANGED <<lane, wants, asks, card, fut, registered, said, passed>>
  BY DEF StartTurn, MemoryReset
<1>2. {p.gate : p \in passed} \ {None} \subseteq Gate
  BY DEF TypeOK
<1>3. TypeOK'
  BY <1>1, <1>2 DEF TypeOK
<1>4. AnswersSaid' /\ PassedGranted'
  BY <1>1 DEF AnswersSaid, PassedGranted, OwnerGranted
<1>5. MemoryGranted' /\ MemoryFresh'
  BY <1>1 DEF MemoryGranted, MemoryFresh
<1>6. AskedIsNew' /\ AskedReachable'
  BY <1>1 DEF AskedIsNew, AskedReachable, Asking, Went, TypeOK
<1>7. BeforePassed'
  BY <1>1 DEF BeforePassed, Went, TypeOK
<1>8. FreshApproval'
  BY <1>1 DEF BeforePassed, FreshApproval, TypeOK
<1> QED
  BY <1>3, <1>4, <1>5, <1>6, <1>7, <1>8

LEMMA TurnMoves ==
    ASSUME GateAssumption, GateInv, NEW t \in Turn,
           (\E key \in Key : Compose(t, key)) \/ NoCard(t) \/ NoWarning(t) \/ Finish(t)
    PROVE  GateInv'
<1> USE DEF GateInv
<1>1. /\ UNCHANGED <<lane, asks, card, fut, registered, memory, said, before>>
      /\ passed' = passed \/ passed' = passed \cup {Unasked(t)}
  BY DEF Compose, NoCard, NoWarning, Finish
<1>20. Unasked(t) \in [turn : Turn, gate : Gate \cup {None}] /\ Unasked(t).gate = None /\ Unasked(t).turn = t
  BY DEF Unasked
<1>21. \A h \in Gate : Went(h)' <=> Went(h)
  BY <1>1, <1>20 DEF Went, GateAssumption
<1>2. PICK p \in {"running", "composing", "over"}, w \in Key \cup {None} :
         /\ pc' = [pc EXCEPT ![t] = p] /\ wants' = [wants EXCEPT ![t] = w]
         /\ p = "composing" => w # None
         /\ pc[t] \in {"running", "composing"}
  <2>1. CASE NoCard(t)
    BY <2>1 DEF NoCard
  <2>4. CASE NoWarning(t)
    <3>1. pc' = [pc EXCEPT ![t] = "running"] /\ wants' = [wants EXCEPT ![t] = wants[t]] /\ wants[t] \in Key \cup {None}
      BY <2>4 DEF NoWarning, TypeOK
    <3> QED
      BY <2>4, <3>1 DEF NoWarning
  <2>2. CASE Finish(t)
    BY <2>2 DEF Finish
  <2>3. ASSUME NEW key \in Key, Compose(t, key)
        PROVE  /\ pc' = [pc EXCEPT ![t] = "composing"] /\ wants' = [wants EXCEPT ![t] = key]
               /\ key # None /\ pc[t] = "running"
    BY <2>3 DEF Compose, GateAssumption
  <2> QED
    BY <2>1, <2>2, <2>3, <2>4
<1> HIDE DEF Unasked
<1>3. TypeOK'
  <2>1. passed' \subseteq [turn : Turn, gate : Gate \cup {None}]
    BY <1>1, <1>20 DEF TypeOK
  <2> QED
    BY <1>1, <1>2, <2>1 DEF TypeOK
<1>4. AnswersSaid' /\ PassedGranted' /\ MemoryGranted' /\ MemoryFresh' /\ FreshApproval'
  <2>1. AnswersSaid' /\ MemoryFresh'
    BY <1>1 DEF AnswersSaid, MemoryFresh
  <2>2. PassedGranted'
    BY <1>1, <1>20 DEF PassedGranted, OwnerGranted
  <2>3. MemoryGranted'
    BY <1>1, <1>21 DEF MemoryGranted, OwnerGranted, TypeOK
  <2>4. FreshApproval'
    BY <1>1, <1>20 DEF FreshApproval, TypeOK, GateAssumption
  <2> QED
    BY <2>1, <2>2, <2>3, <2>4
<1>5. AskedIsNew' /\ AskedReachable' /\ BeforePassed'
  <2>1. \A u \in Turn : Asking(u)' => Asking(u) /\ asks[u] \in Gate
    BY <1>1, <1>2 DEF Asking, TypeOK
  <2>2. AskedIsNew' /\ AskedReachable'
    BY <1>1, <1>21, <2>1 DEF AskedIsNew, AskedReachable
  <2>3. BeforePassed'
    <3>1. \A u \in Turn : \A h \in before[u] : Went(h)'
      BY <1>21 DEF BeforePassed, TypeOK
    <3>2. \A u \in Turn : pc'[u] = "idle" => pc[u] = "idle" /\ u # t
      BY <1>2 DEF TypeOK
    <3> QED
      BY <1>1, <1>20, <3>1, <3>2 DEF BeforePassed
  <2> QED
    BY <2>2, <2>3
<1> QED
  BY <1>3, <1>4, <1>5

-----------------------------------------------------------------------------
(* Asking                                                                   *)

LEMMA GrantsType == \A kind \in Kinds : Grants(kind) \subseteq SUBSET Decisions
BY DEF Kinds, Grants, Decisions

LEMMA GateOpens ==
    ASSUME GateAssumption, GateInv, NEW t \in Turn, NEW g \in Gate, NEW kind \in Kinds,
           NEW key \in Key \cup {None}, Opens(t, g, kind, key), wants' \in [Turn -> Key \cup {None}],
           \A u \in Turn : pc'[u] = "composing" => wants'[u] # None,
           pc[t] \in {"running", "composing"}
    PROVE  GateInv'
<1> USE DEF GateInv
<1>1. PICK gs \in SUBSET Decisions :
         card' = [card EXCEPT ![g] = [turn |-> t, kind |-> kind, key |-> key,
                                      grants |-> gs, shown |-> FALSE]]
  <2>1. PICK gs \in Grants(kind) :
           card' = [card EXCEPT ![g] = [turn |-> t, kind |-> kind, key |-> key,
                                        grants |-> gs, shown |-> FALSE]]
    BY DEF Opens
  <2>2. gs \in SUBSET Decisions
    BY GrantsType
  <2> QED
    BY <2>1, <2>2
<1>2. /\ fut' = [fut EXCEPT ![g] = Pending] /\ registered' = registered \cup {g}
      /\ asks' = [asks EXCEPT ![t] = g] /\ pc' = [pc EXCEPT ![t] = "sending"]
      /\ UNCHANGED <<lane, memory, said, passed, before>>
      /\ card[g] = None
  BY DEF Opens
<1>3. /\ card'[g] = [turn |-> t, kind |-> kind, key |-> key, grants |-> gs, shown |-> FALSE]
      /\ fut'[g] = Pending
  BY <1>1, <1>2 DEF TypeOK
<1>4. card'[g] \in Cards /\ card'[g].turn = t
  BY <1>3 DEF Cards
<1>5. card'[g] # None
  BY <1>4 DEF GateAssumption
<1>6. \A h \in Gate : h # g => card'[h] = card[h] /\ fut'[h] = fut[h]
  BY <1>1, <1>2 DEF TypeOK
<1>7. TypeOK'
  <2>1. lane' \in {"cloud", "local"} /\ memory' \in [Key -> Gate \cup {None}]
        /\ said' \in [Gate -> SUBSET (Decisions \cup {"invalid"})]
        /\ passed' \subseteq [turn : Turn, gate : Gate \cup {None}] /\ before' \in [Turn -> SUBSET Gate]
    BY <1>2 DEF TypeOK
  <2>2. card' \in [Gate -> Cards \cup {None}]
    BY <1>1, <1>3, <1>4 DEF TypeOK
  <2>3. /\ fut' \in [Gate -> Decisions \cup {None, Pending, "dropped", "invalid"}]
        /\ asks' \in [Turn -> Gate \cup {None}]
        /\ pc' \in [Turn -> {"idle", "running", "composing", "sending", "waiting", "over"}]
    BY <1>2 DEF TypeOK
  <2>4. registered' \subseteq {h \in Gate : card'[h] # None}
    BY <1>2, <1>5, <1>6 DEF TypeOK
  <2>5. ASSUME NEW u \in Turn, pc'[u] \in {"sending", "waiting"}
        PROVE  asks'[u] # None /\ card'[asks'[u]] # None /\ card'[asks'[u]].turn = u
    <3>1. CASE u = t
      BY <1>2, <1>4, <1>5, <3>1 DEF TypeOK, GateAssumption
    <3>2. CASE u # t
      <4>1. pc[u] \in {"sending", "waiting"} /\ asks'[u] = asks[u]
        BY <1>2, <2>5, <3>2 DEF TypeOK
      <4>2. asks[u] \in Gate /\ asks[u] # None /\ card[asks[u]] # None /\ card[asks[u]].turn = u
        BY <4>1 DEF TypeOK
      <4>3. asks[u] # g
        BY <1>2, <4>2
      <4> QED
        BY <1>6, <4>1, <4>2, <4>3
    <3> QED
      BY <3>1, <3>2
  <2> QED
    BY <2>1, <2>2, <2>3, <2>4, <2>5 DEF TypeOK
<1>8. ~Went(g)
  BY <1>2 DEF PassedGranted, Went, GateAssumption
<1>9. AnswersSaid'
  BY <1>2, <1>3, <1>6 DEF AnswersSaid, TypeOK, Pending, Decisions
<1>10. MemoryGranted'
  <2> SUFFICES ASSUME NEW k \in Key, memory'[k] # None
               PROVE  (OwnerGranted(memory[k]) /\ Went(memory[k]))'
    BY <1>2 DEF MemoryGranted
  <2>1. memory[k] \in Gate /\ OwnerGranted(memory[k]) /\ Went(memory[k])
    BY <1>2 DEF MemoryGranted, TypeOK
  <2>2. memory[k] # g
    BY <1>2, <2>1 DEF OwnerGranted
  <2> QED
    BY <1>2, <1>6, <2>1, <2>2 DEF OwnerGranted, Went
<1>11. PassedGranted'
  BY <1>2, <1>6 DEF PassedGranted, OwnerGranted, TypeOK
<1>12. AskedIsNew'
  BY <1>2, <1>8 DEF AskedIsNew, Asking, Went, TypeOK
<1>13. AskedReachable'
  <2> SUFFICES ASSUME NEW u \in Turn, Asking(u)'
               PROVE  fut'[asks'[u]] = Pending <=> asks'[u] \in registered'
    BY DEF AskedReachable
  <2>1. CASE u = t
    BY <1>2, <1>3, <2>1 DEF TypeOK
  <2>2. CASE u # t
    <3>1. Asking(u) /\ asks'[u] = asks[u] /\ asks[u] \in Gate /\ asks[u] # g
      BY <1>2, <2>2 DEF Asking, TypeOK, GateAssumption
    <3> QED
      BY <1>2, <1>6, <3>1 DEF AskedReachable
  <2> QED
    BY <2>1, <2>2
<1>14. MemoryFresh' /\ BeforePassed' /\ FreshApproval'
  BY <1>2 DEF MemoryFresh, BeforePassed, FreshApproval, Went, TypeOK
<1> QED
  BY <1>7, <1>9, <1>10, <1>11, <1>12, <1>13, <1>14

LEMMA GateAsks ==
    ASSUME GateAssumption, GateInv, NEW t \in Turn, NEW g \in Gate,
           AskToSolve(t, g) \/ \E kind \in Kinds : Ask(t, g, kind)
    PROVE  GateInv'
<1>1. CASE AskToSolve(t, g)
  <2>1. wants[t] \in Key \cup {None} /\ "solver" \in Kinds /\ pc[t] = "composing"
    BY <1>1 DEF AskToSolve, GateInv, TypeOK, Kinds
  <2>2. /\ wants' \in [Turn -> Key \cup {None}]
        /\ \A u \in Turn : pc'[u] = "composing" => wants'[u] # None
    BY <1>1 DEF AskToSolve, Opens, GateInv, TypeOK
  <2> QED
    BY <1>1, <2>1, <2>2, GateOpens DEF AskToSolve
<1>2. ASSUME NEW kind \in Kinds, Ask(t, g, kind) PROVE GateInv'
  <2>1. /\ wants' \in [Turn -> Key \cup {None}]
        /\ \A u \in Turn : pc'[u] = "composing" => wants'[u] # None
    BY <1>2 DEF Ask, Opens, GateInv, TypeOK
  <2> QED
    BY <1>2, <2>1, GateOpens DEF Ask
<1> QED
  BY <1>1, <1>2

LEMMA GateRemembers ==
    ASSUME GateAssumption, GateInv, NEW t \in Turn, NEW key \in Key, FromMemory(t, key)
    PROVE  GateInv'
<1> DEFINE g == memory[key]
           call == [turn |-> t, gate |-> g]
<1> USE DEF GateInv
<1>1. /\ passed' = passed \cup {call} /\ g # None /\ g \in Gate
      /\ pc[t] = "running"
      /\ UNCHANGED <<lane, pc, wants, asks, card, fut, registered, memory, said, before>>
  BY DEF FromMemory, TypeOK
<1>2. call.turn = t /\ call.gate = g /\ call \in [turn : Turn, gate : Gate \cup {None}]
  BY <1>1
<1>3. OwnerGranted(g) /\ Went(g) /\ \A u \in Turn : g \notin before[u]
  BY <1>1 DEF MemoryGranted, MemoryFresh
<1> HIDE DEF call
<1>4. TypeOK'
  BY <1>1, <1>2 DEF TypeOK
<1>5. PassedGranted' /\ FreshApproval'
  BY <1>1, <1>2, <1>3 DEF PassedGranted, FreshApproval, OwnerGranted
<1>6. \A h : Went(h)' <=> Went(h)
  BY <1>1, <1>2, <1>3 DEF Went
<1>7. AnswersSaid' /\ MemoryFresh' /\ AskedReachable'
  BY <1>1 DEF AnswersSaid, MemoryFresh, AskedReachable, Asking
<1>8. MemoryGranted'
  BY <1>1, <1>6 DEF MemoryGranted, OwnerGranted
<1>9. AskedIsNew'
  BY <1>1, <1>6 DEF AskedIsNew, Asking
<1>10. BeforePassed'
  BY <1>1, <1>2, <1>6 DEF BeforePassed
<1> QED
  BY <1>4, <1>5, <1>7, <1>8, <1>9, <1>10

LEMMA CardSent ==
    ASSUME GateAssumption, GateInv, NEW t \in Turn, Sent(t)
    PROVE  GateInv'
<1> DEFINE g == asks[t]
<1> USE DEF GateInv
<1>1. PICK shown \in BOOLEAN : card' = [card EXCEPT ![g].shown = shown]
  BY DEF Sent
<1>2. /\ pc' = [pc EXCEPT ![t] = "waiting"] /\ pc[t] = "sending"
      /\ UNCHANGED <<lane, wants, asks, fut, registered, memory, said, passed, before>>
  BY DEF Sent
<1>3. g \in Gate /\ card[g] \in Cards
  BY <1>2 DEF TypeOK
<1>4. /\ card'[g] \in Cards /\ card'[g].turn = card[g].turn
      /\ card'[g].kind = card[g].kind /\ card'[g].grants = card[g].grants
      /\ card' \in [Gate -> Cards \cup {None}]
  BY <1>1, <1>3 DEF TypeOK, Cards
<1>5. \A h \in Gate : h # g => card'[h] = card[h]
  BY <1>1 DEF TypeOK
<1>6. card[g] # None /\ card'[g] # None
  BY <1>3, <1>4 DEF GateAssumption
<1>7. \A h \in Gate : /\ card'[h] # None <=> card[h] # None
                      /\ card'[h].turn = card[h].turn
                      /\ card'[h].kind = card[h].kind /\ card'[h].grants = card[h].grants
  BY <1>4, <1>5, <1>6
<1>8. TypeOK'
  <2>1. pc' \in [Turn -> {"idle", "running", "composing", "sending", "waiting", "over"}]
        /\ \A u \in Turn : pc'[u] = "composing" => wants'[u] # None
    BY <1>2 DEF TypeOK
  <2>2. \A u \in Turn : pc'[u] \in {"sending", "waiting"}
           => asks'[u] # None /\ card'[asks'[u]] # None /\ card'[asks'[u]].turn = u
    BY <1>2, <1>7 DEF TypeOK
  <2>3. registered' \subseteq {h \in Gate : card'[h] # None}
    BY <1>2, <1>7 DEF TypeOK
  <2> QED
    BY <1>2, <1>4, <2>1, <2>2, <2>3 DEF TypeOK
<1>9. AnswersSaid' /\ MemoryFresh' /\ FreshApproval'
  BY <1>2 DEF AnswersSaid, MemoryFresh, FreshApproval
<1>10. \A h \in Gate : OwnerGranted(h)' <=> OwnerGranted(h)
  BY <1>2, <1>7 DEF OwnerGranted
<1>11. MemoryGranted' /\ PassedGranted'
  BY <1>2, <1>7, <1>10 DEF MemoryGranted, PassedGranted, Went, TypeOK
<1>12. AskedIsNew' /\ BeforePassed' /\ AskedReachable'
  BY <1>2 DEF AskedIsNew, BeforePassed, AskedReachable, Asking, Went, TypeOK
<1> QED
  BY <1>8, <1>9, <1>11, <1>12

-----------------------------------------------------------------------------
(* Leaving a gate                                                           *)

LEMMA GateLeft ==
    ASSUME GateAssumption, GateInv, NEW t \in Turn, NEW through \in BOOLEAN,
           NEW f \in Decisions \cup {None, Pending, "dropped", "invalid"},
           pc[t] = "waiting", Leaves(t, through),
           through => card[asks[t]].kind = "region" \/ OwnerGranted(asks[t]),
           fut' = [fut EXCEPT ![asks[t]] = f],
           f \in Decisions => fut[asks[t]] = f,
           \/ memory' = memory
           \/ through /\ OwnerGranted(asks[t]) /\ \E k \in Key : memory' = [memory EXCEPT ![k] = asks[t]],
           UNCHANGED <<lane, wants, card, said, before>>
    PROVE  GateInv'
<1> DEFINE g == asks[t]
           call == [turn |-> t, gate |-> g]
<1> USE DEF GateInv
<1>1. /\ registered' = registered \ {g}
      /\ passed' = IF through THEN passed \cup {call} ELSE passed
      /\ asks' = [asks EXCEPT ![t] = None]
      /\ pc' = [pc EXCEPT ![t] = "running"]
  BY DEF Leaves
<1>2. call.turn = t /\ call.gate = g /\ g \in Gate /\ g # None /\ card[g] # None /\ card[g].turn = t
  BY DEF TypeOK
<1>3. call \in [turn : Turn, gate : Gate \cup {None}]
  BY <1>2
<1>4. Asking(t) /\ ~Went(g) /\ \A u \in Turn : g \notin before[u]
  BY DEF AskedIsNew, Asking, BeforePassed
<1>5. \A u \in Turn : Asking(u)' => u # t /\ Asking(u) /\ asks'[u] = asks[u] /\ asks[u] # g /\ asks[u] \in Gate
  BY <1>1, <1>4, AskedApart DEF TypeOK, Asking
<1> HIDE DEF call
<1>6. \A h : /\ Went(h) => Went(h)'
             /\ Went(h)' => Went(h) \/ (h = g /\ through)
  BY <1>1, <1>2 DEF Went
<1>7. \A h : h = g /\ through => Went(h)'
  BY <1>1, <1>2 DEF Went
<1>8. \A k \in Key : memory'[k] = memory[k] \/ (memory'[k] = g /\ through /\ OwnerGranted(g))
  <2>1. CASE memory' = memory
    BY <2>1
  <2>2. ASSUME through, OwnerGranted(g), NEW k \in Key, memory' = [memory EXCEPT ![k] = g]
        PROVE  \A l \in Key : memory'[l] = memory[l] \/ memory'[l] = g
    BY <2>2 DEF TypeOK
  <2> QED
    BY <2>1, <2>2
<1>9. TypeOK'
  <2>1. passed' \subseteq [turn : Turn, gate : Gate \cup {None}]
    BY <1>1, <1>3 DEF TypeOK
  <2>2. memory' \in [Key -> Gate \cup {None}]
    BY <1>2 DEF TypeOK
  <2>3. /\ pc' \in [Turn -> {"idle", "running", "composing", "sending", "waiting", "over"}]
        /\ asks' \in [Turn -> Gate \cup {None}]
    BY <1>1 DEF TypeOK
  <2>6. fut' \in [Gate -> Decisions \cup {None, Pending, "dropped", "invalid"}]
    BY DEF TypeOK
  <2>7. registered' \subseteq {h \in Gate : card'[h] # None}
    BY <1>1 DEF TypeOK
  <2>4. \A u \in Turn : pc'[u] = "composing" => wants'[u] # None
    BY <1>1 DEF TypeOK
  <2>5. \A u \in Turn : pc'[u] \in {"sending", "waiting"}
           => asks'[u] # None /\ card'[asks'[u]] # None /\ card'[asks'[u]].turn = u
    BY <1>5 DEF TypeOK, Asking
  <2> QED
    BY <2>1, <2>2, <2>3, <2>4, <2>5, <2>6, <2>7 DEF TypeOK
<1>10. AnswersSaid'
  BY <1>2 DEF AnswersSaid, TypeOK
<1>11. \A h : OwnerGranted(h)' <=> OwnerGranted(h)
  BY DEF OwnerGranted
<1>12. MemoryGranted'
  <2> SUFFICES ASSUME NEW k \in Key, memory'[k] # None
               PROVE  OwnerGranted(memory[k])' /\ Went(memory[k])'
    BY DEF MemoryGranted
  <2>1. CASE memory'[k] = memory[k]
    BY <1>6, <2>1 DEF MemoryGranted, OwnerGranted, Went
  <2>2. CASE memory'[k] = g /\ through /\ OwnerGranted(g)
    BY <1>7, <2>2 DEF OwnerGranted, Went
  <2> QED
    BY <1>8, <2>1, <2>2
<1>13. PassedGranted'
  BY <1>1, <1>2, <1>11 DEF PassedGranted
<1>14. AskedIsNew'
  BY <1>5, <1>6 DEF AskedIsNew
<1>15. AskedReachable'
  <2> SUFFICES ASSUME NEW u \in Turn, Asking(u)'
               PROVE  fut'[asks'[u]] = Pending <=> asks'[u] \in registered'
    BY DEF AskedReachable
  <2>1. Asking(u) /\ asks'[u] = asks[u] /\ asks[u] # g /\ asks[u] \in Gate
    BY <1>5
  <2>2. fut'[asks[u]] = fut[asks[u]]
    BY <2>1 DEF TypeOK
  <2> QED
    BY <1>1, <2>1, <2>2 DEF AskedReachable
<1>16. MemoryFresh'
  BY <1>4, <1>8 DEF MemoryFresh
<1>17. FreshApproval'
  BY <1>1, <1>2, <1>4 DEF FreshApproval
<1>18. BeforePassed'
  <2>1. \A u \in Turn : \A h \in before'[u] : Went(h)'
    BY <1>6 DEF BeforePassed
  <2>2. \A u \in Turn : pc'[u] = "idle" => \A p \in passed' : p.turn # u
    BY <1>1, <1>2 DEF BeforePassed, TypeOK
  <2> QED
    BY <2>1, <2>2 DEF BeforePassed
<1> QED
  BY <1>9, <1>10, <1>12, <1>13, <1>14, <1>15, <1>16, <1>17, <1>18

LEMMA GateTimesOut ==
    ASSUME GateAssumption, GateInv, NEW t \in Turn, TimesOut(t)
    PROVE  GateInv'
<1> DEFINE f == IF fut[asks[t]] = Pending THEN "dropped" ELSE fut[asks[t]]
<1>1. /\ pc[t] = "waiting" /\ Leaves(t, AfterTimeout(asks[t]))
      /\ fut' = [fut EXCEPT ![asks[t]] = f]
      /\ UNCHANGED <<lane, wants, card, memory, said, before>>
  BY DEF TimesOut
<1>2. AfterTimeout(asks[t]) \in BOOLEAN /\ (AfterTimeout(asks[t]) => card[asks[t]].kind = "region")
  BY DEF AfterTimeout
<1>3. /\ f \in Decisions \cup {None, Pending, "dropped", "invalid"}
      /\ f \in Decisions => fut[asks[t]] = f
  BY <1>1 DEF GateInv, TypeOK, Decisions
<1> HIDE DEF f
<1> QED
  BY <1>1, <1>2, <1>3, GateLeft

LEMMA GateResumes ==
    ASSUME GateAssumption, GateInv, NEW t \in Turn, Resume(t)
    PROVE  GateInv'
<1> DEFINE g == asks[t]
<1>1. /\ pc[t] = "waiting" /\ fut[g] \notin {Pending, "dropped"} /\ Leaves(t, Granted(g))
      /\ memory' = IF card[g].kind = "solver" /\ Granted(g)
                   THEN [memory EXCEPT ![card[g].key] = g] ELSE memory
      /\ UNCHANGED <<lane, wants, card, fut, said, before>>
  BY DEF Resume
<1>2. g \in Gate /\ card[g] # None /\ card[g] \in Cards /\ card[g].key \in Key \cup {None}
      /\ card[g].grants \subseteq Decisions
  BY <1>1 DEF GateInv, TypeOK, Cards
<1>3. Granted(g) => OwnerGranted(g)
  BY <1>2 DEF Granted, OwnerGranted, GateInv, AnswersSaid
<1>4. \/ memory' = memory
      \/ Granted(g) /\ OwnerGranted(g) /\ \E k \in Key : memory' = [memory EXCEPT ![k] = g]
  <2>1. CASE card[g].kind = "solver" /\ Granted(g) /\ card[g].key \in Key
    BY <1>1, <1>3, <2>1
  <2>2. CASE card[g].key = None
    BY <1>1, <2>2 DEF GateInv, TypeOK, GateAssumption
  <2> QED
    BY <1>1, <1>2, <2>1, <2>2
<1>5. fut' = [fut EXCEPT ![g] = fut[g]] /\ fut[g] \in Decisions \cup {None, Pending, "dropped", "invalid"}
  BY <1>1, <1>2 DEF GateInv, TypeOK
<1> DEFINE through == Granted(g)
           f == fut[g]
<1>6. through \in BOOLEAN /\ (f \in Decisions => fut[asks[t]] = f)
  BY DEF Granted
<1>7. /\ pc[t] = "waiting" /\ Leaves(t, through) /\ (through => OwnerGranted(asks[t]))
      /\ fut' = [fut EXCEPT ![asks[t]] = f]
      /\ f \in Decisions \cup {None, Pending, "dropped", "invalid"}
      /\ UNCHANGED <<lane, wants, card, said, before>>
  BY <1>1, <1>3, <1>5
<1>8. \/ memory' = memory
      \/ through /\ OwnerGranted(asks[t]) /\ \E k \in Key : memory' = [memory EXCEPT ![k] = asks[t]]
  BY <1>4
<1> HIDE DEF through, f, g
<1> QED
  BY <1>6, <1>7, <1>8, GateLeft

LEMMA GateCancelled ==
    ASSUME GateAssumption, GateInv, NEW t \in Turn, CancelledSending(t) \/ CancelledWaiting(t)
    PROVE  GateInv'
<1> DEFINE g == asks[t]
<1> USE DEF GateInv
<1>1. /\ pc' = [pc EXCEPT ![t] = "over"] /\ Asking(t)
      /\ UNCHANGED <<lane, wants, asks, card, memory, said, passed, before>>
      /\ registered' \subseteq registered /\ \A h : h # g => (h \in registered' <=> h \in registered)
      /\ fut' = fut \/ fut' = [fut EXCEPT ![g] = IF @ = Pending THEN "dropped" ELSE @]
  BY DEF CancelledSending, CancelledWaiting, Asking
<1>2. fut' \in [Gate -> Decisions \cup {None, Pending, "dropped", "invalid"}]
      /\ \A h \in Gate : /\ fut'[h] \in Decisions => fut[h] = fut'[h]
                         /\ h # g => fut'[h] = fut[h]
  BY <1>1 DEF TypeOK, Decisions
<1>3. TypeOK'
  BY <1>1, <1>2 DEF TypeOK
<1>4. AnswersSaid'
  BY <1>1, <1>2 DEF AnswersSaid
<1>5. MemoryGranted' /\ PassedGranted' /\ MemoryFresh' /\ FreshApproval'
  BY <1>1 DEF MemoryGranted, PassedGranted, MemoryFresh, FreshApproval, OwnerGranted, Went
<1>6. \A u \in Turn : Asking(u)' => Asking(u) /\ asks[u] \in Gate /\ asks[u] # g
  BY <1>1, AskedApart DEF Asking, TypeOK
<1>7. AskedIsNew' /\ AskedReachable' /\ BeforePassed'
  <2>1. AskedIsNew'
    BY <1>1, <1>6 DEF AskedIsNew, Went
  <2>2. AskedReachable'
    BY <1>1, <1>2, <1>6 DEF AskedReachable
  <2>3. BeforePassed'
    BY <1>1 DEF BeforePassed, Went, TypeOK
  <2> QED
    BY <2>1, <2>2, <2>3
<1> QED
  BY <1>3, <1>4, <1>5, <1>7

-----------------------------------------------------------------------------
(* Answers                                                                  *)

LEMMA GateAnswered ==
    ASSUME GateAssumption, GateInv, NEW g \in Gate,
           (\E s \in {Owner, Stranger}, d \in Decisions : Answer(s, g, d)) \/ Malformed(g)
    PROVE  GateInv'
<1> USE DEF GateInv
<1>1. /\ g \in registered /\ card[g] # None
      /\ UNCHANGED <<lane, pc, wants, asks, card, memory, passed, before>>
  BY DEF Answer, Malformed
<1>2. PICK a \in Decisions \cup {"invalid"}, own \in BOOLEAN :
         /\ registered' = IF own THEN registered \ {g} ELSE registered
         /\ fut' = [fut EXCEPT ![g] = IF own /\ @ = Pending THEN a ELSE @]
         /\ said' = [said EXCEPT ![g] = IF own THEN @ \cup {a} ELSE @]
  <2>1. CASE Malformed(g)
    BY <2>1 DEF Malformed
  <2>2. ASSUME NEW s \in {Owner, Stranger}, NEW d \in Decisions, Answer(s, g, d)
        PROVE  /\ registered' = IF s = Owner THEN registered \ {g} ELSE registered
               /\ fut' = [fut EXCEPT ![g] = IF s = Owner /\ @ = Pending THEN d ELSE @]
               /\ said' = [said EXCEPT ![g] = IF s = Owner THEN @ \cup {d} ELSE @]
    BY <2>2 DEF Answer, PoppedBy, Owns
  <2> QED
    BY <2>1, <2>2
<1>3. \A h \in Gate : h # g => fut'[h] = fut[h] /\ said'[h] = said[h]
  BY <1>2 DEF TypeOK
<1>4. /\ fut'[g] = (IF own /\ fut[g] = Pending THEN a ELSE fut[g])
      /\ said'[g] = IF own THEN said[g] \cup {a} ELSE said[g]
  BY <1>2 DEF TypeOK
<1>5. TypeOK'
  <2>1. /\ fut' \in [Gate -> Decisions \cup {None, Pending, "dropped", "invalid"}]
        /\ said' \in [Gate -> SUBSET (Decisions \cup {"invalid"})]
    BY <1>2 DEF TypeOK
  <2> QED
    BY <1>1, <1>2, <2>1 DEF TypeOK
<1>6. AnswersSaid'
  BY <1>3, <1>4 DEF AnswersSaid, TypeOK
<1>7. \A h \in Gate : OwnerGranted(h) => OwnerGranted(h)'
  BY <1>1, <1>3, <1>4 DEF OwnerGranted
<1>8. MemoryGranted' /\ PassedGranted'
  BY <1>1, <1>7 DEF MemoryGranted, PassedGranted, Went, TypeOK
<1>9. AskedIsNew' /\ BeforePassed' /\ MemoryFresh' /\ FreshApproval'
  BY <1>1 DEF AskedIsNew, BeforePassed, MemoryFresh, FreshApproval, Asking, Went
<1>10. AskedReachable'
  <2> SUFFICES ASSUME NEW u \in Turn, Asking(u)'
               PROVE  fut'[asks[u]] = Pending <=> asks[u] \in registered'
    BY <1>1 DEF AskedReachable
  <2>1. Asking(u) /\ asks[u] \in Gate /\ (fut[asks[u]] = Pending <=> asks[u] \in registered)
    BY <1>1 DEF AskedReachable, Asking, TypeOK, GateAssumption
  <2>2. CASE asks[u] # g
    BY <1>2, <1>3, <2>1, <2>2
  <2>3. CASE asks[u] = g /\ own
    <3>1. fut[g] = Pending
      BY <1>1, <2>1, <2>3
    <3>2. fut'[g] = a /\ a # Pending
      BY <1>4, <2>3, <3>1 DEF Decisions, Pending
    <3> QED
      BY <1>2, <2>3, <3>2
  <2>4. CASE ~own
    BY <1>2, <1>4, <1>3, <2>1, <2>4
  <2> QED
    BY <2>2, <2>3, <2>4
<1> QED
  BY <1>5, <1>6, <1>8, <1>9, <1>10

-----------------------------------------------------------------------------
LEMMA GateStep == GateAssumption /\ GateInv /\ [Next]_vars => GateInv'
<1> SUFFICES ASSUME GateAssumption, GateInv, [Next]_vars PROVE GateInv'
  OBVIOUS
<1>1. ASSUME NEW t \in Turn, StartTurn(t) PROVE GateInv'
  BY <1>1, TurnStarts
<1>2. ASSUME NEW t \in Turn, (\E key \in Key : Compose(t, key)) \/ NoCard(t) \/ NoWarning(t) \/ Finish(t)
      PROVE  GateInv'
  BY <1>2, TurnMoves
<1>3. ASSUME NEW t \in Turn, NEW g \in Gate, AskToSolve(t, g) \/ \E kind \in Kinds : Ask(t, g, kind)
      PROVE  GateInv'
  BY <1>3, GateAsks
<1>4. ASSUME NEW t \in Turn, NEW key \in Key, FromMemory(t, key) PROVE GateInv'
  BY <1>4, GateRemembers
<1>5. ASSUME NEW t \in Turn, Sent(t) PROVE GateInv'
  BY <1>5, CardSent
<1>6. ASSUME NEW t \in Turn, Resume(t) \/ TimesOut(t) PROVE GateInv'
  BY <1>6, GateResumes, GateTimesOut
<1>7. ASSUME NEW t \in Turn, CancelledSending(t) \/ CancelledWaiting(t) PROVE GateInv'
  BY <1>7, GateCancelled
<1>8. ASSUME NEW g \in Gate,
             (\E s \in {Owner, Stranger}, d \in Decisions : Answer(s, g, d)) \/ Malformed(g)
      PROVE  GateInv'
  BY <1>8, GateAnswered
<1>9. CASE UNCHANGED vars
  BY <1>9 DEF vars, GateInv, TypeOK, AnswersSaid, MemoryGranted, PassedGranted, AskedIsNew,
    BeforePassed, MemoryFresh, FreshApproval, AskedReachable, Asking, OwnerGranted, Went
<1> QED
  BY <1>1, <1>2, <1>3, <1>4, <1>5, <1>6, <1>7, <1>8, <1>9 DEF Next

LEMMA GateAlways == ASSUME GateAssumption PROVE Spec => []GateInv
<1>1. Init => GateInv
  BY GateInit
<1>2. GateInv /\ [Next]_vars => GateInv'
  BY GateStep
<1> QED
  BY <1>1, <1>2, PTL DEF Spec

\* The gates' state has its types, and a turn that waits has a question of its own
\* open: server.py's gates keep the future and its entry together.
THEOREM GatesTyped == ASSUME GateAssumption PROVE Spec => []TypeOK
<1>1. GateInv => TypeOK
  BY DEF GateInv
<1> QED
  BY <1>1, GateAlways, PTL

\* No call goes through a question, at once or by the memory, but by a decision that
\* its owner's session gave and its card offered: _resolve_pending_* compares the
\* session, a timeout refuses, and what went unasked is not remembered.
THEOREM GatesAreClosed == ASSUME GateAssumption PROVE Spec => []AskedFailsClosed
<1>1. GateInv => AskedFailsClosed
  BY DEF GateInv, PassedGranted, MemoryGranted, OwnerGranted, AskedFailsClosed, Allowed
<1> QED
  BY <1>1, GateAlways, PTL

\* The memory of decisions never lets a call of a later turn through by what was
\* acted on before that turn: _stream_gemini_reply clears it before any call.
THEOREM ApprovalsAreFresh == ASSUME GateAssumption PROVE Spec => []FreshApproval
<1>1. GateInv => FreshApproval
  BY DEF GateInv
<1> QED
  BY <1>1, GateAlways, PTL

\* A turn that waits unanswered is always in the registry, where its owner's
\* answer finds it.
THEOREM WaitersAreReachable == ASSUME GateAssumption PROVE Spec => []WaiterIsReachable
<1>1. GateInv => WaiterIsReachable
  BY DEF GateInv, AskedReachable, WaiterIsReachable, Asking
<1> QED
  BY <1>1, GateAlways, PTL
=============================================================================
