---------------------- MODULE MatchableResourcesProofs ----------------------
(***************************************************************************)
(* Proofs about MatchableResources, whose steps are interleaved with those *)
(* of the modules that extend it: what holds at the start, what each step  *)
(* keeps, and what the lookups then return.                                *)
(***************************************************************************)
EXTENDS MatchableResources, WellFoundedInduction, TLAPS

-----------------------------------------------------------------------------
(* The overrides: the inductive invariant.                                 *)

\* Rows have the attributes of their own type, or none yet; so has the model
\* an update is to write.
TableRow == [id : Nat, workflow : Levels, type : Types, attributes : Attributes \cup {Empty}]
ToWrite == [workflow : Levels, type : Types, attributes : Attributes]
RowTyped(r) == r \in TableRow /\ (r.attributes # Empty => r.attributes.type = r.type)
ModelTyped(m) == m \in ToWrite /\ m.attributes.type = m.type

Stages == {"getRaw", "firstOrCreate", "create", "save"}
UpdateShape(u) == DOMAIN u = {"pc", "key", "asked", "model", "record"}
UpdateTyped(u) ==
    /\ UpdateShape(u)
    /\ u.pc \in Stages /\ u.key \in Keys
    /\ u.asked \in Attributes /\ u.asked.type = u.key.type
    /\ ModelTyped(u.model) /\ u.model.type = u.key.type
    /\ u.pc = "getRaw" => u.key.type = "PLUGIN_OVERRIDE"
    /\ u.pc = "save" => RowTyped(u.record)

\* What is left of the workload.
IsLeft(left, w) ==
    /\ DOMAIN left = DOMAIN w
    /\ left.updates \subseteq w.updates /\ left.deletes \subseteq w.deletes
    /\ \A f \in DOMAIN w \ {"updates", "deletes"} : left[f] = w[f]

RowsTyped == (\A r \in rows : RowTyped(r)) /\ lastId \in Nat
HandlersTyped ==
    /\ handler = [h \in Handlers |-> handler[h]]
    /\ \A h \in Handlers : handler[h] = Idle \/ UpdateTyped(handler[h])
WantTyped ==
    /\ want \in [Keys -> Attributes \cup {None}]
    /\ \A k \in Keys : want[k] # None => want[k].type = k.type
WorkloadTyped == \E w \in Workloads : IsLeft(workload, w)

\* Ids are the sequence's, and stand for one row of one key; a row that an
\* update has found or inserted may have been deleted since.
UniqueIds ==
    /\ \A r \in rows : r.id <= lastId
    /\ \A r, s \in rows : r.id = s.id => r = s
SameRow(r, s) == r.id = s.id => KeyOf(r) = KeyOf(s)
RecordId(u, table, last) ==
    u.pc = "save" => u.record.id <= last /\ \A r \in table : SameRow(r, u.record)
RecordIds ==
    /\ \A h \in Handlers : RecordId(handler[h], rows, lastId)
    /\ \A g, h \in Handlers :
          handler[g].pc = "save" /\ handler[h].pc = "save" => SameRow(handler[g].record, handler[h].record)

\* An update writes to its own key's row, unless both keys are spoiled.
OwnRow(u, bad) ==
    /\ KeyOf(u.model) = u.key \/ (KeyOf(u.model) \in bad /\ u.key \in bad)
    /\ u.pc = "getRaw" => KeyOf(u.model) = u.key
    /\ u.pc = "save" => KeyOf(u.record) = KeyOf(u.model)
OwnRows == \A h \in Handlers : handler[h] # Idle => OwnRow(handler[h], spoiled)

\* The rows of a key hold what was acknowledged for it.
RowsOf(table, k) == {r \in table : KeyOf(r) = k}
Holds(own, wanted) == IF wanted = None THEN own = {} ELSE \E r \in own : r.attributes = wanted

\* How far the one update of a key has come.
Progress(u, own, wanted) ==
    /\ u.pc # "save" => Holds(own, wanted)
    /\ u.pc = "getRaw" => u.model.attributes = u.asked
    /\ u.pc # "getRaw" => u.model.attributes = Merged(wanted, u.asked)
    /\ u.pc = "create" => wanted = None
    /\ u.pc = "save" => /\ u.record \in own
                        /\ u.record.attributes = IF wanted = None THEN Empty ELSE wanted

\* The rows and the updates of a key whose requests did not overlap.
Busy(u, k) == u.pc # "idle" /\ u.key = k
OneRow(own) == \A r, s \in own : r = s
OneUpdate(k, updates) == \A g, h \in Handlers : Busy(updates[g], k) /\ Busy(updates[h], k) => g = h
Served(k, own, wanted, updates) ==
    /\ OneRow(own) /\ OneUpdate(k, updates)
    /\ (\A h \in Handlers : ~Busy(updates[h], k)) => Holds(own, wanted)
    /\ \A h \in Handlers : Busy(updates[h], k) => Progress(updates[h], own, wanted)
AllServed == \A k \in Keys : k \notin spoiled => Served(k, RowsOf(rows, k), want[k], handler)

ResourceTypeOK == RowsTyped /\ HandlersTyped /\ WantTyped /\ WorkloadTyped
ResourceInv == ResourceTypeOK /\ UniqueIds /\ RecordIds /\ OwnRows /\ AllServed

-----------------------------------------------------------------------------
(* Attributes and rows.                                                    *)

\* A set of naturals that is not empty has a least element.
LEMMA Least ==
    ASSUME NEW S, S \subseteq Nat, S # {}
    PROVE  \E n \in S : \A m \in S : n <= m
<1>. DEFINE R == OpToRel(<, Nat)
<1>1. IsWellFoundedOn(R, Nat)
  BY NatLessThanWellFounded, Zenon
<1>2. PICK n \in S : \A m \in S : <<m, n>> \notin R
  BY <1>1, WFMin, Zenon
<1>3. \A m \in S : ~(m < n)
  BY <1>2, Zenon DEF OpToRel
<1>. QED  BY <1>3

\* gorm's First returns one of the rows that match.
LEMMA FirstMatches ==
    ASSUME NEW matching, matching # {}, \A r \in matching : r.id \in Nat
    PROVE  First(matching) \in matching
<1>. DEFINE ids == {r.id : r \in matching}
<1>1. ids \subseteq Nat /\ ids # {}
  OBVIOUS
<1>2. PICK n \in ids : \A m \in ids : n <= m
  BY <1>1, Least, Zenon
<1>3. PICK r \in matching : r.id = n
  BY <1>2
<1>4. \A q \in matching : r.id <= q.id
  BY <1>2, <1>3
<1>. QED  BY <1>3, <1>4, Zenon DEF First

LEMMA FirstOfOne ==
    ASSUME NEW r, r.id \in Nat
    PROVE  First({r}) = r
  BY FirstMatches

\* Attributes are told from None and from those of an unsaved row.
LEMMA AttributesFacts ==
    ASSUME NEW a \in Attributes
    PROVE  /\ a # None /\ a # Empty /\ a.type \in Types
           /\ a.type = "PLUGIN_OVERRIDE" => a \in PluginOverrides
<1>1. a.type \in Types
  BY DEF Attributes, PluginOverrides, Types
<1>2. a.type = "PLUGIN_OVERRIDE" => a \in PluginOverrides
  BY RequestedAssumption, Zenon DEF Attributes
<1>3. a # None /\ None \notin Types
  BY NoneAssumption, Zenon
<1>4. a # Empty
  BY <1>1, <1>3 DEF Empty
<1>. QED  BY <1>1, <1>2, <1>3, <1>4, Zenon

\* Overrides that are merged by task type are overrides.
LEMMA MergeIsOverride ==
    ASSUME NEW a \in PluginOverrides, NEW b \in PluginOverrides
    PROVE  /\ [b EXCEPT !.value = Over(b.value, a.value)] \in Attributes
           /\ [b EXCEPT !.value = Over(b.value, a.value)].type = "PLUGIN_OVERRIDE"
<1>1. PICK s \in SUBSET TaskTypes : a.value \in [s -> Plugins]
  BY DEF PluginOverrides
<1>2. PICK t \in SUBSET TaskTypes : b.value \in [t -> Plugins]
  BY DEF PluginOverrides
<1>3. Over(b.value, a.value) \in [s \cup t -> Plugins]
  BY <1>1, <1>2 DEF Over
<1>4. s \cup t \in SUBSET TaskTypes
  OBVIOUS
<1>5. [b EXCEPT !.value = Over(b.value, a.value)] \in PluginOverrides
  BY <1>3, <1>4 DEF PluginOverrides
<1>. QED  BY <1>5 DEF Attributes, PluginOverrides

\* What an update is to leave, and what the manager merges, are attributes of
\* the same type.
LEMMA MergedTyped ==
    ASSUME NEW new \in Attributes, NEW existing \in Attributes \cup {None},
           existing # None => existing.type = new.type
    PROVE  Merged(existing, new) \in Attributes /\ Merged(existing, new).type = new.type
<1>1. CASE existing = None \/ new.type # "PLUGIN_OVERRIDE"
  BY <1>1 DEF Merged
<1>2. CASE ~(existing = None \/ new.type # "PLUGIN_OVERRIDE")
  <2>1. existing \in PluginOverrides /\ new \in PluginOverrides
    BY <1>2, AttributesFacts
  <2>2. Merged(existing, new) = [new EXCEPT !.value = Over(new.value, existing.value)]
    BY <1>2 DEF Merged, Over
  <2>. QED  BY <1>2, <2>1, <2>2, MergeIsOverride, Zenon
<1>. QED  BY <1>1, <1>2, Zenon

LEMMA MergeUpdateTyped ==
    ASSUME NEW new \in Attributes, NEW existing \in Attributes \cup {Empty},
           new.type = "PLUGIN_OVERRIDE", existing # Empty => existing.type = "PLUGIN_OVERRIDE"
    PROVE  /\ mergeUpdatePluginOverrides(existing, new) \in Attributes
           /\ mergeUpdatePluginOverrides(existing, new).type = "PLUGIN_OVERRIDE"
           /\ existing # Empty => mergeUpdatePluginOverrides(existing, new) = Merged(existing, new)
<1>1. CASE existing = Empty
  BY <1>1 DEF mergeUpdatePluginOverrides
<1>2. CASE existing # Empty
  <2>1. existing \in PluginOverrides /\ new \in PluginOverrides /\ existing # None
    BY <1>2, AttributesFacts
  <2>2. mergeUpdatePluginOverrides(existing, new) = [new EXCEPT !.value = Over(new.value, existing.value)]
    BY <1>2, <2>1, Zenon DEF mergeUpdatePluginOverrides
  <2>3. mergeUpdatePluginOverrides(existing, new) = Merged(existing, new)
    BY <2>1, <2>2 DEF Merged, Over
  <2>. QED  BY <1>2, <2>1, <2>2, <2>3, MergeIsOverride, Zenon
<1>. QED  BY <1>1, <1>2, Zenon

-----------------------------------------------------------------------------
(* The overrides: each step keeps the invariant.                           *)

\* One goroutine takes a step.
LEMMA HandlerStep ==
    ASSUME HandlersTyped, NEW h \in Handlers, NEW u, handler' = [handler EXCEPT ![h] = u]
    PROVE  /\ handler'[h] = u
           /\ \A g \in Handlers : g # h => handler'[g] = handler[g]
           /\ handler' = [g \in Handlers |-> handler'[g]]
  BY DEF HandlersTyped

\* An update that is served is not idle.
LEMMA BusyIsTyped ==
    ASSUME HandlersTyped, NEW h \in Handlers, handler[h] # Idle \/ handler[h].pc # "idle"
    PROVE  UpdateTyped(handler[h]) /\ handler[h].pc # "idle" /\ handler[h] # Idle
<1>1. Idle.pc = "idle"
  BY DEF Idle
<1>2. UpdateTyped(handler[h])
  BY <1>1 DEF HandlersTyped
<1>3. handler[h].pc \in Stages
  BY <1>2 DEF UpdateTyped
<1>. QED  BY <1>1, <1>2, <1>3 DEF Stages

\* A key keeps being served when its rows, what was acknowledged for it and
\* its updates stay.
LEMMA ServedFrame ==
    ASSUME NEW k, NEW own, NEW wanted, NEW f, NEW g, Served(k, own, wanted, f),
           \A h \in Handlers : Busy(f[h], k) \/ Busy(g[h], k) => f[h] = g[h]
    PROVE  Served(k, own, wanted, g)
<1>1. \A h \in Handlers : Busy(f[h], k) <=> Busy(g[h], k)
  BY Zenon
<1>2. OneRow(own) /\ OneUpdate(k, g)
  BY <1>1, Zenon DEF Served, OneUpdate
<1>3. (\A h \in Handlers : ~Busy(g[h], k)) => Holds(own, wanted)
  BY <1>1, Zenon DEF Served
<1>4. \A h \in Handlers : Busy(g[h], k) => Progress(g[h], own, wanted)
  BY <1>1, Zenon DEF Served
<1>. QED  BY <1>2, <1>3, <1>4, Zenon DEF Served

\* So it does when another key's update takes a step.
LEMMA ServedByOther ==
    ASSUME HandlersTyped, NEW h \in Handlers, NEW u, handler' = [handler EXCEPT ![h] = u],
           NEW k, NEW own, NEW wanted, Served(k, own, wanted, handler),
           ~Busy(handler[h], k), ~Busy(u, k)
    PROVE  Served(k, own, wanted, handler')
<1>1. handler'[h] = u /\ \A g \in Handlers : g # h => handler'[g] = handler[g]
  BY HandlerStep, Zenon
<1>2. \A g \in Handlers : Busy(handler[g], k) \/ Busy(handler'[g], k) => handler[g] = handler'[g]
  BY <1>1, Zenon
<1>3. PICK f : f = handler'
  OBVIOUS
<1>. QED  BY <1>2, <1>3, ServedFrame, Zenon

\* And when its one update takes a step, it is what the update then shows.
LEMMA ServedByOwn ==
    ASSUME HandlersTyped, NEW h \in Handlers, NEW u, handler' = [handler EXCEPT ![h] = u],
           NEW k, OneUpdate(k, handler), Busy(handler[h], k),
           NEW own, NEW wanted, OneRow(own),
           Busy(u, k) => Progress(u, own, wanted),
           ~Busy(u, k) => Holds(own, wanted)
    PROVE  Served(k, own, wanted, handler')
<1>1. handler'[h] = u /\ \A g \in Handlers : g # h => handler'[g] = handler[g]
  BY HandlerStep, Zenon
<1>2. \A g \in Handlers : Busy(handler'[g], k) => g = h
  BY <1>1, Zenon DEF OneUpdate
<1>3. OneUpdate(k, handler')
  BY <1>2, Zenon DEF OneUpdate
<1>4. \A g \in Handlers : Busy(handler'[g], k) => Progress(handler'[g], own, wanted)
  BY <1>1, <1>2, Zenon
<1>5. (\A g \in Handlers : ~Busy(handler'[g], k)) => Holds(own, wanted)
  BY <1>1, Zenon
<1>. QED  BY <1>3, <1>4, <1>5, Zenon DEF Served

\* More keys are spoiled.
LEMMA OwnRowMonotone ==
    ASSUME NEW u, NEW bad, NEW more, OwnRow(u, bad), bad \subseteq more
    PROVE  OwnRow(u, more)
  BY Zenon DEF OwnRow

\* Requests are those of the workload, and each is served once.
LEMMA UpdateRequested ==
    ASSUME WorkloadTyped, NEW u \in workload.updates, u.attributes.type \in Types
    PROVE  u.attributes \in Attributes /\ u.workflow \in Levels
<1>1. PICK w \in Workloads : IsLeft(workload, w)
  BY Zenon DEF WorkloadTyped
<1>2. u \in w.updates
  BY <1>1, Zenon DEF IsLeft
<1>3. u.workflow \in Levels
  BY <1>2, WorkloadAssumption, Zenon
<1>4. u.attributes \in {r.attributes : r \in w.table} \cup {x.attributes : x \in w.updates}
  BY <1>2, Zenon
<1>5. u.attributes \in Requested
  BY <1>4, Zenon DEF Requested
<1>. QED  BY <1>3, <1>5, Zenon DEF Attributes

LEMMA DeleteRequested ==
    ASSUME WorkloadTyped, NEW d \in workload.deletes
    PROVE  d \in Keys
<1>1. PICK w \in Workloads : IsLeft(workload, w)
  BY Zenon DEF WorkloadTyped
<1>. QED  BY <1>1, WorkloadAssumption, Zenon DEF IsLeft

LEMMA RequestServed ==
    ASSUME WorkloadTyped, NEW x,
           \/ workload' = [workload EXCEPT !.updates = @ \ {x}]
           \/ workload' = [workload EXCEPT !.deletes = @ \ {x}]
    PROVE  WorkloadTyped'
<1>1. PICK w \in Workloads : IsLeft(workload, w)
  BY Zenon DEF WorkloadTyped
<1>2. {"updates", "deletes"} \subseteq DOMAIN workload
  BY <1>1, WorkloadAssumption DEF IsLeft
<1>3. IsLeft(workload', w)
  BY <1>1, <1>2 DEF IsLeft
<1>. QED  BY <1>3, Zenon DEF WorkloadTyped

LEMMA ServeKeeps ==
    ASSUME ResourceInv, NEW h \in Handlers, NEW u \in workload.updates, NEW m,
           ModelTyped(m), m.attributes = u.attributes, Serve(h, u, m)
    PROVE  ResourceInv'
<1>. DEFINE v == [pc |-> IF m.type = "PLUGIN_OVERRIDE" THEN "getRaw" ELSE "firstOrCreate",
                  key |-> KeyOf(m), asked |-> u.attributes, model |-> m, record |-> None]
<1>1. HandlersTyped /\ handler[h] = Idle /\ handler' = [handler EXCEPT ![h] = v]
  BY Zenon DEF ResourceInv, ResourceTypeOK, Serve
<1>2. /\ UpdateTyped(v) /\ v.key = KeyOf(m) /\ v.pc \in {"getRaw", "firstOrCreate"}
      /\ v.model = m /\ v.asked = m.attributes /\ m.type = KeyOf(m).type
      /\ v.pc = "getRaw" <=> m.type = "PLUGIN_OVERRIDE"
      /\ m.attributes.type = m.type
  BY DEF UpdateTyped, UpdateShape, ModelTyped, ToWrite, KeyOf, Key, Keys, Stages
<1>3. /\ handler'[h] = v /\ \A g \in Handlers : g # h => handler'[g] = handler[g]
      /\ handler' = [g \in Handlers |-> handler'[g]]
  BY <1>1, HandlerStep, Zenon
<1>4. UNCHANGED <<rows, lastId, want>> /\ spoiled \subseteq spoiled'
  BY Zenon DEF Serve, Spoil
<1>. HIDE DEF v
<1>5. ResourceTypeOK'
  <2>1. RowsTyped' /\ WantTyped'
    BY <1>4 DEF ResourceInv, ResourceTypeOK, RowsTyped, WantTyped
  <2>2. HandlersTyped'
    BY <1>1, <1>2, <1>3, Zenon DEF HandlersTyped
  <2>3. WorkloadTyped'
    BY RequestServed, Zenon DEF ResourceInv, ResourceTypeOK, Serve
  <2>. QED  BY <2>1, <2>2, <2>3, Zenon DEF ResourceTypeOK
<1>6. UniqueIds'
  BY <1>4, Zenon DEF ResourceInv, UniqueIds
<1>7. RecordIds'
  <2>1. v.pc # "save"
    BY <1>2
  <2>. QED  BY <1>3, <1>4, <2>1, Zenon DEF ResourceInv, RecordIds, RecordId
<1>8. OwnRows'
  <2>1. OwnRow(v, spoiled')
    BY <1>2 DEF OwnRow
  <2>2. \A g \in Handlers : g # h /\ handler[g] # Idle => OwnRow(handler[g], spoiled')
    BY <1>4, OwnRowMonotone, Zenon DEF ResourceInv, OwnRows
  <2>. QED  BY <1>3, <2>1, <2>2, Zenon DEF OwnRows
<1>9. AllServed'
  <2>. SUFFICES ASSUME NEW k \in Keys, k \notin spoiled'
                PROVE  Served(k, RowsOf(rows, k), want[k], handler')
    BY <1>4, Zenon DEF AllServed
  <2>1. Served(k, RowsOf(rows, k), want[k], handler)
    BY <1>4, Zenon DEF ResourceInv, AllServed
  <2>2. ~Busy(handler[h], k)
    BY <1>1 DEF Busy, Idle
  <2>3. CASE k # KeyOf(m)
    BY <1>1, <1>2, <2>1, <2>2, <2>3, ServedByOther, Zenon DEF Busy
  <2>4. CASE k = KeyOf(m)
    <3>1. \A g \in Handlers : ~Busy(handler[g], k)
      BY <2>4, Zenon DEF Serve, Spoil, Updating, Busy
    <3>2. OneRow(RowsOf(rows, k)) /\ Holds(RowsOf(rows, k), want[k])
      BY <2>1, <3>1, Zenon DEF Served
    <3>3. Progress(v, RowsOf(rows, k), want[k])
      BY <1>2, <3>2 DEF Progress, Merged
    <3>4. \A g \in Handlers : Busy(handler'[g], k) => g = h
      BY <1>3, <3>1, Zenon
    <3>5. Busy(handler'[h], k)
      BY <1>2, <1>3, <2>4 DEF Busy
    <3>. QED  BY <1>3, <3>2, <3>3, <3>4, <3>5, Zenon DEF Served, OneUpdate
  <2>. QED  BY <2>3, <2>4, Zenon
<1>. QED  BY <1>5, <1>6, <1>7, <1>8, <1>9, Zenon DEF ResourceInv

\* An update goes on, with another model or with a record.
LEMMA TwoChanges ==
    ASSUME NEW f, NEW h \in DOMAIN f, NEW x, NEW y
    PROVE  [f EXCEPT ![h] = x][h] = x /\ [[f EXCEPT ![h] = x] EXCEPT ![h] = y] = [f EXCEPT ![h] = y]
  BY Zenon

GoesOn(v, u, pc, m, r) ==
    /\ UpdateShape(v) /\ v.pc = pc /\ v.key = u.key /\ v.asked = u.asked
    /\ v.model = m /\ v.record = r

LEMMA UpdateGoesOn ==
    ASSUME NEW u, UpdateShape(u), NEW pc, NEW v, v = [u EXCEPT !.pc = pc]
    PROVE  GoesOn(v, u, pc, u.model, u.record)
  BY DEF GoesOn, UpdateShape

LEMMA ModelGoesOn ==
    ASSUME NEW u, UpdateShape(u), NEW pc, NEW m, NEW v, v = [[u EXCEPT !.pc = pc] EXCEPT !.model = m]
    PROVE  GoesOn(v, u, pc, m, u.record)
  BY DEF GoesOn, UpdateShape

LEMMA RecordGoesOn ==
    ASSUME NEW u, UpdateShape(u), NEW pc, NEW r, NEW v, v = [[u EXCEPT !.pc = pc] EXCEPT !.record = r]
    PROVE  GoesOn(v, u, pc, u.model, r)
  BY DEF GoesOn, UpdateShape

LEMMA HandlerGoesOn ==
    ASSUME HandlersTyped, NEW h \in Handlers, NEW pc, NEW m, NEW r
    PROVE  /\ [handler EXCEPT ![h].pc = pc, ![h].model = m] =
                 [handler EXCEPT ![h] = [[handler[h] EXCEPT !.pc = pc] EXCEPT !.model = m]]
           /\ [handler EXCEPT ![h].pc = pc, ![h].record = r] =
                 [handler EXCEPT ![h] = [[handler[h] EXCEPT !.pc = pc] EXCEPT !.record = r]]
<1>1. h \in DOMAIN handler
  BY DEF HandlersTyped
<1>. PICK f : f = handler
  BY Zenon
<1>2. [f EXCEPT ![h].pc = pc, ![h].model = m] = [f EXCEPT ![h] = [[f[h] EXCEPT !.pc = pc] EXCEPT !.model = m]]
  BY <1>1, TwoChanges, Zenon
<1>3. [f EXCEPT ![h].pc = pc, ![h].record = r] = [f EXCEPT ![h] = [[f[h] EXCEPT !.pc = pc] EXCEPT !.record = r]]
  BY <1>1, TwoChanges, Zenon
<1>. QED  BY <1>2, <1>3, Zenon

\* An update that only reads keeps the invariant when what it goes on with is
\* right.
LEMMA ReadKeeps ==
    ASSUME ResourceInv, NEW h \in Handlers, NEW v, handler' = [handler EXCEPT ![h] = v],
           UNCHANGED <<rows, lastId, want, workload>>, spoiled \subseteq spoiled',
           UpdateTyped(handler[h]), UpdateTyped(v), v.key = handler[h].key,
           OwnRow(v, spoiled'), v.pc = "save" => v.record \in rows,
           v.key \notin spoiled' /\ Served(v.key, RowsOf(rows, v.key), want[v.key], handler) =>
               Progress(v, RowsOf(rows, v.key), want[v.key])
    PROVE  ResourceInv'
<1>1. HandlersTyped
  BY Zenon DEF ResourceInv, ResourceTypeOK
<1>2. /\ handler'[h] = v /\ \A g \in Handlers : g # h => handler'[g] = handler[g]
      /\ handler' = [g \in Handlers |-> handler'[g]]
  BY <1>1, HandlerStep, Zenon
<1>3. ResourceTypeOK'
  <2>1. RowsTyped' /\ WantTyped' /\ WorkloadTyped'
    BY DEF ResourceInv, ResourceTypeOK, RowsTyped, WantTyped, WorkloadTyped
  <2>2. HandlersTyped'
    BY <1>1, <1>2, Zenon DEF HandlersTyped
  <2>. QED  BY <2>1, <2>2, Zenon DEF ResourceTypeOK
<1>4. UniqueIds'
  BY Zenon DEF ResourceInv, UniqueIds
<1>5. RecordIds'
  <2>. USE DEF SameRow
  <2>1. RecordId(v, rows, lastId)
    BY Zenon DEF ResourceInv, UniqueIds, RecordId
  <2>2. \A g \in Handlers : RecordId(handler[g], rows, lastId)
    BY Zenon DEF ResourceInv, RecordIds
  <2>3. \A g \in Handlers : g # h /\ handler[g].pc = "save" /\ v.pc = "save" =>
           SameRow(handler[g].record, v.record) /\ SameRow(v.record, handler[g].record)
    BY <2>2, Zenon DEF RecordId
  <2>4. \A g \in Handlers : RecordId(handler'[g], rows, lastId)
    BY <1>2, <2>1, <2>2, Zenon
  <2>5. \A f, g \in Handlers : handler'[f].pc = "save" /\ handler'[g].pc = "save" =>
           SameRow(handler'[f].record, handler'[g].record)
    <3>. SUFFICES ASSUME NEW f \in Handlers, NEW g \in Handlers,
                         handler'[f].pc = "save", handler'[g].pc = "save"
                  PROVE  SameRow(handler'[f].record, handler'[g].record)
      BY Zenon
    <3>1. CASE f = h /\ g = h
      BY <3>1, Zenon
    <3>2. CASE f = h /\ g # h
      BY <1>2, <2>3, <3>2, Zenon
    <3>3. CASE f # h /\ g = h
      BY <1>2, <2>3, <3>3, Zenon
    <3>4. CASE f # h /\ g # h
      BY <1>2, <3>4, Zenon DEF ResourceInv, RecordIds
    <3>. QED  BY <3>1, <3>2, <3>3, <3>4, Zenon
  <2>. QED  BY <2>4, <2>5, Zenon DEF RecordIds
<1>6. OwnRows'
  <2>1. \A g \in Handlers : handler[g] # Idle => OwnRow(handler[g], spoiled')
    BY OwnRowMonotone, Zenon DEF ResourceInv, OwnRows
  <2>. QED  BY <1>2, <2>1, Zenon DEF OwnRows
<1>7. AllServed'
  <2>. SUFFICES ASSUME NEW k \in Keys, k \notin spoiled'
                PROVE  Served(k, RowsOf(rows, k), want[k], handler')
    BY Zenon DEF AllServed
  <2>1. Served(k, RowsOf(rows, k), want[k], handler)
    BY Zenon DEF ResourceInv, AllServed
  <2>2. handler[h].pc # "idle" /\ v.pc # "idle"
    BY DEF UpdateTyped, Stages
  <2>3. CASE k # v.key
    BY <1>1, <2>1, <2>3, ServedByOther, Zenon DEF Busy
  <2>4. CASE k = v.key
    <3>1. Busy(handler[h], k) /\ Busy(v, k)
      BY <2>2, <2>4, Zenon DEF Busy
    <3>2. OneUpdate(k, handler) /\ OneRow(RowsOf(rows, k))
      BY <2>1, Zenon DEF Served
    <3>3. Progress(v, RowsOf(rows, k), want[k])
      BY <2>1, <2>4, Zenon
    <3>. QED  BY <1>1, <3>1, <3>2, <3>3, ServedByOwn, Zenon
  <2>. QED  BY <2>3, <2>4, Zenon
<1>. QED  BY <1>3, <1>4, <1>5, <1>6, <1>7, Zenon DEF ResourceInv

LEMMA MergeKeeps ==
    ASSUME ResourceInv, NEW h \in Handlers, MergeWith(h, GetRaw(handler[h].key))
    PROVE  ResourceInv'
<1>. DEFINE u == handler[h]
            k == u.key
            found == GetRaw(k)
            m == IF found = {} THEN u.model ELSE MergeUpdateAttributes(First(found), u.model.attributes)
            v == IF found = {} THEN [u EXCEPT !.pc = "firstOrCreate"]
                 ELSE [[u EXCEPT !.pc = "firstOrCreate"] EXCEPT !.model = m]
<1>1. HandlersTyped /\ UpdateTyped(u) /\ u.pc = "getRaw" /\ u # Idle
  <2>1. HandlersTyped /\ u.pc = "getRaw"
    BY Zenon DEF ResourceInv, ResourceTypeOK, MergeWith
  <2>. QED  BY <2>1, BusyIsTyped
<1>2. KeyOf(u.model) = k /\ k.type = "PLUGIN_OVERRIDE" /\ u.asked.type = k.type
  BY <1>1, Zenon DEF ResourceInv, OwnRows, OwnRow, UpdateTyped
<1>3. \A r \in found : r \in rows /\ RowTyped(r) /\ r.type = k.type /\ r.id \in Nat
  <2>1. \A r \in found : r \in rows /\ r.type = k.type
    BY Zenon DEF GetRaw, WhereStruct
  <2>2. \A r \in rows : RowTyped(r) /\ r.id \in Nat
    BY DEF ResourceInv, ResourceTypeOK, RowsTyped, RowTyped, TableRow
  <2>. QED  BY <2>1, <2>2, Zenon
<1>4. found # {} => First(found) \in found
  BY <1>3, FirstMatches, Zenon
<1>5. found # {} =>
        LET a == mergeUpdatePluginOverrides(First(found).attributes, u.model.attributes)
        IN  /\ a \in Attributes /\ a.type = "PLUGIN_OVERRIDE"
            /\ First(found).attributes # Empty => a = Merged(First(found).attributes, u.model.attributes)
            /\ m = [workflow |-> First(found).workflow, type |-> First(found).type, attributes |-> a]
  <2>. SUFFICES ASSUME found # {} PROVE <1>5!2
    BY Zenon
  <2>1. /\ First(found).attributes \in Attributes \cup {Empty}
        /\ First(found).attributes # Empty => First(found).attributes.type = "PLUGIN_OVERRIDE"
    BY <1>2, <1>3, <1>4 DEF RowTyped, TableRow
  <2>2. u.model.attributes \in Attributes /\ u.model.attributes.type = "PLUGIN_OVERRIDE"
    BY <1>1, <1>2 DEF UpdateTyped, ModelTyped, ToWrite
  <2>3. m = [workflow |-> First(found).workflow, type |-> First(found).type,
             attributes |-> mergeUpdatePluginOverrides(First(found).attributes, u.model.attributes)]
    BY Zenon DEF MergeUpdateAttributes
  <2>. QED  BY <2>1, <2>2, <2>3, MergeUpdateTyped, Zenon
<1>6. ModelTyped(m) /\ m.type = k.type
  <2>1. CASE found = {}
    BY <1>1, <2>1, Zenon DEF UpdateTyped
  <2>2. CASE found # {}
    <3>1. First(found).workflow \in Levels /\ First(found).type \in Types /\ First(found).type = k.type
      BY <1>3, <1>4, <2>2 DEF RowTyped, TableRow
    <3>2. PICK a \in Attributes :
             /\ a.type = "PLUGIN_OVERRIDE"
             /\ m = [workflow |-> First(found).workflow, type |-> First(found).type, attributes |-> a]
      BY <1>5, <2>2, Zenon
    <3>. HIDE DEF m, found
    <3>. QED  BY <1>2, <3>1, <3>2 DEF ModelTyped, ToWrite
  <2>. QED  BY <2>1, <2>2, Zenon
<1>m. found # {} => KeyOf(m) = KeyOf(First(found))
  <2>1. found # {} => m.workflow = First(found).workflow /\ m.type = First(found).type
    BY <1>5
  <2>. QED  BY <2>1, Zenon DEF KeyOf
<1>7. handler' = [handler EXCEPT ![h] = v]
  <2>1. CASE found = {}
    BY <2>1, Zenon DEF MergeWith
  <2>2. CASE found # {}
    <3>1. handler' = [handler EXCEPT ![h].pc = "firstOrCreate", ![h].model = m]
      BY <2>2, Zenon DEF MergeWith
    <3>2. v = [[handler[h] EXCEPT !.pc = "firstOrCreate"] EXCEPT !.model = m]
      BY <2>2, Zenon
    <3>. HIDE DEF m, v
    <3>3. [handler EXCEPT ![h].pc = "firstOrCreate", ![h].model = m] =
             [handler EXCEPT ![h] = [[handler[h] EXCEPT !.pc = "firstOrCreate"] EXCEPT !.model = m]]
      BY <1>1, HandlerGoesOn, Zenon
    <3>. QED  BY <3>1, <3>2, <3>3, Zenon
  <2>. QED  BY <2>1, <2>2, Zenon
<1>8. UpdateShape(v) /\ v.pc = "firstOrCreate" /\ v.key = k /\ v.asked = u.asked /\ v.model = m
  <2>1. UpdateShape(u) /\ (found = {} => m = u.model)
    BY <1>1, Zenon DEF UpdateTyped
  <2>2. found = {} => v = [u EXCEPT !.pc = "firstOrCreate"]
    BY Zenon
  <2>3. found # {} => v = [[u EXCEPT !.pc = "firstOrCreate"] EXCEPT !.model = m]
    BY Zenon
  <2>. HIDE DEF m, v, found
  <2>4. GoesOn(v, u, "firstOrCreate", m, u.record)
    BY <2>1, <2>2, <2>3, UpdateGoesOn, ModelGoesOn, Zenon
  <2>. QED  BY <2>4, Zenon DEF GoesOn
<1>9. UpdateTyped(v)
  <2>. HIDE DEF v, m
  <2>. QED  BY <1>1, <1>6, <1>8 DEF UpdateTyped, Stages
<1>10. UNCHANGED <<rows, lastId, want, workload>> /\ spoiled \subseteq spoiled'
  BY Zenon DEF MergeWith, Spoil
<1>11. \/ KeyOf(m) = k
       \/ found # {} /\ First(found).workflow # u.model.workflow /\ KeyOf(m) \in spoiled' /\ k \in spoiled'
  <2>1. CASE found = {}
    BY <1>2, <2>1, Zenon
  <2>2. CASE found # {} /\ First(found).workflow = u.model.workflow
    <3>1. First(found).type = u.model.type
      BY <1>1, <1>3, <1>4, <2>2, Zenon DEF UpdateTyped
    <3>. QED  BY <1>2, <1>5, <2>2, <3>1 DEF KeyOf
  <2>3. CASE found # {} /\ First(found).workflow # u.model.workflow
    <3>1. KeyOf(m) = KeyOf(First(found))
      BY <1>m, <2>3, Zenon
    <3>2. spoiled' = spoiled \cup {KeyOf(First(found)), KeyOf(u.model)}
      BY <2>3, Zenon DEF MergeWith, Spoil
    <3>. QED  BY <1>2, <2>3, <3>1, <3>2, Zenon
  <2>. QED  BY <2>1, <2>2, <2>3, Zenon
<1>12. OwnRow(v, spoiled')
  <2>1. v.pc # "getRaw" /\ v.pc # "save"
    BY <1>8
  <2>. HIDE DEF v
  <2>. QED  BY <1>8, <1>11, <2>1, Zenon DEF OwnRow
<1>13. ASSUME k \notin spoiled', Served(k, RowsOf(rows, k), want[k], handler)
       PROVE  Progress(v, RowsOf(rows, k), want[k])
  <2>1. Progress(u, RowsOf(rows, k), want[k]) /\ OneRow(RowsOf(rows, k))
    BY <1>1, <1>13 DEF Served, Busy
  <2>2. Holds(RowsOf(rows, k), want[k]) /\ u.model.attributes = u.asked
    BY <1>1, <2>1 DEF Progress
  <2>3. m.attributes = Merged(want[k], u.asked)
    <3>1. CASE found = {}
      <4>1. RowsOf(rows, k) \subseteq found
        BY DEF RowsOf, GetRaw, WhereStruct, KeyOf, Key
      <4>2. want[k] = None
        BY <2>2, <3>1, <4>1, Zenon DEF Holds
      <4>. QED  BY <2>2, <3>1, <4>2, Zenon DEF Merged
    <3>2. CASE found # {}
      <4>1. KeyOf(First(found)) = k
        BY <1>m, <1>11, <1>13, <3>2, Zenon
      <4>2. First(found) \in RowsOf(rows, k)
        BY <1>3, <1>4, <3>2, <4>1, Zenon DEF RowsOf
      <4>3. First(found).attributes = want[k] /\ want[k] # None
        BY <2>1, <2>2, <4>2, Zenon DEF Holds, OneRow
      <4>4. want[k] \in Attributes
        BY <1>1, <4>3 DEF ResourceInv, ResourceTypeOK, WantTyped, UpdateTyped
      <4>5. First(found).attributes # Empty
        BY <4>3, <4>4, AttributesFacts, Zenon
      <4>6. m.attributes = mergeUpdatePluginOverrides(First(found).attributes, u.model.attributes)
        BY <1>5, <3>2
      <4>. QED  BY <1>5, <2>2, <3>2, <4>3, <4>5, <4>6, Zenon
    <3>. QED  BY <3>1, <3>2, Zenon
  <2>4. v.pc # "save" /\ v.pc # "getRaw" /\ v.pc # "create"
    BY <1>8
  <2>. HIDE DEF v, m
  <2>. QED  BY <1>8, <2>2, <2>3, <2>4, Zenon DEF Progress
<1>14. v.pc # "save"
  BY <1>8
<1>. HIDE DEF v, m, found
<1>. QED  BY <1>1, <1>7, <1>8, <1>9, <1>10, <1>12, <1>13, <1>14, ReadKeeps, Zenon

\* FirstOrCreate looks for the rows of the model's key, and no others.
LEMMA FirstOrCreateFinds ==
    ASSUME RowsTyped, NEW m \in ToWrite
    PROVE  FirstOrCreateWhere(m.workflow, m.type) = RowsOf(rows, KeyOf(m))
<1>1. \A r \in rows : r.workflow \in Levels
  BY DEF RowsTyped, RowTyped, TableRow
<1>2. \A v, w \in Levels : Priority(v) = Priority(w) => (v = ProjectDomain <=> w = ProjectDomain)
  BY DEF Priority
<1>3. m.workflow \in Levels
  BY DEF ToWrite
<1>4. \A r \in rows : KeyOf(r) = KeyOf(m) <=> r.workflow = m.workflow /\ r.type = m.type
  BY DEF KeyOf, Key
<1>5. \A r \in rows : /\ r.type = m.type
                      /\ m.workflow # ProjectDomain => r.workflow = m.workflow
                      /\ Priority(r.workflow) = Priority(m.workflow)
                      <=> r.workflow = m.workflow /\ r.type = m.type
  BY <1>1, <1>2, <1>3, Zenon
<1>. QED  BY <1>4, <1>5 DEF FirstOrCreateWhere, WhereStruct, RowsOf

LEMMA FirstOrCreateKeeps ==
    ASSUME ResourceInv, NEW h \in Handlers, FirstOrCreate(h)
    PROVE  ResourceInv'
<1>. DEFINE u == handler[h]
            k == u.key
            found == FirstOrCreateWhere(u.model.workflow, u.model.type)
            v == IF found = {} THEN [u EXCEPT !.pc = "create"]
                 ELSE [[u EXCEPT !.pc = "save"] EXCEPT !.record = First(found)]
<1>1. HandlersTyped /\ UpdateTyped(u) /\ u.pc = "firstOrCreate" /\ u # Idle
  <2>1. HandlersTyped /\ u.pc = "firstOrCreate"
    BY Zenon DEF ResourceInv, ResourceTypeOK, FirstOrCreate
  <2>. QED  BY <2>1, BusyIsTyped
<1>2. OwnRow(u, spoiled)
  BY <1>1, Zenon DEF ResourceInv, OwnRows
<1>3. found = RowsOf(rows, KeyOf(u.model))
  BY <1>1, FirstOrCreateFinds, Zenon DEF ResourceInv, ResourceTypeOK, UpdateTyped, ModelTyped
<1>4. \A r \in found : r \in rows /\ RowTyped(r) /\ KeyOf(r) = KeyOf(u.model) /\ r.id \in Nat
  <2>1. \A r \in found : r \in rows /\ KeyOf(r) = KeyOf(u.model)
    BY <1>3, Zenon DEF RowsOf
  <2>2. \A r \in rows : RowTyped(r) /\ r.id \in Nat
    BY DEF ResourceInv, ResourceTypeOK, RowsTyped, RowTyped, TableRow
  <2>. QED  BY <2>1, <2>2, Zenon
<1>5. found # {} => First(found) \in found
  BY <1>4, FirstMatches, Zenon
<1>6. handler' = [handler EXCEPT ![h] = v]
  BY Zenon DEF FirstOrCreate
<1>7. UpdateShape(u)
  BY <1>1, Zenon DEF UpdateTyped
<1>8. /\ UpdateShape(v) /\ v.key = k /\ v.asked = u.asked /\ v.model = u.model
      /\ found = {} => v.pc = "create"
      /\ found # {} => v.pc = "save" /\ v.record = First(found)
  <2>1. found = {} => v = [u EXCEPT !.pc = "create"]
    BY Zenon
  <2>2. found # {} => v = [[u EXCEPT !.pc = "save"] EXCEPT !.record = First(found)]
    BY Zenon
  <2>. HIDE DEF v, found
  <2>3. /\ found = {} => GoesOn(v, u, "create", u.model, u.record)
        /\ found # {} => GoesOn(v, u, "save", u.model, First(found))
    BY <1>7, <2>1, <2>2, UpdateGoesOn, RecordGoesOn, Zenon
  <2>. QED  BY <2>3, Zenon DEF GoesOn
<1>. HIDE DEF v, found
<1>9. v.pc \in {"create", "save"} /\ (v.pc = "save" <=> found # {})
  BY <1>8
<1>10. UpdateTyped(v)
  <2>1. v.pc = "save" => RowTyped(v.record)
    BY <1>4, <1>5, <1>8, <1>9, Zenon
  <2>2. v.pc \in Stages /\ v.pc # "getRaw"
    BY <1>9 DEF Stages
  <2>. QED  BY <1>1, <1>8, <2>1, <2>2, Zenon DEF UpdateTyped
<1>11. UNCHANGED <<rows, lastId, want, workload>> /\ spoiled \subseteq spoiled'
  BY Zenon DEF FirstOrCreate
<1>12. OwnRow(v, spoiled')
  <2>1. OwnRow(u, spoiled')
    BY <1>2, <1>11, OwnRowMonotone, Zenon
  <2>2. v.pc # "getRaw" /\ (v.pc = "save" => KeyOf(v.record) = KeyOf(u.model))
    BY <1>4, <1>5, <1>8, <1>9
  <2>. QED  BY <1>8, <2>1, <2>2, Zenon DEF OwnRow
<1>13. v.pc = "save" => v.record \in rows
  BY <1>4, <1>5, <1>8, <1>9, Zenon
<1>14. ASSUME k \notin spoiled', Served(k, RowsOf(rows, k), want[k], handler)
       PROVE  Progress(v, RowsOf(rows, k), want[k])
  <2>1. Progress(u, RowsOf(rows, k), want[k]) /\ OneRow(RowsOf(rows, k))
    BY <1>1, <1>14 DEF Served, Busy
  <2>2. Holds(RowsOf(rows, k), want[k]) /\ u.model.attributes = Merged(want[k], u.asked)
    BY <1>1, <2>1 DEF Progress
  <2>3. KeyOf(u.model) = k
    BY <1>2, <1>11, <1>14, Zenon DEF OwnRow
  <2>4. found = {} => want[k] = None
    BY <1>3, <2>2, <2>3, Zenon DEF Holds
  <2>5. found # {} => v.record \in RowsOf(rows, k) /\ want[k] # None /\ v.record.attributes = want[k]
    BY <1>3, <1>5, <1>8, <2>1, <2>2, <2>3, Zenon DEF Holds, OneRow
  <2>6. v.pc # "getRaw" /\ (v.pc = "create" => found = {})
    BY <1>9
  <2>. QED  BY <1>8, <1>9, <2>2, <2>4, <2>5, <2>6, Zenon DEF Progress
<1>. QED  BY <1>1, <1>6, <1>8, <1>10, <1>11, <1>12, <1>13, <1>14, ReadKeeps, Zenon

LEMMA CreateKeeps ==
    ASSUME ResourceInv, NEW h \in Handlers, Create(h)
    PROVE  ResourceInv'
<1>. DEFINE u == handler[h]
            m == u.model
            k == u.key
            r == [id |-> lastId + 1, workflow |-> m.workflow, type |-> m.type, attributes |-> Empty]
            v == [[u EXCEPT !.pc = "save"] EXCEPT !.record = r]
<1>1. HandlersTyped /\ UpdateTyped(u) /\ u.pc = "create" /\ u # Idle
  <2>1. HandlersTyped /\ u.pc = "create"
    BY Zenon DEF ResourceInv, ResourceTypeOK, Create
  <2>. QED  BY <2>1, BusyIsTyped
<1>2. OwnRow(u, spoiled)
  BY <1>1, Zenon DEF ResourceInv, OwnRows
<1>3. UpdateShape(v) /\ v.key = k /\ v.asked = u.asked /\ v.model = m /\ v.pc = "save" /\ v.record = r
  <2>1. UpdateShape(u)
    BY <1>1, Zenon DEF UpdateTyped
  <2>2. v = [[u EXCEPT !.pc = "save"] EXCEPT !.record = r]
    BY Zenon
  <2>. HIDE DEF r, v
  <2>3. GoesOn(v, u, "save", u.model, r)
    BY <2>1, <2>2, RecordGoesOn, Zenon
  <2>. QED  BY <2>3, Zenon DEF GoesOn
<1>4. lastId \in Nat /\ m \in ToWrite
  BY <1>1, Zenon DEF ResourceInv, ResourceTypeOK, RowsTyped, UpdateTyped, ModelTyped
<1>5. RowTyped(r) /\ KeyOf(r) = KeyOf(m) /\ r.id = lastId + 1 /\ r.attributes = Empty
  BY <1>4 DEF RowTyped, TableRow, ToWrite, KeyOf
<1>6. /\ rows' = rows \cup {r} /\ lastId' = lastId + 1
      /\ UNCHANGED <<want, spoiled, workload>>
  BY Zenon DEF Create
<1>7. handler' = [handler EXCEPT ![h] = v]
  <2>1. handler' = [handler EXCEPT ![h].pc = "save", ![h].record = r]
    BY Zenon DEF Create
  <2>. HIDE DEF r
  <2>. QED  BY <1>1, <2>1, HandlerGoesOn, Zenon
<1>. HIDE DEF v, r
<1>8. /\ handler'[h] = v /\ \A g \in Handlers : g # h => handler'[g] = handler[g]
      /\ handler' = [g \in Handlers |-> handler'[g]]
  BY <1>1, <1>7, HandlerStep, Zenon
<1>9. \A q \in rows : q.id \in Nat /\ q.id <= lastId
  BY DEF ResourceInv, ResourceTypeOK, RowsTyped, RowTyped, TableRow, UniqueIds
<1>10. \A g \in Handlers : handler[g].pc = "save" => handler[g].record.id \in Nat /\ handler[g].record.id <= lastId
  <2>. SUFFICES ASSUME NEW g \in Handlers, handler[g].pc = "save"
                PROVE  handler[g].record.id \in Nat /\ handler[g].record.id <= lastId
    BY Zenon
  <2>1. RowTyped(handler[g].record)
    BY <1>1, BusyIsTyped DEF UpdateTyped
  <2>. QED  BY <2>1 DEF ResourceInv, RecordIds, RecordId, RowTyped, TableRow
<1>11. ResourceTypeOK'
  <2>1. RowsTyped'
    BY <1>4, <1>5, <1>6 DEF ResourceInv, ResourceTypeOK, RowsTyped
  <2>2. WantTyped' /\ WorkloadTyped'
    BY <1>6 DEF ResourceInv, ResourceTypeOK, WantTyped, WorkloadTyped
  <2>3. UpdateTyped(v)
    BY <1>1, <1>3, <1>5 DEF UpdateTyped, Stages
  <2>4. HandlersTyped'
    BY <1>1, <1>8, <2>3, Zenon DEF HandlersTyped
  <2>. QED  BY <2>1, <2>2, <2>4, Zenon DEF ResourceTypeOK
<1>12. UniqueIds'
  <2>1. \A q \in rows : q.id # r.id /\ q.id <= lastId + 1
    BY <1>4, <1>5, <1>9
  <2>2. \A q \in rows' : q.id <= lastId'
    BY <1>4, <1>5, <1>6, <2>1
  <2>3. \A p, q \in rows' : p.id = q.id => p = q
    BY <1>6, <2>1, Zenon DEF ResourceInv, UniqueIds
  <2>. QED  BY <2>2, <2>3, Zenon DEF UniqueIds
<1>13. RecordIds'
  <2>1. \A q \in rows : SameRow(q, r)
    BY <1>4, <1>5, <1>9 DEF SameRow
  <2>2. RecordId(v, rows', lastId')
    BY <1>3, <1>4, <1>5, <1>6, <2>1 DEF RecordId, SameRow
  <2>3. \A g \in Handlers : handler[g].pc = "save" => SameRow(handler[g].record, r) /\ SameRow(r, handler[g].record)
    BY <1>4, <1>5, <1>10 DEF SameRow
  <2>4. \A g \in Handlers : RecordId(handler[g], rows', lastId')
    BY <1>4, <1>6, <1>10, <2>3 DEF ResourceInv, RecordIds, RecordId
  <2>5. \A g \in Handlers : RecordId(handler'[g], rows', lastId')
    BY <1>8, <2>2, <2>4, Zenon
  <2>6. \A f, g \in Handlers : handler'[f].pc = "save" /\ handler'[g].pc = "save" =>
           SameRow(handler'[f].record, handler'[g].record)
    <3>. SUFFICES ASSUME NEW f \in Handlers, NEW g \in Handlers,
                         handler'[f].pc = "save", handler'[g].pc = "save"
                  PROVE  SameRow(handler'[f].record, handler'[g].record)
      BY Zenon
    <3>1. CASE f = h /\ g = h
      BY <3>1, Zenon DEF SameRow
    <3>2. CASE f = h /\ g # h
      BY <1>3, <1>8, <2>3, <3>2, Zenon
    <3>3. CASE f # h /\ g = h
      BY <1>3, <1>8, <2>3, <3>3, Zenon
    <3>4. CASE f # h /\ g # h
      BY <1>8, <3>4, Zenon DEF ResourceInv, RecordIds
    <3>. QED  BY <3>1, <3>2, <3>3, <3>4, Zenon
  <2>. QED  BY <2>5, <2>6, Zenon DEF RecordIds
<1>14. OwnRows'
  <2>1. OwnRow(v, spoiled)
    <3>1. v.pc # "getRaw"
      BY <1>3
    <3>. QED  BY <1>2, <1>3, <1>5, <3>1, Zenon DEF OwnRow
  <2>. QED  BY <1>6, <1>8, <2>1, Zenon DEF ResourceInv, OwnRows
<1>15. AllServed'
  <2>. SUFFICES ASSUME NEW x \in Keys, x \notin spoiled
                PROVE  Served(x, RowsOf(rows', x), want[x], handler')
    BY <1>6, Zenon DEF AllServed
  <2>1. Served(x, RowsOf(rows, x), want[x], handler)
    BY Zenon DEF ResourceInv, AllServed
  <2>2. KeyOf(m) = k \/ (KeyOf(m) # x /\ k # x)
    BY <1>2, Zenon DEF OwnRow
  <2>3. CASE x # k
    <3>1. KeyOf(r) # x
      BY <1>5, <2>2, <2>3, Zenon
    <3>2. RowsOf(rows', x) = RowsOf(rows, x)
      BY <1>6, <3>1 DEF RowsOf
    <3>. QED  BY <1>1, <1>3, <1>7, <2>1, <2>3, <3>2, ServedByOther, Zenon DEF Busy
  <2>4. CASE x = k
    <3>1. Busy(u, x) /\ Busy(v, x)
      BY <1>1, <1>3, <2>4 DEF Busy
    <3>2. Progress(u, RowsOf(rows, x), want[x]) /\ OneUpdate(x, handler)
      BY <2>1, <3>1, Zenon DEF Served
    <3>3. want[x] = None /\ RowsOf(rows, x) = {} /\ m.attributes = Merged(want[x], u.asked)
      BY <1>1, <3>2 DEF Progress, Holds
    <3>4. RowsOf(rows', x) = {r}
      BY <1>5, <1>6, <2>2, <2>4, <3>3 DEF RowsOf
    <3>5. Progress(v, RowsOf(rows', x), want[x])
      BY <1>3, <1>5, <3>3, <3>4 DEF Progress
    <3>6. OneRow(RowsOf(rows', x))
      BY <3>4, Zenon DEF OneRow
    <3>. QED  BY <1>1, <1>7, <3>1, <3>2, <3>5, <3>6, ServedByOwn, Zenon
  <2>. QED  BY <2>3, <2>4, Zenon
<1>. QED  BY <1>11, <1>12, <1>13, <1>14, <1>15, Zenon DEF ResourceInv

LEMMA SaveKeeps ==
    ASSUME ResourceInv, NEW h \in Handlers, Save(h)
    PROVE  ResourceInv'
<1>. DEFINE u == handler[h]
            k == u.key
            r == [u.record EXCEPT !.attributes = u.model.attributes]
<1>1. HandlersTyped /\ UpdateTyped(u) /\ u.pc = "save" /\ u # Idle
  <2>1. HandlersTyped /\ u.pc = "save"
    BY Zenon DEF ResourceInv, ResourceTypeOK, Save
  <2>. QED  BY <2>1, BusyIsTyped
<1>2. OwnRow(u, spoiled)
  BY <1>1, Zenon DEF ResourceInv, OwnRows
<1>3. RowTyped(u.record) /\ ModelTyped(u.model) /\ KeyOf(u.record) = KeyOf(u.model) /\ k \in Keys
  BY <1>1, <1>2, Zenon DEF UpdateTyped, OwnRow
<1>4. /\ RowTyped(r) /\ KeyOf(r) = KeyOf(u.record) /\ r.id = u.record.id
      /\ r.attributes = u.model.attributes
  BY <1>3 DEF RowTyped, TableRow, ModelTyped, ToWrite, KeyOf, Key
<1>5. /\ rows' = {q \in rows : q.id # r.id} \cup {r}
      /\ want' = [want EXCEPT ![k] = Merged(want[k], u.asked)]
      /\ handler' = [handler EXCEPT ![h] = Idle]
      /\ UNCHANGED <<lastId, spoiled, workload>>
  BY Zenon DEF Save
<1>. HIDE DEF r
<1>6. /\ handler'[h] = Idle /\ \A g \in Handlers : g # h => handler'[g] = handler[g]
      /\ handler' = [g \in Handlers |-> handler'[g]]
  BY <1>1, <1>5, HandlerStep, Zenon
<1>7. Idle.pc = "idle" /\ Idle.pc # "save"
  BY DEF Idle
<1>8. WantTyped /\ Merged(want[k], u.asked) \in Attributes /\ Merged(want[k], u.asked).type = k.type
  <2>1. WantTyped
    BY Zenon DEF ResourceInv, ResourceTypeOK
  <2>2. /\ u.asked \in Attributes /\ u.asked.type = k.type
        /\ want[k] \in Attributes \cup {None} /\ (want[k] # None => want[k].type = u.asked.type)
    BY <1>1, <1>3, <2>1 DEF UpdateTyped, WantTyped
  <2>. QED  BY <2>1, <2>2, MergedTyped, Zenon
<1>9. want'[k] = Merged(want[k], u.asked) /\ \A x \in Keys : x # k => want'[x] = want[x]
  BY <1>3, <1>5, <1>8 DEF WantTyped
<1>10. ResourceTypeOK'
  <2>1. RowsTyped'
    BY <1>4, <1>5, Zenon DEF ResourceInv, ResourceTypeOK, RowsTyped
  <2>2. WantTyped'
    <3>1. want' \in [Keys -> Attributes \cup {None}]
      BY <1>5, <1>8, Zenon DEF WantTyped
    <3>2. \A x \in Keys : want'[x] # None => want'[x].type = x.type
      BY <1>8, <1>9, Zenon DEF WantTyped
    <3>. QED  BY <3>1, <3>2, Zenon DEF WantTyped
  <2>3. WorkloadTyped'
    BY <1>5 DEF ResourceInv, ResourceTypeOK, WorkloadTyped
  <2>4. HandlersTyped'
    BY <1>1, <1>6, Zenon DEF HandlersTyped
  <2>. QED  BY <2>1, <2>2, <2>3, <2>4, Zenon DEF ResourceTypeOK
<1>11. RecordId(u, rows, lastId)
  BY Zenon DEF ResourceInv, RecordIds
<1>12. UniqueIds'
  <2>1. r.id <= lastId
    BY <1>1, <1>4, <1>11, Zenon DEF RecordId
  <2>. QED  BY <1>5, <2>1, Zenon DEF ResourceInv, UniqueIds
<1>13. RecordIds'
  <2>1. \A g \in Handlers : RecordId(handler'[g], rows', lastId)
    <3>. SUFFICES ASSUME NEW g \in Handlers, handler'[g].pc = "save"
                  PROVE  /\ handler'[g].record.id <= lastId
                         /\ \A q \in rows' : SameRow(q, handler'[g].record)
      BY Zenon DEF RecordId
    <3>1. g # h /\ handler'[g] = handler[g]
      BY <1>6, <1>7, Zenon
    <3>2. /\ handler[g].record.id <= lastId
          /\ \A q \in rows : SameRow(q, handler[g].record)
          /\ SameRow(u.record, handler[g].record)
      BY <1>1, <3>1, Zenon DEF ResourceInv, RecordIds, RecordId
    <3>3. SameRow(r, handler[g].record)
      BY <1>4, <3>2, Zenon DEF SameRow
    <3>. QED  BY <1>5, <3>1, <3>2, <3>3, Zenon
  <2>2. \A f, g \in Handlers : handler'[f].pc = "save" /\ handler'[g].pc = "save" =>
           SameRow(handler'[f].record, handler'[g].record)
    BY <1>6, <1>7, Zenon DEF ResourceInv, RecordIds
  <2>. QED  BY <1>5, <2>1, <2>2, Zenon DEF RecordIds
<1>14. OwnRows'
  BY <1>5, <1>6, Zenon DEF ResourceInv, OwnRows
<1>15. AllServed'
  <2>. SUFFICES ASSUME NEW x \in Keys, x \notin spoiled
                PROVE  Served(x, RowsOf(rows', x), want'[x], handler')
    BY <1>5, Zenon DEF AllServed
  <2>1. Served(x, RowsOf(rows, x), want[x], handler)
    BY Zenon DEF ResourceInv, AllServed
  <2>2. KeyOf(r) = k \/ (KeyOf(r) # x /\ k # x)
    BY <1>2, <1>3, <1>4, Zenon DEF OwnRow
  <2>3. ~Busy(Idle, x)
    BY <1>7, Zenon DEF Busy
  <2>4. CASE x # k
    <3>1. \A q \in rows : q.id = r.id => KeyOf(q) # x
      BY <1>1, <1>4, <1>11, <2>2, <2>4, Zenon DEF RecordId, SameRow
    <3>2. RowsOf(rows', x) = RowsOf(rows, x)
      BY <1>5, <2>2, <2>4, <3>1 DEF RowsOf
    <3>3. want'[x] = want[x] /\ ~Busy(u, x)
      BY <1>9, <2>4, Zenon DEF Busy
    <3>. QED  BY <1>1, <1>5, <2>1, <2>3, <3>2, <3>3, ServedByOther, Zenon
  <2>5. CASE x = k
    <3>1. Busy(u, x)
      BY <1>1, <2>5 DEF Busy
    <3>2. Progress(u, RowsOf(rows, x), want[x]) /\ OneUpdate(x, handler) /\ OneRow(RowsOf(rows, x))
      BY <2>1, <3>1, Zenon DEF Served
    <3>3. u.record \in RowsOf(rows, x) /\ u.model.attributes = Merged(want[x], u.asked)
      BY <1>1, <3>2 DEF Progress
    <3>4. RowsOf(rows, x) = {u.record}
      BY <3>2, <3>3 DEF OneRow
    <3>5. RowsOf(rows', x) = {r}
      <4>1. KeyOf(r) = x
        BY <2>2, <2>5, Zenon
      <4>2. \A q \in rows : KeyOf(q) = x => q.id = r.id
        BY <1>4, <3>4, Zenon DEF RowsOf
      <4>. QED  BY <1>5, <4>1, <4>2 DEF RowsOf
    <3>6. r.attributes = want'[x] /\ want'[x] # None
      <4>1. want'[x] = Merged(want[x], u.asked) /\ want'[x] \in Attributes
        BY <1>8, <1>9, <2>5, Zenon
      <4>. QED  BY <1>4, <3>3, <4>1, AttributesFacts, Zenon
    <3>7. OneRow(RowsOf(rows', x)) /\ Holds(RowsOf(rows', x), want'[x])
      BY <3>5, <3>6, Zenon DEF OneRow, Holds
    <3>. QED  BY <1>1, <1>5, <2>3, <3>1, <3>2, <3>7, ServedByOwn, Zenon
  <2>. QED  BY <2>4, <2>5, Zenon
<1>. QED  BY <1>10, <1>12, <1>13, <1>14, <1>15, Zenon DEF ResourceInv

\* Updates end, one that failed or all with the process: those that have
\* inserted a row and not saved it spoil their key.
LEMMA EndKeeps ==
    ASSUME ResourceInv, UNCHANGED <<rows, lastId, want, workload>>, spoiled \subseteq spoiled',
           handler' = [g \in Handlers |-> handler'[g]],
           \A g \in Handlers : \/ handler'[g] = handler[g]
                               \/ handler'[g] = Idle /\ handler[g] # Idle /\ HalfDone(g) \subseteq spoiled'
    PROVE  ResourceInv'
<1>1. HandlersTyped
  BY Zenon DEF ResourceInv, ResourceTypeOK
<1>2. Idle.pc = "idle" /\ Idle.pc # "save"
  BY DEF Idle
<1>3. ResourceTypeOK'
  <2>1. RowsTyped' /\ WantTyped' /\ WorkloadTyped'
    BY DEF ResourceInv, ResourceTypeOK, RowsTyped, WantTyped, WorkloadTyped
  <2>2. HandlersTyped'
    BY <1>1, Zenon DEF HandlersTyped
  <2>. QED  BY <2>1, <2>2, Zenon DEF ResourceTypeOK
<1>4. UniqueIds'
  BY Zenon DEF ResourceInv, UniqueIds
<1>5. RecordIds'
  <2>1. \A g \in Handlers : handler'[g].pc = "save" => handler'[g] = handler[g]
    BY <1>2, Zenon
  <2>2. \A g \in Handlers : RecordId(handler'[g], rows, lastId)
    BY <2>1, Zenon DEF ResourceInv, RecordIds, RecordId
  <2>3. \A f, g \in Handlers : handler'[f].pc = "save" /\ handler'[g].pc = "save" =>
           SameRow(handler'[f].record, handler'[g].record)
    BY <2>1, Zenon DEF ResourceInv, RecordIds
  <2>. QED  BY <2>2, <2>3, Zenon DEF RecordIds
<1>6. OwnRows'
  <2>1. \A g \in Handlers : handler[g] # Idle => OwnRow(handler[g], spoiled')
    BY OwnRowMonotone, Zenon DEF ResourceInv, OwnRows
  <2>. QED  BY <2>1, Zenon DEF OwnRows
<1>7. AllServed'
  <2>. SUFFICES ASSUME NEW k \in Keys, k \notin spoiled'
                PROVE  Served(k, RowsOf(rows, k), want[k], handler')
    BY Zenon DEF AllServed
  <2>. DEFINE own == RowsOf(rows, k)
  <2>1. Served(k, own, want[k], handler)
    BY Zenon DEF ResourceInv, AllServed
  <2>. HIDE DEF own
  <2>2. \A g \in Handlers : Busy(handler'[g], k) => Busy(handler[g], k) /\ handler'[g] = handler[g]
    BY <1>2, Zenon DEF Busy
  <2>3. OneRow(own) /\ OneUpdate(k, handler')
    BY <2>1, <2>2, Zenon DEF Served, OneUpdate
  <2>4. \A g \in Handlers : Busy(handler'[g], k) => Progress(handler'[g], own, want[k])
    BY <2>1, <2>2, Zenon DEF Served
  <2>5. ASSUME \A g \in Handlers : ~Busy(handler'[g], k)
        PROVE  Holds(own, want[k])
    <3>1. CASE \A g \in Handlers : ~Busy(handler[g], k)
      BY <2>1, <3>1, Zenon DEF Served
    <3>2. CASE \E g \in Handlers : Busy(handler[g], k)
      <4>1. PICK g \in Handlers : Busy(handler[g], k)
        BY <3>2, Zenon
      <4>2. HalfDone(g) \subseteq spoiled'
        BY <2>5, <4>1, Zenon
      <4>3. Progress(handler[g], own, want[k])
        BY <2>1, <4>1, Zenon DEF Served
      <4>4. ~(handler[g].pc = "save" /\ handler[g].record.attributes = Empty)
        BY <4>1, <4>2, Zenon DEF HalfDone, Busy
      <4>. QED  BY <4>3, <4>4, Zenon DEF Progress, Holds
    <3>. QED  BY <3>1, <3>2, Zenon
  <2>. QED  BY <2>3, <2>4, <2>5, Zenon DEF Served, own
<1>. QED  BY <1>3, <1>4, <1>5, <1>6, <1>7, Zenon DEF ResourceInv

LEMMA UpdateFailsKeeps ==
    ASSUME ResourceInv, NEW h \in Handlers, UpdateFails(h)
    PROVE  ResourceInv'
<1>1. /\ handler[h] # Idle /\ handler' = [handler EXCEPT ![h] = Idle]
      /\ spoiled' = spoiled \cup HalfDone(h) /\ UNCHANGED <<rows, lastId, want, workload>>
  BY Zenon DEF UpdateFails, Spoil
<1>2. /\ handler'[h] = Idle /\ \A g \in Handlers : g # h => handler'[g] = handler[g]
      /\ handler' = [g \in Handlers |-> handler'[g]]
  BY <1>1, HandlerStep, Zenon DEF ResourceInv, ResourceTypeOK
<1>. QED  BY <1>1, <1>2, EndKeeps, Zenon

LEMMA DeleteKeeps ==
    ASSUME ResourceInv, NEW d \in workload.deletes, Delete(d)
    PROVE  ResourceInv'
<1>. DEFINE deleted == WhereStruct(d.workflow, d.type)
<1>1. d \in Keys
  BY DeleteRequested, Zenon DEF ResourceInv, ResourceTypeOK
<1>2. /\ rows' = rows \ deleted
      /\ spoiled' = spoiled \cup ({x \in {d} : Updating(d)} \cup ({KeyOf(r) : r \in deleted} \ {d}))
      /\ want' = [want EXCEPT ![d] = None]
      /\ UNCHANGED <<lastId, handler>>
  BY Zenon DEF Delete, Spoil
<1>3. \A r \in rows : KeyOf(r) = d => r \in deleted
  <2>1. \A r \in rows : KeyOf(r) = d => r.workflow = d.workflow /\ r.type = d.type
    BY DEF KeyOf, Key
  <2>. QED  BY <2>1, Zenon DEF WhereStruct
<1>. HIDE DEF deleted
<1>4. WantTyped /\ want'[d] = None /\ \A k \in Keys : k # d => want'[k] = want[k]
  BY <1>1, <1>2 DEF ResourceInv, ResourceTypeOK, WantTyped
<1>5. ResourceTypeOK'
  <2>1. RowsTyped'
    BY <1>2, Zenon DEF ResourceInv, ResourceTypeOK, RowsTyped
  <2>2. WantTyped'
    <3>1. want' \in [Keys -> Attributes \cup {None}]
      BY <1>2, <1>4, Zenon DEF WantTyped
    <3>. QED  BY <1>4, <3>1, Zenon DEF WantTyped
  <2>3. WorkloadTyped'
    BY RequestServed, Zenon DEF ResourceInv, ResourceTypeOK, Delete
  <2>4. HandlersTyped'
    BY <1>2 DEF ResourceInv, ResourceTypeOK, HandlersTyped
  <2>. QED  BY <2>1, <2>2, <2>3, <2>4, Zenon DEF ResourceTypeOK
<1>6. UniqueIds' /\ RecordIds'
  BY <1>2, Zenon DEF ResourceInv, UniqueIds, RecordIds, RecordId
<1>7. OwnRows'
  <2>1. spoiled \subseteq spoiled'
    BY <1>2, Zenon
  <2>2. \A g \in Handlers : handler[g] # Idle => OwnRow(handler[g], spoiled')
    BY <2>1, OwnRowMonotone, Zenon DEF ResourceInv, OwnRows
  <2>. QED  BY <1>2, <2>2, Zenon DEF OwnRows
<1>8. AllServed'
  <2>. SUFFICES ASSUME NEW k \in Keys, k \notin spoiled'
                PROVE  Served(k, RowsOf(rows', k), want'[k], handler)
    BY <1>2, Zenon DEF AllServed
  <2>1. Served(k, RowsOf(rows, k), want[k], handler)
    BY <1>2, Zenon DEF ResourceInv, AllServed
  <2>2. CASE k # d
    <3>1. \A r \in deleted : KeyOf(r) # k
      BY <1>2, <2>2, Zenon
    <3>2. RowsOf(rows', k) = RowsOf(rows, k)
      BY <1>2, <3>1 DEF RowsOf
    <3>. QED  BY <1>4, <2>1, <2>2, <3>2, Zenon
  <2>3. CASE k = d
    <3>1. \A h \in Handlers : ~Busy(handler[h], k)
      BY <1>2, <2>3, Zenon DEF Updating, Busy
    <3>2. RowsOf(rows', k) = {}
      BY <1>2, <1>3, <2>3 DEF RowsOf
    <3>3. OneRow(RowsOf(rows', k)) /\ Holds(RowsOf(rows', k), want'[k])
      BY <1>4, <2>3, <3>2, Zenon DEF OneRow, Holds
    <3>. QED  BY <3>1, <3>3, Zenon DEF Served, OneUpdate
  <2>. QED  BY <2>2, <2>3, Zenon
<1>. QED  BY <1>5, <1>6, <1>7, <1>8, Zenon DEF ResourceInv

LEMMA ResourceInitInv == ResourceInit => ResourceInv
<1>. SUFFICES ASSUME ResourceInit PROVE ResourceInv
  OBVIOUS
<1>. DEFINE w == workload
<1>1. /\ w \in Workloads /\ rows = w.table /\ lastId = w.lastId
      /\ handler = [h \in Handlers |-> Idle] /\ spoiled = {}
      /\ want = [k \in Keys |-> IF RowsOf(rows, k) = {} THEN None ELSE First(RowsOf(rows, k)).attributes]
  BY DEF ResourceInit, RowsOf
<1>2. /\ w.lastId \in Nat
      /\ w.table \subseteq [id : Nat, workflow : Levels, type : Types, attributes : Attributes]
      /\ \A r \in w.table : r.id <= w.lastId /\ r.attributes.type = r.type
      /\ \A r, s \in w.table : r.id = s.id \/ (r.workflow = s.workflow /\ r.type = s.type) => r = s
  BY <1>1, WorkloadAssumption, Zenon
<1>. HIDE DEF w
<1>3. \A r \in rows : /\ RowTyped(r) /\ r.id \in Nat /\ r.id <= lastId
                      /\ r.attributes \in Attributes /\ r.attributes.type = r.type
  <2>. TAKE r \in rows
  <2>1. r \in [id : Nat, workflow : Levels, type : Types, attributes : Attributes]
    BY <1>1, <1>2, Zenon
  <2>2. r.id <= lastId /\ r.attributes.type = r.type
    BY <1>1, <1>2, Zenon
  <2>. QED  BY <2>1, <2>2 DEF RowTyped, TableRow
<1>4. \A r, s \in rows : r.id = s.id \/ KeyOf(r) = KeyOf(s) => r = s
  <2>1. \A r, s \in rows : KeyOf(r) = KeyOf(s) => r.workflow = s.workflow /\ r.type = s.type
    BY DEF KeyOf, Key
  <2>2. \A r, s \in rows : r.id = s.id \/ (r.workflow = s.workflow /\ r.type = s.type) => r = s
    BY <1>1, <1>2
  <2>. QED  BY <2>1, <2>2, Zenon
<1>5. \A h \in Handlers : handler[h] = Idle /\ handler[h].pc = "idle"
  BY <1>1 DEF Idle
<1>6. \A k \in Keys : want[k] = IF RowsOf(rows, k) = {} THEN None ELSE First(RowsOf(rows, k)).attributes
  BY <1>1
<1>7. \A k \in Keys : RowsOf(rows, k) # {} =>
          /\ First(RowsOf(rows, k)) \in RowsOf(rows, k)
          /\ First(RowsOf(rows, k)) \in rows /\ KeyOf(First(RowsOf(rows, k))) = k
  <2>1. \A k \in Keys : \A r \in RowsOf(rows, k) : r \in rows /\ KeyOf(r) = k /\ r.id \in Nat
    BY <1>3, Zenon DEF RowsOf
  <2>. QED  BY <2>1, FirstMatches, Zenon
<1>8. ResourceTypeOK
  <2>1. RowsTyped
    BY <1>1, <1>2, <1>3 DEF RowsTyped
  <2>2. HandlersTyped
    BY <1>1, <1>5 DEF HandlersTyped
  <2>3. \A k \in Keys : want[k] \in Attributes \cup {None} /\ (want[k] # None => want[k].type = k.type)
    <3>. TAKE k \in Keys
    <3>1. CASE RowsOf(rows, k) = {}
      BY <1>6, <3>1, Zenon
    <3>2. CASE RowsOf(rows, k) # {}
      <4>1. PICK r \in rows : KeyOf(r) = k /\ want[k] = r.attributes
        BY <1>6, <1>7, <3>2, Zenon
      <4>2. k.type = r.type
        BY <4>1 DEF KeyOf, Key
      <4>. QED  BY <1>3, <4>1, <4>2, Zenon
    <3>. QED  BY <3>1, <3>2, Zenon
  <2>4. want = [k \in Keys |-> want[k]]
    BY <1>1
  <2>5. WantTyped
    BY <2>3, <2>4 DEF WantTyped
  <2>6. IsLeft(w, w)
    BY Zenon DEF IsLeft
  <2>7. WorkloadTyped
    BY <1>1, <2>6, Zenon DEF WorkloadTyped, w
  <2>. QED  BY <2>1, <2>2, <2>5, <2>7, Zenon DEF ResourceTypeOK
<1>9. UniqueIds
  BY <1>3, <1>4, Zenon DEF UniqueIds
<1>10. RecordIds /\ OwnRows
  BY <1>5 DEF RecordIds, RecordId, OwnRows
<1>11. AllServed
  <2>. SUFFICES ASSUME NEW k \in Keys PROVE Served(k, RowsOf(rows, k), want[k], handler)
    BY Zenon DEF AllServed
  <2>1. OneRow(RowsOf(rows, k))
    BY <1>4, Zenon DEF OneRow, RowsOf
  <2>2. \A h \in Handlers : ~Busy(handler[h], k)
    BY <1>5, Zenon DEF Busy
  <2>3. Holds(RowsOf(rows, k), want[k])
    <3>1. CASE RowsOf(rows, k) = {}
      BY <1>6, <3>1, Zenon DEF Holds
    <3>2. CASE RowsOf(rows, k) # {}
      <4>1. PICK r \in RowsOf(rows, k) : want[k] = r.attributes /\ r \in rows
        BY <1>6, <1>7, <3>2, Zenon
      <4>2. want[k] # None
        BY <1>3, <4>1, AttributesFacts, Zenon
      <4>. QED  BY <4>1, <4>2, Zenon DEF Holds
    <3>. QED  BY <3>1, <3>2, Zenon
  <2>. QED  BY <2>1, <2>2, <2>3, Zenon DEF Served, OneUpdate
<1>. QED  BY <1>8, <1>9, <1>10, <1>11, Zenon DEF ResourceInv

LEMMA ResourceStep ==
    ASSUME ResourceInv, ResourceNext
    PROVE  ResourceInv'
<1>1. ASSUME NEW h \in Handlers, NEW u \in workload.updates, UpdateWorkflowAttributes(h, u)
      PROVE  ResourceInv'
  <2>. DEFINE m == WorkflowAttributesToResourceModel(u)
  <2>1. u.attributes.type \in Types /\ Serve(h, u, m)
    BY <1>1, Zenon DEF UpdateWorkflowAttributes, ValidateWorkflowAttributesUpdateRequest, validateMatchingAttributes
  <2>2. u.attributes \in Attributes /\ u.workflow \in Levels
    BY <2>1, UpdateRequested, Zenon DEF ResourceInv, ResourceTypeOK
  <2>3. ModelTyped(m) /\ m.attributes = u.attributes
    BY <2>1, <2>2 DEF ModelTyped, ToWrite, WorkflowAttributesToResourceModel
  <2>. QED  BY <2>1, <2>3, ServeKeeps, Zenon
<1>2. ASSUME NEW h \in Handlers, NEW u \in workload.updates, UpdateProjectDomainAttributes(h, u)
      PROVE  ResourceInv'
  <2>. DEFINE m == ProjectDomainAttributesToResourceModel(u)
  <2>1. u.attributes.type \in Types /\ Serve(h, u, m)
    BY <1>2, Zenon DEF UpdateProjectDomainAttributes, ValidateProjectDomainAttributesUpdateRequest,
                       validateMatchingAttributes
  <2>2. u.attributes \in Attributes
    BY <2>1, UpdateRequested, Zenon DEF ResourceInv, ResourceTypeOK
  <2>3. ModelTyped(m) /\ m.attributes = u.attributes
    BY <2>1, <2>2 DEF ModelTyped, ToWrite, ProjectDomainAttributesToResourceModel, Levels
  <2>. QED  BY <2>1, <2>3, ServeKeeps, Zenon
<1>3. ASSUME NEW h \in Handlers,
             \/ createOrMergeUpdateWorkflowAttributes(h)
             \/ createOrMergeUpdateProjectDomainAttributes(h)
      PROVE  ResourceInv'
  BY <1>3, MergeKeeps, Zenon DEF createOrMergeUpdateWorkflowAttributes, createOrMergeUpdateProjectDomainAttributes
<1>4. ASSUME NEW d \in workload.deletes, DeleteWorkflowAttributes(d) \/ DeleteProjectDomainAttributes(d)
      PROVE  ResourceInv'
  BY <1>4, DeleteKeeps, Zenon DEF DeleteWorkflowAttributes, DeleteProjectDomainAttributes
<1>. QED  BY <1>1, <1>2, <1>3, <1>4, FirstOrCreateKeeps, CreateKeeps, SaveKeeps, UpdateFailsKeeps, Zenon DEF ResourceNext

LEMMA ResourceStutter ==
    ASSUME ResourceInv, UNCHANGED <<rows, lastId, handler, want, spoiled, workload>>
    PROVE  ResourceInv'
<1>1. ResourceTypeOK'
  BY DEF ResourceInv, ResourceTypeOK, RowsTyped, HandlersTyped, WantTyped, WorkloadTyped
<1>2. UniqueIds' /\ RecordIds' /\ OwnRows' /\ AllServed'
  BY DEF ResourceInv, UniqueIds, RecordIds, OwnRows, AllServed
<1>. QED  BY <1>1, <1>2, Zenon DEF ResourceInv

-----------------------------------------------------------------------------
(* What is served.                                                         *)

\* The rows of a key that is quiet.
LEMMA QuietRows ==
    ASSUME ResourceInv, NEW k \in Keys, Quiet(k)
    PROVE  /\ want[k] \in Attributes \cup {None}
           /\ want[k] = None => RowsOf(rows, k) = {}
           /\ want[k] # None => \E r \in rows : RowsOf(rows, k) = {r} /\ r.attributes = want[k] /\ r.id \in Nat
<1>1. \A h \in Handlers : ~Busy(handler[h], k)
  BY Zenon DEF Quiet, Updating, Busy
<1>2. OneRow(RowsOf(rows, k)) /\ Holds(RowsOf(rows, k), want[k])
  BY <1>1, Zenon DEF ResourceInv, AllServed, Served, Quiet
<1>3. \A r \in rows : r.id \in Nat
  BY DEF ResourceInv, ResourceTypeOK, RowsTyped, RowTyped, TableRow
<1>4. want[k] \in Attributes \cup {None}
  BY DEF ResourceInv, ResourceTypeOK, WantTyped
<1>5. ASSUME want[k] # None
      PROVE  \E r \in rows : RowsOf(rows, k) = {r} /\ r.attributes = want[k] /\ r.id \in Nat
  <2>1. PICK r \in RowsOf(rows, k) : r.attributes = want[k]
    BY <1>2, <1>5, Zenon DEF Holds
  <2>2. RowsOf(rows, k) = {r}
    BY <1>2, <2>1 DEF OneRow
  <2>3. r \in rows
    BY <2>1, Zenon DEF RowsOf
  <2>. QED  BY <1>3, <2>1, <2>2, <2>3, Zenon
<1>. QED  BY <1>2, <1>4, <1>5, Zenon DEF Holds

\* A key's workflow and type tell its rows.
LEMMA RowsOfKey ==
    ASSUME NEW w, NEW t
    PROVE  RowsOf(rows, Key(w, t)) = {r \in rows : r.type = t /\ r.workflow = w}
  BY DEF RowsOf, KeyOf, Key

\* A lookup for the project and domain, or for the name of an execution, finds
\* the rows of the project and domain.
LEMMA SharedLookup ==
    ASSUME ResourceInv, NEW t \in Types, Quiet(Key(ProjectDomain, t)),
           NEW w, w = ProjectDomain \/ w \notin Levels
    PROVE  ResourceGet(w, t, "") = want[Key(ProjectDomain, t)]
<1>. DEFINE k == Key(ProjectDomain, t)
            found == {r \in rows : /\ validateCreateOrUpdateResourceInput(w, "")
                                   /\ r.type = t
                                   /\ r.workflow \in {ProjectDomain, w}}
            top == {r \in found : \A q \in found : Priority(r.workflow) >= Priority(q.workflow)}
<1>1. k \in Keys
  BY DEF Keys, Key, Levels
<1>2. found = RowsOf(rows, k)
  <2>1. \A r \in rows : r.workflow \in Levels
    BY DEF ResourceInv, ResourceTypeOK, RowsTyped, RowTyped, TableRow
  <2>2. \A r \in rows : r.workflow \in {ProjectDomain, w} <=> r.workflow = ProjectDomain
    BY <2>1, Zenon
  <2>. QED  BY <2>2, RowsOfKey DEF validateCreateOrUpdateResourceInput
<1>3. ResourceGet(w, t, "") = IF top = {} THEN None ELSE First(top).attributes
  BY Zenon DEF ResourceGet
<1>4. top = found
  <2>1. \A r \in found : r.workflow = ProjectDomain
    BY <1>2, RowsOfKey, Zenon
  <2>. HIDE DEF found
  <2>2. \A r, q \in found : Priority(r.workflow) >= Priority(q.workflow)
    BY <2>1 DEF Priority
  <2>. QED  BY <2>2
<1>. HIDE DEF found, top
<1>5. CASE want[k] = None
  BY <1>1, <1>2, <1>3, <1>4, <1>5, QuietRows, Zenon
<1>6. CASE want[k] # None
  <2>1. PICK r \in rows : RowsOf(rows, k) = {r} /\ r.attributes = want[k] /\ r.id \in Nat
    BY <1>1, <1>6, QuietRows, Zenon
  <2>2. First({r}) = r
    BY <2>1, FirstOfOne, Zenon
  <2>. QED  BY <1>2, <1>3, <1>4, <2>1, <2>2, Zenon
<1>. QED  BY <1>5, <1>6, Zenon

\* A lookup for a workflow finds its own row, or else the project and domain's.
LEMMA WorkflowLookup ==
    ASSUME ResourceInv, NEW w \in Workflows, NEW t \in Types, NEW launchPlan,
           Quiet(Key(w, t)), Quiet(Key(ProjectDomain, t))
    PROVE  ResourceGet(w, t, launchPlan) = Override(w, t)
<1>. DEFINE own == Key(w, t)
            shared == Key(ProjectDomain, t)
            found == {r \in rows : /\ validateCreateOrUpdateResourceInput(w, launchPlan)
                                   /\ r.type = t
                                   /\ r.workflow \in {ProjectDomain, w}}
            top == {r \in found : \A q \in found : Priority(r.workflow) >= Priority(q.workflow)}
<1>1. own \in Keys /\ shared \in Keys /\ w # ProjectDomain
  BY LevelAssumption DEF Keys, Key, Levels
<1>2. ResourceGet(w, t, launchPlan) = IF top = {} THEN None ELSE First(top).attributes
  BY Zenon DEF ResourceGet
<1>3. found = RowsOf(rows, own) \cup RowsOf(rows, shared)
  <2>1. /\ RowsOf(rows, own) = {r \in rows : r.type = t /\ r.workflow = w}
        /\ RowsOf(rows, shared) = {r \in rows : r.type = t /\ r.workflow = ProjectDomain}
    BY RowsOfKey, Zenon
  <2>2. found = {r \in rows : r.type = t /\ r.workflow \in {ProjectDomain, w}}
    BY <1>1, Zenon DEF validateCreateOrUpdateResourceInput
  <2>. HIDE DEF own, shared, found
  <2>. QED  BY <2>1, <2>2
<1>4. /\ \A r \in RowsOf(rows, own) : Priority(r.workflow) = 100
      /\ \A r \in RowsOf(rows, shared) : Priority(r.workflow) = 10
  BY <1>1, RowsOfKey DEF Priority
<1>. HIDE DEF found
<1>5. CASE want[own] # None
  <2>1. PICK r \in rows : RowsOf(rows, own) = {r} /\ r.attributes = want[own] /\ r.id \in Nat
    BY <1>1, <1>5, QuietRows, Zenon
  <2>2. r \in found /\ Priority(r.workflow) = 100
    BY <1>3, <1>4, <2>1
  <2>3. \A q \in found : q = r \/ Priority(q.workflow) = 10
    BY <1>3, <1>4, <2>1, Zenon
  <2>4. top = {r}
    BY <2>2, <2>3
  <2>5. First({r}) = r
    BY <2>1, FirstOfOne, Zenon
  <2>. HIDE DEF top
  <2>. QED  BY <1>2, <1>5, <2>1, <2>4, <2>5 DEF Override
<1>6. CASE want[own] = None /\ want[shared] # None
  <2>1. PICK r \in rows : RowsOf(rows, shared) = {r} /\ r.attributes = want[shared] /\ r.id \in Nat
    BY <1>1, <1>6, QuietRows, Zenon
  <2>2. found = {r}
    <3>1. RowsOf(rows, own) = {}
      BY <1>1, <1>6, QuietRows, Zenon
    <3>. QED  BY <1>3, <2>1, <3>1
  <2>3. Priority(r.workflow) = 10
    BY <1>4, <2>1
  <2>4. top = {r}
    BY <2>2, <2>3
  <2>5. First({r}) = r
    BY <2>1, FirstOfOne, Zenon
  <2>. HIDE DEF top
  <2>. QED  BY <1>2, <1>6, <2>1, <2>4, <2>5 DEF Override
<1>7. CASE want[own] = None /\ want[shared] = None
  <2>1. RowsOf(rows, own) = {} /\ RowsOf(rows, shared) = {}
    BY <1>1, <1>7, QuietRows, Zenon
  <2>2. top = {}
    BY <1>3, <2>1
  <2>. HIDE DEF top
  <2>. QED  BY <1>2, <1>7, <2>2, Zenon DEF Override
<1>. QED  BY <1>5, <1>6, <1>7, Zenon

\* The list of all has what is wanted of a quiet key, once.
ListedOnce(t, k) ==
    /\ {a \in ListAll(t) : a.workflow = k.workflow} =
          {[workflow |-> k.workflow, attributes |-> a] : a \in {want[k]} \ {None}}
    /\ AtMostOne({r \in rows : KeyOf(r) = k})

LEMMA QuietListed ==
    ASSUME ResourceInv, NEW t \in Types, NEW w \in Levels, Quiet(Key(w, t))
    PROVE  ListedOnce(t, Key(w, t))
<1>. DEFINE k == Key(w, t)
            listed == {a \in ListAll(t) : a.workflow = k.workflow}
<1>1. k \in Keys /\ k.workflow = w
  BY DEF Keys, Key
<1>2. ListAll(t) = {[workflow |-> r.workflow, attributes |-> r.attributes] : r \in {q \in rows : q.type = t}}
  BY DEF ListAll, RepoListAll, FromResourceModelToMatchableAttributes
<1>3. listed = {[workflow |-> w, attributes |-> r.attributes] : r \in RowsOf(rows, k)}
  <2>1. \A a \in ListAll(t) : a.workflow = w =>
           a \in {[workflow |-> w, attributes |-> r.attributes] : r \in RowsOf(rows, k)}
    <3>. SUFFICES ASSUME NEW a \in ListAll(t), a.workflow = w
                  PROVE  a \in {[workflow |-> w, attributes |-> r.attributes] : r \in RowsOf(rows, k)}
      BY Zenon
    <3>1. PICK r \in rows : r.type = t /\ a = [workflow |-> r.workflow, attributes |-> r.attributes]
      BY <1>2
    <3>2. r.workflow = w
      BY <3>1
    <3>3. r \in RowsOf(rows, k)
      BY <3>1, <3>2, RowsOfKey
    <3>. QED  BY <3>1, <3>2, <3>3, Zenon
  <2>2. ASSUME NEW r \in RowsOf(rows, k)
        PROVE  [workflow |-> w, attributes |-> r.attributes] \in listed
    <3>1. r \in rows /\ r.type = t /\ r.workflow = w
      BY RowsOfKey
    <3>2. [workflow |-> w, attributes |-> r.attributes] \in ListAll(t)
      BY <1>2, <3>1
    <3>. QED  BY <1>1, <3>2
  <2>. QED  BY <1>1, <2>1, <2>2, Zenon
<1>4. {r \in rows : KeyOf(r) = k} = RowsOf(rows, k)
  BY Zenon DEF RowsOf
<1>. HIDE DEF listed
<1>5. CASE want[k] = None
  <2>1. RowsOf(rows, k) = {}
    BY <1>1, <1>5, QuietRows, Zenon
  <2>2. listed = {[workflow |-> k.workflow, attributes |-> a] : a \in {want[k]} \ {None}}
    BY <1>3, <1>5, <2>1
  <2>3. AtMostOne(RowsOf(rows, k))
    BY <2>1, Zenon DEF AtMostOne
  <2>. QED  BY <1>4, <2>2, <2>3, Zenon DEF listed, ListedOnce
<1>6. CASE want[k] # None
  <2>1. PICK r \in rows : RowsOf(rows, k) = {r} /\ r.attributes = want[k]
    BY <1>1, <1>6, QuietRows, Zenon
  <2>2. listed = {[workflow |-> k.workflow, attributes |-> a] : a \in {want[k]} \ {None}}
    BY <1>1, <1>3, <1>6, <2>1
  <2>3. AtMostOne(RowsOf(rows, k))
    BY <2>1 DEF AtMostOne
  <2>. QED  BY <1>4, <2>2, <2>3, Zenon DEF listed, ListedOnce
<1>. QED  BY <1>5, <1>6, Zenon

\* So what was acknowledged is what is served.
LEMMA ServedIsAcknowledged == ResourceInv => AcknowledgedIsServed
<1>. SUFFICES ASSUME ResourceInv, NEW w \in Workflows, NEW t \in Types
              PROVE  /\ Quiet(Key(ProjectDomain, t)) => GetProjectDomainAttributes(t) = want[Key(ProjectDomain, t)]
                     /\ Quiet(Key(w, t)) /\ Quiet(Key(ProjectDomain, t)) =>
                           GetWorkflowAttributes(w, t) = Override(w, t)
                     /\ \A k \in {Key(w, t), Key(ProjectDomain, t)} : Quiet(k) => ListedOnce(t, k)
  BY Zenon DEF AcknowledgedIsServed, ListedOnce
<1>1. w \in Levels /\ ProjectDomain \in Levels /\ w # ProjectDomain
  BY LevelAssumption DEF Levels
<1>2. Quiet(Key(ProjectDomain, t)) => GetProjectDomainAttributes(t) = want[Key(ProjectDomain, t)]
  BY SharedLookup, Zenon DEF GetProjectDomainAttributes
<1>3. Quiet(Key(w, t)) /\ Quiet(Key(ProjectDomain, t)) => GetWorkflowAttributes(w, t) = Override(w, t)
  BY <1>1, WorkflowLookup, Zenon DEF GetWorkflowAttributes
<1>4. \A k \in {Key(w, t), Key(ProjectDomain, t)} : Quiet(k) => ListedOnce(t, k)
  BY <1>1, QuietListed, Zenon
<1>. QED  BY <1>2, <1>3, <1>4, Zenon

=============================================================================
