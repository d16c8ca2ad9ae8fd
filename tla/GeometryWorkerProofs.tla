------------------------ MODULE GeometryWorkerProofs ------------------------
(***************************************************************************)
(* Theorems about the geometry worker, for every set of parts, meshes,      *)
(* requests, documents and every value of the bounds.                       *)
(***************************************************************************)
EXTENDS GeometryWorker, SequenceTheorems, TLAPS

-----------------------------------------------------------------------------
(* What the operations of the worker's stores return, whatever is in them,  *)
(* comes first: maps, then each store.                                      *)

(* `set` adds or replaces one entry. *)
LEMMA PutDef ==
    ASSUME NEW map, NEW k, NEW v
    PROVE  /\ DOMAIN Put(map, k, v) = DOMAIN map \cup {k}
           /\ Put(map, k, v)[k] = v
           /\ \A x \in DOMAIN map : x # k => Put(map, k, v)[x] = map[x]
BY DEF Put

(* `delete` removes one entry. *)
LEMMA RemoveDef ==
    ASSUME NEW map, NEW k
    PROVE  /\ DOMAIN Remove(map, k) = DOMAIN map \ {k}
           /\ \A x \in DOMAIN map : x # k => Remove(map, k)[x] = map[x]
BY DEF Remove, Restrict

LEMMA NoEntriesType ==
    ASSUME NEW K, NEW V
    PROVE  IsMap(NoEntries, K, V) /\ DOMAIN NoEntries = {}
BY DEF IsMap, NoEntries

LEMMA PutType ==
    ASSUME NEW K, NEW V, NEW map, IsMap(map, K, V), NEW k \in K, NEW v \in V
    PROVE  IsMap(Put(map, k, v), K, V)
BY DEF IsMap, Put

LEMMA RemoveType ==
    ASSUME NEW K, NEW V, NEW map, IsMap(map, K, V), NEW k
    PROVE  IsMap(Remove(map, k), K, V)
BY DEF IsMap, Remove, Restrict

LEMMA LookupType ==
    ASSUME NEW K, NEW V, NEW map, IsMap(map, K, V), NEW k \in DOMAIN map
    PROVE  k \in K /\ map[k] \in V
BY DEF IsMap
-----------------------------------------------------------------------------
(* Candidate stores *)

CandidateStoreInv(store, tags) ==
    /\ IsCandidateStore(store, tags)
    /\ LiveIsActive(store)
    /\ \A id \in DOMAIN store.entries : id < store.nextId

(* What is live after an operation was live before it, and is unchanged. *)
KeepsLive(after, before) ==
    \A id \in DOMAIN after.entries :
        IsLive(after, id) => IsLive(before, id) /\ after.entries[id] = before.entries[id]

LEMMA EmptyStoreInv ==
    ASSUME NEW tags
    PROVE  CandidateStoreInv(EmptyStore, tags) /\ DOMAIN EmptyStore.entries = {}
BY NoEntriesType DEF CandidateStoreInv, EmptyStore, IsCandidateStore, LiveIsActive

(* Settling the live candidate keeps the store well formed. *)
LEMMA SettleInv ==
    ASSUME NEW tags, NEW store, CandidateStoreInv(store, tags),
           NEW id, IsLive(store, id), NEW state \in {"committed", "discarded"}
    PROVE  /\ CandidateStoreInv(Settle(store, id, state), tags)
           /\ KeepsLive(Settle(store, id, state), store)
           /\ store.entries[id].documentId \notin DOMAIN Settle(store, id, state).active
           /\ Settle(store, id, state).nextId = store.nextId
<1> DEFINE entry   == store.entries[id]
           settled == [entry EXCEPT !.state = state, !.mesh = NoMesh, !.base = NoMesh]
           d       == entry.documentId
           after   == Settle(store, id, state)
<1>1. /\ id \in DOMAIN store.entries
      /\ id \in Nat
      /\ entry = store.entries[id]
      /\ d = entry.documentId
      /\ entry \in CandidateEntry(tags)
      /\ entry.state = "resolved"
  BY LookupType DEF CandidateStoreInv, IsCandidateStore, IsLive
<1>2. /\ settled \in CandidateEntry(tags)
      /\ settled.documentId = d
      /\ settled.state = state
      /\ settled.mesh = NoMesh
  BY <1>1 DEF CandidateEntry
<1>3. /\ DOMAIN after = {"entries", "active", "nextId"}
      /\ after.entries = Put(store.entries, id, settled)
      /\ after.active = Remove(store.active, d)
      /\ after.nextId = store.nextId
      /\ after = Settle(store, id, state)
  BY DEF Settle, CandidateStoreInv, IsCandidateStore
<1> HIDE DEF entry, settled, d, after
<1>4. IsCandidateStore(after, tags)
  <2>1. IsMap(after.entries, Nat, CandidateEntry(tags))
    BY <1>1, <1>2, <1>3, PutType, SMTT(20) DEF CandidateStoreInv, IsCandidateStore
  <2>2. IsMap(after.active, DocumentIds, Nat)
    BY <1>3, RemoveType DEF CandidateStoreInv, IsCandidateStore
  <2> QED
    BY <1>3, <2>1, <2>2 DEF CandidateStoreInv, IsCandidateStore
<1>5. /\ DOMAIN after.entries = DOMAIN store.entries
      /\ after.entries[id] = settled
      /\ \A i \in DOMAIN store.entries : i # id => after.entries[i] = store.entries[i]
  BY <1>1, <1>3 DEF Put
<1>6. /\ DOMAIN after.active = DOMAIN store.active \ {d}
      /\ \A x \in DOMAIN store.active : x # d => after.active[x] = store.active[x]
  BY <1>3 DEF Remove, Restrict
<1>7. d \in DOMAIN store.active /\ store.active[d] = id
  BY <1>1 DEF CandidateStoreInv, LiveIsActive
<1>8. LiveIsActive(after)
  <2>1. ASSUME NEW i \in DOMAIN after.entries, i # id
        PROVE  /\ after.entries[i].state = "resolved" <=>
                    /\ after.entries[i].documentId \in DOMAIN after.active
                    /\ after.active[after.entries[i].documentId] = i
               /\ after.entries[i].state = "resolved" <=> after.entries[i].mesh # NoMesh
    BY <1>5, <1>6, <1>7, <2>1 DEF CandidateStoreInv, LiveIsActive
  <2>2. /\ after.entries[id].state # "resolved"
        /\ after.entries[id].documentId \notin DOMAIN after.active
        /\ after.entries[id].mesh = NoMesh
    BY <1>2, <1>5, <1>6
  <2>3. ASSUME NEW x \in DOMAIN after.active
        PROVE  /\ IsLive(after, after.active[x])
               /\ after.entries[after.active[x]].documentId = x
    <3>1. /\ x # d
          /\ x \in DOMAIN store.active
          /\ after.active[x] = store.active[x]
          /\ IsLive(store, store.active[x])
          /\ store.entries[store.active[x]].documentId = x
      BY <1>6 DEF CandidateStoreInv, LiveIsActive
    <3>2. store.active[x] # id
      BY <1>1, <3>1
    <3> QED
      BY <1>5, <3>1, <3>2 DEF IsLive
  <2> QED
    BY <2>1, <2>2, <2>3 DEF LiveIsActive
<1>9. \A i \in DOMAIN after.entries : i < after.nextId
  BY <1>3, <1>5 DEF CandidateStoreInv
<1>10. KeepsLive(after, store)
  BY <1>2, <1>5 DEF KeepsLive, IsLive
<1> QED
  BY <1>1, <1>3, <1>4, <1>6, <1>8, <1>9, <1>10 DEF CandidateStoreInv

(* discard: of a live candidate or of nothing. *)
LEMMA DiscardInv ==
    ASSUME NEW tags, NEW store, CandidateStoreInv(store, tags), NEW id
    PROVE  /\ CandidateStoreInv(Discard(store, id), tags)
           /\ KeepsLive(Discard(store, id), store)
           /\ Discard(store, id).nextId = store.nextId
<1>1. CASE IsLive(store, id)
  BY <1>1, SettleInv DEF Discard
<1>2. CASE ~IsLive(store, id)
  BY <1>2 DEF Discard, KeepsLive
<1> QED
  BY <1>1, <1>2

(* markCommitted, which a handler calls for the candidate it just checked. *)
LEMMA MarkCommittedInv ==
    ASSUME NEW tags, NEW store, CandidateStoreInv(store, tags), NEW id, IsLive(store, id)
    PROVE  /\ CandidateStoreInv(MarkCommitted(store, id), tags)
           /\ KeepsLive(MarkCommitted(store, id), store)
BY SettleInv DEF MarkCommitted, IsLive

(* releaseDocument leaves no live candidate of the document. *)
LEMMA ReleaseCandidateInv ==
    ASSUME NEW tags, NEW store, CandidateStoreInv(store, tags), NEW d
    PROVE  /\ CandidateStoreInv(ReleaseCandidate(store, d), tags)
           /\ KeepsLive(ReleaseCandidate(store, d), store)
           /\ d \notin DOMAIN ReleaseCandidate(store, d).active
           /\ ReleaseCandidate(store, d).nextId = store.nextId
<1>1. CASE d \in DOMAIN store.active
  <2>1. /\ IsLive(store, store.active[d])
        /\ store.entries[store.active[d]].documentId = d
    BY <1>1 DEF CandidateStoreInv, LiveIsActive
  <2>2. ReleaseCandidate(store, d) = Settle(store, store.active[d], "discarded")
    BY <1>1, <2>1 DEF ReleaseCandidate, Discard
  <2> QED
    BY <2>1, <2>2, SettleInv
<1>2. CASE d \notin DOMAIN store.active
  BY <1>2 DEF ReleaseCandidate, KeepsLive
<1> QED
  BY <1>1, <1>2

(* create: the one candidate that is live and was not is the new one. *)
LEMMA CreateCandidateInv ==
    ASSUME NEW tags, NEW store, CandidateStoreInv(store, tags),
           NEW source \in [documentId : DocumentIds, revision : Revisions],
           NEW p \in PartIds, NEW tag \in tags, NEW base \in Meshes, NEW mesh \in Meshes
    PROVE  LET after == CreateCandidate(store, source, p, tag, base, mesh) IN
           /\ CandidateStoreInv(after, tags)
           /\ \A id \in DOMAIN after.entries :
                IsLive(after, id) =>
                  \/ IsLive(store, id) /\ after.entries[id] = store.entries[id]
                  \/ /\ after.entries[id].documentId = source.documentId
                     /\ after.entries[id].revision = source.revision
                     /\ after.entries[id].partId = p
                     /\ after.entries[id].base = base
<1> DEFINE cleared == ReleaseCandidate(store, source.documentId)
           id      == cleared.nextId
           d       == source.documentId
           entry   == [documentId |-> source.documentId, revision |-> source.revision,
                       partId |-> p, tag |-> tag, base |-> base, mesh |-> mesh,
                       state |-> "resolved"]
           after   == CreateCandidate(store, source, p, tag, base, mesh)
<1>1. /\ CandidateStoreInv(cleared, tags)
      /\ KeepsLive(cleared, store)
      /\ d \notin DOMAIN cleared.active
  BY ReleaseCandidateInv
<1>2. /\ entry \in CandidateEntry(tags)
      /\ entry.documentId = d /\ entry.revision = source.revision
      /\ entry.partId = p /\ entry.base = base /\ entry.mesh = mesh
      /\ entry.state = "resolved" /\ entry.mesh # NoMesh
      /\ d \in DocumentIds
  BY NoMeshAssumption DEF CandidateEntry
<1>3. /\ DOMAIN after = {"entries", "active", "nextId"}
      /\ after.entries = Put(cleared.entries, id, entry)
      /\ after.active = Put(cleared.active, d, id)
      /\ after.nextId = id + 1
      /\ id = cleared.nextId
      /\ after = CreateCandidate(store, source, p, tag, base, mesh)
  BY DEF CreateCandidate
<1> HIDE DEF cleared, id, entry, after
<1>4. id \in Nat /\ id \notin DOMAIN cleared.entries
  <2>1. id \in Nat
    BY <1>1, <1>3 DEF CandidateStoreInv, IsCandidateStore
  <2>2. CASE id \in DOMAIN cleared.entries
    BY <1>1, <1>3, <2>1, <2>2 DEF CandidateStoreInv
  <2> QED
    BY <2>1, <2>2
<1>5. IsCandidateStore(after, tags)
  <2>1. IsMap(after.entries, Nat, CandidateEntry(tags))
    BY <1>1, <1>2, <1>3, <1>4, PutType DEF CandidateStoreInv, IsCandidateStore
  <2>2. IsMap(after.active, DocumentIds, Nat)
    BY <1>1, <1>2, <1>3, <1>4, PutType DEF CandidateStoreInv, IsCandidateStore
  <2> QED
    BY <1>3, <1>4, <2>1, <2>2 DEF IsCandidateStore
<1>6. /\ DOMAIN after.entries = DOMAIN cleared.entries \cup {id}
      /\ after.entries[id] = entry
      /\ \A i \in DOMAIN cleared.entries : i # id => after.entries[i] = cleared.entries[i]
  BY <1>3 DEF Put
<1>7. /\ DOMAIN after.active = DOMAIN cleared.active \cup {d}
      /\ after.active[d] = id
      /\ \A x \in DOMAIN cleared.active : x # d => after.active[x] = cleared.active[x]
  BY <1>3 DEF Put
<1>8. LiveIsActive(after)
  <2>1. ASSUME NEW i \in DOMAIN cleared.entries
        PROVE  /\ after.entries[i].state = "resolved" <=>
                    /\ after.entries[i].documentId \in DOMAIN after.active
                    /\ after.active[after.entries[i].documentId] = i
               /\ after.entries[i].state = "resolved" <=> after.entries[i].mesh # NoMesh
    <3>1. i # id /\ after.entries[i] = cleared.entries[i]
      BY <1>4, <1>6, <2>1
    <3>2. CASE cleared.entries[i].documentId = d
      BY <1>1, <1>7, <3>1, <3>2 DEF CandidateStoreInv, LiveIsActive
    <3>3. CASE cleared.entries[i].documentId # d
      BY <1>1, <1>7, <3>1, <3>3 DEF CandidateStoreInv, LiveIsActive
    <3> QED
      BY <3>2, <3>3
  <2>2. ASSUME NEW x \in DOMAIN cleared.active
        PROVE  /\ IsLive(after, after.active[x])
               /\ after.entries[after.active[x]].documentId = x
    <3>1. /\ x # d
          /\ after.active[x] = cleared.active[x]
          /\ IsLive(cleared, cleared.active[x])
          /\ cleared.entries[cleared.active[x]].documentId = x
      BY <1>1, <1>7, <2>2 DEF CandidateStoreInv, LiveIsActive
    <3> QED
      BY <1>4, <1>6, <3>1 DEF IsLive
  <2>3. IsLive(after, after.active[d]) /\ after.entries[after.active[d]].documentId = d
    BY <1>2, <1>6, <1>7 DEF IsLive
  <2>4. /\ after.entries[id].state = "resolved"
        /\ after.entries[id].documentId \in DOMAIN after.active
        /\ after.active[after.entries[id].documentId] = id
        /\ after.entries[id].mesh # NoMesh
    BY <1>2, <1>6, <1>7
  <2> QED
    BY <1>6, <1>7, <2>1, <2>2, <2>3, <2>4 DEF LiveIsActive
<1>9. \A i \in DOMAIN after.entries : i < after.nextId
  <2>1. \A i \in DOMAIN cleared.entries : i \in Nat /\ i < id
    BY <1>1, <1>3 DEF CandidateStoreInv, IsCandidateStore, IsMap
  <2> QED
    BY <1>3, <1>4, <1>6, <2>1
<1>10. ASSUME NEW i \in DOMAIN after.entries, IsLive(after, i)
       PROVE  \/ IsLive(store, i) /\ after.entries[i] = store.entries[i]
              \/ /\ after.entries[i].documentId = source.documentId
                 /\ after.entries[i].revision = source.revision
                 /\ after.entries[i].partId = p
                 /\ after.entries[i].base = base
  <2>1. CASE i = id
    BY <1>2, <1>6, <2>1
  <2>2. CASE i # id
    BY <1>1, <1>6, <1>10, <2>2 DEF KeepsLive, IsLive
  <2> QED
    BY <2>1, <2>2
<1> QED
  BY <1>3, <1>5, <1>8, <1>9, <1>10 DEF CandidateStoreInv
-----------------------------------------------------------------------------
(* Texture and split candidates *)

(* Every candidate left was there before, and is the same. *)
KeepsCandidates(after, before) ==
    \A id \in DOMAIN after.candidates :
        /\ id \in DOMAIN before.candidates
        /\ after.candidates[id] = before.candidates[id]

LEMMA NoEditsType == IsEditStore(NoEdits) /\ DOMAIN NoEdits.candidates = {}
BY NoEntriesType DEF IsEditStore, IsEditCandidateStore, NoEdits

LEMMA NoSplitsType == IsSplitStore(NoSplits) /\ DOMAIN NoSplits.candidates = {}
BY NoEntriesType DEF IsSplitStore, IsEditCandidateStore, NoSplits

(* discardById, of either store. *)
LEMMA DropCandidateType ==
    ASSUME NEW results, NEW store, IsEditCandidateStore(store, results),
           {"candidates", "active", "nextId"} \subseteq DOMAIN store, NEW id
    PROVE  LET after == DropCandidate(store, id) IN
           /\ IsEditCandidateStore(after, results)
           /\ KeepsCandidates(after, store)
           /\ DOMAIN after = DOMAIN store
           /\ "current" \in DOMAIN store => after.current = store.current
<1> DEFINE after == DropCandidate(store, id)
           d     == store.candidates[id].ticket.documentId
<1>1. CASE id \notin DOMAIN store.candidates
  BY <1>1 DEF DropCandidate, KeepsCandidates
<1>2. CASE id \in DOMAIN store.candidates
  <2>1. /\ DOMAIN after = DOMAIN store
        /\ after.candidates = Remove(store.candidates, id)
        /\ \/ after.active = store.active
           \/ after.active = Remove(store.active, d)
        /\ after.nextId = store.nextId
        /\ "current" \in DOMAIN store => after.current = store.current
    BY <1>2 DEF DropCandidate
  <2> HIDE DEF after, d
  <2>2. IsMap(after.candidates, Nat, [ticket : EditTickets, base : Meshes, result : results])
    BY <2>1, RemoveType DEF IsEditCandidateStore
  <2>3. IsMap(after.active, DocumentIds, Nat)
    BY <2>1, RemoveType DEF IsEditCandidateStore
  <2>4. KeepsCandidates(after, store)
    BY <2>1 DEF KeepsCandidates, Remove, Restrict
  <2>5. IsEditCandidateStore(after, results)
    BY <2>1, <2>2, <2>3 DEF IsEditCandidateStore
  <2> QED
    BY <2>1, <2>4, <2>5 DEF after
<1> QED
  BY <1>1, <1>2

LEMMA DropActiveType ==
    ASSUME NEW results, NEW store, IsEditCandidateStore(store, results),
           {"candidates", "active", "nextId"} \subseteq DOMAIN store, NEW d
    PROVE  LET after == DropActive(store, d) IN
           /\ IsEditCandidateStore(after, results)
           /\ KeepsCandidates(after, store)
           /\ DOMAIN after = DOMAIN store
           /\ "current" \in DOMAIN store => after.current = store.current
<1>1. CASE d \in DOMAIN store.active
  BY <1>1, DropCandidateType DEF DropActive
<1>2. CASE d \notin DOMAIN store.active
  BY <1>2 DEF DropActive, KeepsCandidates
<1> QED
  BY <1>1, <1>2

(* commit's two deletions. *)
LEMMA ConsumeCandidateType ==
    ASSUME NEW results, NEW store, IsEditCandidateStore(store, results),
           {"candidates", "active", "nextId"} \subseteq DOMAIN store, NEW id
    PROVE  LET after == ConsumeCandidate(store, id) IN
           /\ IsEditCandidateStore(after, results)
           /\ KeepsCandidates(after, store)
           /\ DOMAIN after = DOMAIN store
           /\ "current" \in DOMAIN store => after.current = store.current
<1> DEFINE after == ConsumeCandidate(store, id)
           d     == store.candidates[id].ticket.documentId
<1>1. /\ DOMAIN after = DOMAIN store
      /\ after.candidates = Remove(store.candidates, id)
      /\ after.active = Remove(store.active, d)
      /\ after.nextId = store.nextId
      /\ "current" \in DOMAIN store => after.current = store.current
  BY DEF ConsumeCandidate
<1> HIDE DEF after, d
<1>2. IsMap(after.candidates, Nat, [ticket : EditTickets, base : Meshes, result : results])
  BY <1>1, RemoveType DEF IsEditCandidateStore
<1>3. IsMap(after.active, DocumentIds, Nat)
  BY <1>1, RemoveType DEF IsEditCandidateStore
<1>4. KeepsCandidates(after, store)
  BY <1>1 DEF KeepsCandidates, Remove, Restrict
<1>5. IsEditCandidateStore(after, results)
  BY <1>1, <1>2, <1>3 DEF IsEditCandidateStore
<1> QED
  BY <1>1, <1>4, <1>5 DEF after

(* resolve adds one candidate, computed from `base`. *)
LEMMA AddCandidateType ==
    ASSUME NEW results, NEW store, IsEditCandidateStore(store, results),
           {"candidates", "active", "nextId"} \subseteq DOMAIN store,
           NEW ticket \in EditTickets, NEW base \in Meshes, NEW result \in results
    PROVE  /\ IsEditCandidateStore(AddCandidate(store, ticket, base, result), results)
           /\ DOMAIN AddCandidate(store, ticket, base, result) = DOMAIN store
           /\ "current" \in DOMAIN store =>
                AddCandidate(store, ticket, base, result).current = store.current
<1> DEFINE after == AddCandidate(store, ticket, base, result)
           added == [ticket |-> ticket, base |-> base, result |-> result]
           d     == ticket.documentId
           id    == store.nextId
           kinds == [ticket : EditTickets, base : Meshes, result : results]
<1>1. /\ DOMAIN after = DOMAIN store
      /\ after.candidates = Put(store.candidates, id, added)
      /\ after.active = Put(store.active, d, id)
      /\ after.nextId = id + 1
      /\ "current" \in DOMAIN store => after.current = store.current
  BY DEF AddCandidate
<1>2. /\ added \in kinds
      /\ IsMap(store.candidates, Nat, kinds)
      /\ d \in DocumentIds
      /\ id \in Nat
  BY DEF EditTickets, IsEditCandidateStore
<1> HIDE DEF after, added, d, id, kinds
<1>3. IsMap(after.candidates, Nat, kinds)
  BY <1>1, <1>2, PutType
<1>4. IsMap(after.active, DocumentIds, Nat)
  BY <1>1, <1>2, PutType DEF IsEditCandidateStore
<1>5. IsEditCandidateStore(after, results)
  BY <1>1, <1>2, <1>3, <1>4 DEF IsEditCandidateStore, kinds
<1> QED
  BY <1>1, <1>5 DEF after

(* begin, invalidate and releaseDocument of the edit store. *)
LEMMA EditStoreType ==
    ASSUME NEW edits, IsEditStore(edits)
    PROVE  /\ IsEditCandidateStore(edits, Meshes)
           /\ {"candidates", "active", "nextId"} \subseteq DOMAIN edits
           /\ "current" \in DOMAIN edits
           /\ \A d : Generation(edits, d) \in Nat
BY LookupType DEF IsEditStore, Generation

(* The same, of the edit store. *)
LEMMA AddEditType ==
    ASSUME NEW edits, IsEditStore(edits),
           NEW ticket \in EditTickets, NEW base \in Meshes, NEW mesh \in Meshes
    PROVE  IsEditStore(AddCandidate(edits, ticket, base, mesh))
<1> DEFINE added == AddCandidate(edits, ticket, base, mesh)
<1>1. /\ IsEditCandidateStore(edits, Meshes)
      /\ {"candidates", "active", "nextId"} \subseteq DOMAIN edits
      /\ "current" \in DOMAIN edits
  BY EditStoreType
<1>2. /\ IsEditCandidateStore(added, Meshes)
      /\ DOMAIN added = DOMAIN edits
      /\ added.current = edits.current
  BY <1>1, AddCandidateType
<1> QED
  BY <1>2 DEF IsEditStore

LEMMA BeginEditType ==
    ASSUME NEW edits, IsEditStore(edits), NEW d \in DocumentIds
    PROVE  IsEditStore(BeginEdit(edits, d)) /\ KeepsCandidates(BeginEdit(edits, d), edits)
<1> DEFINE dropped == DropActive(edits, d)
           after   == BeginEdit(edits, d)
<1>1. /\ IsEditCandidateStore(dropped, Meshes)
      /\ KeepsCandidates(dropped, edits)
      /\ DOMAIN dropped = DOMAIN edits
      /\ dropped.current = edits.current
  BY EditStoreType, DropActiveType
<1>2. /\ DOMAIN after = DOMAIN dropped
      /\ after.candidates = dropped.candidates
      /\ after.active = dropped.active
      /\ after.nextId = dropped.nextId
      /\ after.current = Put(dropped.current, d, Generation(edits, d) + 1)
  BY <1>1 DEF BeginEdit, IsEditStore
<1> HIDE DEF dropped, after
<1>3. IsMap(after.current, DocumentIds, Nat)
  BY <1>1, <1>2, EditStoreType, PutType DEF IsEditStore
<1>4. IsEditStore(after)
  BY <1>1, <1>2, <1>3 DEF IsEditStore, IsEditCandidateStore
<1>5. KeepsCandidates(after, edits)
  BY <1>1, <1>2 DEF KeepsCandidates
<1> QED
  BY <1>4, <1>5 DEF after

LEMMA InvalidateType ==
    ASSUME NEW edits, IsEditStore(edits), NEW ticket \in EditTickets
    PROVE  /\ IsEditStore(Invalidate(edits, ticket))
           /\ KeepsCandidates(Invalidate(edits, ticket), edits)
<1>1. CASE ~IsLatest(edits, ticket)
  BY <1>1 DEF Invalidate, KeepsCandidates
<1>2. CASE IsLatest(edits, ticket)
  <2> DEFINE d       == ticket.documentId
             dropped == DropActive(edits, d)
             after   == Invalidate(edits, ticket)
  <2>1. /\ IsEditCandidateStore(dropped, Meshes)
        /\ KeepsCandidates(dropped, edits)
        /\ DOMAIN dropped = DOMAIN edits
        /\ dropped.current = edits.current
    BY EditStoreType, DropActiveType
  <2>2. /\ DOMAIN after = DOMAIN dropped
        /\ after.candidates = dropped.candidates
        /\ after.active = dropped.active
        /\ after.nextId = dropped.nextId
        /\ after.current = Put(dropped.current, d, ticket.generation + 1)
    BY <1>2, <2>1 DEF Invalidate, IsEditStore
  <2>3. d \in DocumentIds /\ ticket.generation + 1 \in Nat
    BY DEF EditTickets
  <2> HIDE DEF d, dropped, after
  <2>4. IsMap(after.current, DocumentIds, Nat)
    BY <2>1, <2>2, <2>3, PutType DEF IsEditStore
  <2>5. IsEditStore(after)
    BY <2>1, <2>2, <2>4 DEF IsEditStore, IsEditCandidateStore
  <2>6. KeepsCandidates(after, edits)
    BY <2>1, <2>2 DEF KeepsCandidates
  <2> QED
    BY <2>5, <2>6 DEF after
<1> QED
  BY <1>1, <1>2

LEMMA ReleaseEditsType ==
    ASSUME NEW edits, IsEditStore(edits), NEW d
    PROVE  IsEditStore(ReleaseEdits(edits, d)) /\ KeepsCandidates(ReleaseEdits(edits, d), edits)
<1> DEFINE dropped == DropActive(edits, d)
           after   == ReleaseEdits(edits, d)
<1>1. /\ IsEditCandidateStore(dropped, Meshes)
      /\ KeepsCandidates(dropped, edits)
      /\ DOMAIN dropped = DOMAIN edits
      /\ dropped.current = edits.current
  BY EditStoreType, DropActiveType
<1>2. /\ DOMAIN after = DOMAIN dropped
      /\ after.candidates = dropped.candidates
      /\ after.active = dropped.active
      /\ after.nextId = dropped.nextId
      /\ after.current = Remove(dropped.current, d)
  BY <1>1 DEF ReleaseEdits, IsEditStore
<1> HIDE DEF dropped, after
<1>3. IsMap(after.current, DocumentIds, Nat)
  BY <1>1, <1>2, RemoveType DEF IsEditStore
<1>4. IsEditStore(after)
  BY <1>1, <1>2, <1>3 DEF IsEditStore, IsEditCandidateStore
<1>5. KeepsCandidates(after, edits)
  BY <1>1, <1>2 DEF KeepsCandidates
<1> QED
  BY <1>4, <1>5 DEF after

(* The split store, whose operations all come down to DropActive. *)
LEMMA SplitStoreType ==
    ASSUME NEW splits
    PROVE  IsSplitStore(splits) <=>
             /\ IsEditCandidateStore(splits, DocumentParts)
             /\ DOMAIN splits = {"candidates", "active", "nextId"}
BY DEF IsSplitStore

(* A split's candidate holds the parts its source is replaced by. *)
LEMMA AddSplitType ==
    ASSUME NEW splits, IsSplitStore(splits),
           NEW ticket \in EditTickets, NEW base \in Meshes, NEW parts \in DocumentParts
    PROVE  IsSplitStore(AddCandidate(splits, ticket, base, parts))
<1> DEFINE added == AddCandidate(splits, ticket, base, parts)
<1>1. /\ IsEditCandidateStore(splits, DocumentParts)
      /\ DOMAIN splits = {"candidates", "active", "nextId"}
  BY SplitStoreType
<1>2. /\ IsEditCandidateStore(added, DocumentParts)
      /\ DOMAIN added = DOMAIN splits
  BY <1>1, AddCandidateType
<1> QED
  BY <1>1, <1>2 DEF IsSplitStore

LEMMA DropFailedSplitType ==
    ASSUME NEW splits, IsSplitStore(splits), NEW ticket
    PROVE  /\ IsSplitStore(DropFailedSplit(splits, ticket))
           /\ KeepsCandidates(DropFailedSplit(splits, ticket), splits)
<1>1. /\ IsSplitStore(DropActive(splits, ticket.documentId))
      /\ KeepsCandidates(DropActive(splits, ticket.documentId), splits)
  BY SplitStoreType, DropActiveType
<1>2. KeepsCandidates(splits, splits)
  BY DEF KeepsCandidates
<1> QED
  BY <1>1, <1>2 DEF DropFailedSplit
-----------------------------------------------------------------------------
(* Repair history *)

(* A document's pointer names a record of its own that can be undone, and   *)
(* only such a record holds an inverse.                                     *)
HistoryInv(history) ==
    /\ IsHistory(history)
    /\ \A d \in DOMAIN history.undoable :
         LET key == history.undoable[d] IN
         /\ key.documentId = d
         /\ key \in DOMAIN history.records
         /\ history.records[key].previousMesh # NoMesh
         /\ ~history.records[key].undone
         /\ ~history.records[key].superseded
    /\ \A key \in DOMAIN history.records :
         history.records[key].previousMesh # NoMesh => IsUndoable(history, key)

(* What can be undone after an operation could be before it. *)
KeepsUndo(after, before) ==
    \A d \in DOMAIN after.undoable :
        /\ d \in DOMAIN before.undoable
        /\ after.undoable[d] = before.undoable[d]
        /\ after.records[after.undoable[d]] = before.records[before.undoable[d]]

LEMMA NoHistoryInv == HistoryInv(NoHistory) /\ DOMAIN NoHistory.undoable = {}
BY NoEntriesType DEF HistoryInv, IsHistory, NoHistory

LEMMA NoPartsType == NoParts \in DocumentParts
<1>1. NoParts \in [{} -> Meshes]
  BY DEF NoParts, NoEntries
<1> QED
  BY <1>1 DEF DocumentParts

(* release: the inverse goes, and so does the pointer to the record. *)
LEMMA ReleaseRecordInv ==
    ASSUME NEW history, HistoryInv(history), NEW key, NEW cause
    PROVE  LET after == ReleaseRecord(history, key, cause) IN
           /\ HistoryInv(after)
           /\ KeepsUndo(after, history)
           /\ key \in DOMAIN history.records /\ IsUndoable(history, key) =>
                DOMAIN after.undoable = DOMAIN history.undoable \ {key.documentId}
           /\ DOMAIN after.undoable \subseteq DOMAIN history.undoable
<1>1. CASE key \notin DOMAIN history.records
  BY <1>1 DEF ReleaseRecord, KeepsUndo
<1>2. CASE key \in DOMAIN history.records
  <2> DEFINE after  == ReleaseRecord(history, key, cause)
             record == history.records[key]
             spent  == [record EXCEPT !.previousMesh = NoMesh,
                                      !.previousParts = NoParts,
                                      !.undone = @ \/ cause = "undone",
                                      !.superseded = @ \/ cause = "superseded"]
             d      == key.documentId
  <2>1. /\ key \in RecordKeys
        /\ record \in HistoryRecords
        /\ d \in DocumentIds
    BY <1>2 DEF HistoryInv, IsHistory, IsMap, RecordKeys
  <2>2. spent \in HistoryRecords /\ spent.previousMesh = NoMesh
    <3>1. /\ (record.undone \/ cause = "undone") \in BOOLEAN
          /\ (record.superseded \/ cause = "superseded") \in BOOLEAN
      OBVIOUS
    <3> QED
      BY <2>1, <3>1, NoPartsType DEF HistoryRecords
  <2>3. /\ DOMAIN after = {"records", "undoable", "order"}
        /\ after.records = Put(history.records, key, spent)
        /\ after.undoable = IF IsUndoable(history, key)
                            THEN Remove(history.undoable, d) ELSE history.undoable
        /\ after.order = history.order
    BY <1>2 DEF ReleaseRecord, HistoryInv, IsHistory
  <2>4. d = key.documentId
    OBVIOUS
  <2> HIDE DEF after, record, spent, d
  <2>5. IsHistory(after)
    <3>1. IsMap(after.records, RecordKeys, HistoryRecords)
      BY <2>1, <2>2, <2>3, PutType DEF HistoryInv, IsHistory
    <3>2. IsMap(after.undoable, DocumentIds, RecordKeys)
      BY <2>3, RemoveType DEF HistoryInv, IsHistory
    <3> QED
      BY <2>3, <3>1, <3>2 DEF IsHistory
  <2>6. /\ DOMAIN after.records = DOMAIN history.records
        /\ after.records[key] = spent
        /\ \A k \in DOMAIN history.records : k # key => after.records[k] = history.records[k]
    BY <1>2, <2>3 DEF Put
  <2>7. /\ DOMAIN after.undoable = IF IsUndoable(history, key)
                                   THEN DOMAIN history.undoable \ {d}
                                   ELSE DOMAIN history.undoable
        /\ \A x \in DOMAIN after.undoable : after.undoable[x] = history.undoable[x]
    BY <2>3 DEF Remove, Restrict
  <2>8. \A x \in DOMAIN after.undoable :
          /\ x \in DOMAIN history.undoable
          /\ after.undoable[x] = history.undoable[x]
          /\ history.undoable[x] # key
          /\ history.undoable[x] \in DOMAIN history.records
    BY <2>4, <2>7 DEF HistoryInv, IsUndoable
  <2>9. KeepsUndo(after, history)
    BY <2>6, <2>8 DEF KeepsUndo
  <2>10. \A k \in DOMAIN after.records :
           after.records[k].previousMesh # NoMesh => IsUndoable(after, k)
    <3>1. ASSUME NEW k \in DOMAIN after.records, after.records[k].previousMesh # NoMesh
          PROVE  IsUndoable(after, k)
      <4>1. k # key /\ IsUndoable(history, k)
        BY <2>2, <2>6, <3>1 DEF HistoryInv
      <4>2. k.documentId \in DOMAIN after.undoable
        BY <2>4, <2>7, <4>1 DEF IsUndoable
      <4> QED
        BY <2>7, <4>1, <4>2 DEF IsUndoable
    <3> QED
      BY <3>1
  <2>11. HistoryInv(after)
    BY <2>5, <2>6, <2>8, <2>10 DEF HistoryInv
  <2> QED
    BY <2>4, <2>7, <2>9, <2>11 DEF after
<1> QED
  BY <1>1, <1>2

(* releaseDocument: nothing of the document can be undone. *)
LEMMA ReleaseHistoryInv ==
    ASSUME NEW history, HistoryInv(history), NEW d
    PROVE  LET after == ReleaseHistory(history, d) IN
           /\ HistoryInv(after)
           /\ KeepsUndo(after, history)
           /\ DOMAIN after.undoable = DOMAIN history.undoable \ {d}
<1>1. CASE d \in DOMAIN history.undoable
  <2>1. /\ history.undoable[d] \in DOMAIN history.records
        /\ history.undoable[d].documentId = d
        /\ IsUndoable(history, history.undoable[d])
    BY <1>1 DEF HistoryInv, IsUndoable
  <2> QED
    BY <1>1, <2>1, ReleaseRecordInv DEF ReleaseHistory
<1>2. CASE d \notin DOMAIN history.undoable
  BY <1>2 DEF ReleaseHistory, KeepsUndo
<1> QED
  BY <1>1, <1>2

(* trim: a record that can be undone stays where it is. *)
LEMMA TrimInv ==
    ASSUME NEW history, HistoryInv(history)
    PROVE  LET after == Trim(history) IN
           /\ HistoryInv(after)
           /\ KeepsUndo(after, history)
           /\ DOMAIN after.undoable = DOMAIN history.undoable
<1> DEFINE after == Trim(history)
<1>1. CASE Len(history.order) <= MaxDescriptors
  BY <1>1 DEF Trim, KeepsUndo
<1>2. CASE ~(Len(history.order) <= MaxDescriptors)
  <2> DEFINE end     == ScanEnd(history, Len(history.order) - MaxDescriptors)
             evicted == {history.order[j] : j \in SpentUpTo(history, end)}
  <2>1. /\ DOMAIN after = {"records", "undoable", "order"}
        /\ after.records = [key \in DOMAIN history.records \ evicted |-> history.records[key]]
        /\ after.undoable = history.undoable
    BY <1>2 DEF Trim, HistoryInv, IsHistory
  <2>2. \A key \in evicted : ~IsUndoable(history, key)
    BY DEF SpentUpTo
  <2> HIDE DEF after, end, evicted
  <2>3. IsHistory(after)
    BY <2>1 DEF HistoryInv, IsHistory, IsMap
  <2>4. \A d \in DOMAIN history.undoable : history.undoable[d] \notin evicted
    BY <2>2 DEF HistoryInv, IsUndoable
  <2>5. \A d \in DOMAIN after.undoable :
          /\ after.undoable[d] = history.undoable[d]
          /\ after.undoable[d] \in DOMAIN after.records
          /\ after.records[after.undoable[d]] = history.records[history.undoable[d]]
    BY <2>1, <2>4 DEF HistoryInv
  <2>6. \A key \in DOMAIN after.records :
          /\ key \in DOMAIN history.records
          /\ after.records[key] = history.records[key]
          /\ IsUndoable(history, key) => IsUndoable(after, key)
    BY <2>1 DEF IsUndoable
  <2>7. HistoryInv(after)
    <3>1. \A d \in DOMAIN after.undoable :
            LET key == after.undoable[d] IN
            /\ key.documentId = d
            /\ key \in DOMAIN after.records
            /\ after.records[key].previousMesh # NoMesh
            /\ ~after.records[key].undone
            /\ ~after.records[key].superseded
      <4>1. ASSUME NEW d \in DOMAIN after.undoable
            PROVE  LET key == after.undoable[d] IN
                   /\ key.documentId = d
                   /\ key \in DOMAIN after.records
                   /\ after.records[key].previousMesh # NoMesh
                   /\ ~after.records[key].undone
                   /\ ~after.records[key].superseded
        <5>1. /\ history.undoable[d].documentId = d
              /\ history.records[history.undoable[d]].previousMesh # NoMesh
              /\ ~history.records[history.undoable[d]].undone
              /\ ~history.records[history.undoable[d]].superseded
          BY <2>1, <4>1 DEF HistoryInv
        <5>2. /\ after.undoable[d] = history.undoable[d]
              /\ after.undoable[d] \in DOMAIN after.records
              /\ after.records[after.undoable[d]] = history.records[history.undoable[d]]
          BY <2>5, <4>1
        <5> QED
          BY <5>1, <5>2
      <4> QED
        BY <4>1
    <3>2. \A key \in DOMAIN after.records :
            after.records[key].previousMesh # NoMesh => IsUndoable(after, key)
      BY <2>6 DEF HistoryInv
    <3> QED
      BY <2>3, <3>1, <3>2 DEF HistoryInv
  <2>8. KeepsUndo(after, history)
    BY <2>1, <2>5 DEF KeepsUndo
  <2> QED
    BY <2>1, <2>7, <2>8 DEF after
<1> QED
  BY <1>1, <1>2

(* A new record supersedes the document's earlier one. *)
LEMMA AddRecordInv ==
    ASSUME NEW history, HistoryInv(history), NEW key \in RecordKeys,
           NEW record \in HistoryRecords,
           record.previousMesh # NoMesh, ~record.undone, ~record.superseded
    PROVE  LET after == AddRecord(history, key, record) IN
           /\ HistoryInv(after)
           /\ DOMAIN after.undoable = DOMAIN history.undoable \cup {key.documentId}
           /\ after.undoable[key.documentId] = key
           /\ after.records[key] = record
           /\ \A d \in DOMAIN history.undoable \ {key.documentId} :
                /\ after.undoable[d] = history.undoable[d]
                /\ after.records[after.undoable[d]] = history.records[history.undoable[d]]
<1> DEFINE d          == key.documentId
           superseded == ReleaseHistory(history, d)
           after      == AddRecord(history, key, record)
<1>1. /\ HistoryInv(superseded)
      /\ KeepsUndo(superseded, history)
      /\ DOMAIN superseded.undoable = DOMAIN history.undoable \ {d}
  BY ReleaseHistoryInv
<1>2. /\ DOMAIN after = {"records", "undoable", "order"}
      /\ after.records = Put(superseded.records, key, record)
      /\ after.undoable = Put(superseded.undoable, d, key)
      /\ d = key.documentId
      /\ after = AddRecord(history, key, record)
  BY DEF AddRecord
<1>3. d \in DocumentIds
  BY DEF RecordKeys
<1> HIDE DEF d, superseded, after
<1>4. IsHistory(after)
  <2>1. IsMap(after.records, RecordKeys, HistoryRecords)
    BY <1>1, <1>2, PutType DEF HistoryInv, IsHistory
  <2>2. IsMap(after.undoable, DocumentIds, RecordKeys)
    BY <1>1, <1>2, <1>3, PutType DEF HistoryInv, IsHistory
  <2> QED
    BY <1>2, <2>1, <2>2 DEF IsHistory
<1>5. /\ DOMAIN after.records = DOMAIN superseded.records \cup {key}
      /\ after.records[key] = record
      /\ \A k \in DOMAIN superseded.records :
           k # key => after.records[k] = superseded.records[k]
  BY <1>2 DEF Put
<1>6. /\ DOMAIN after.undoable = DOMAIN history.undoable \cup {d}
      /\ after.undoable[d] = key
      /\ \A x \in DOMAIN superseded.undoable : after.undoable[x] = superseded.undoable[x]
  BY <1>1, <1>2 DEF Put
<1>7. \A x \in DOMAIN superseded.undoable :
        /\ x # d
        /\ superseded.undoable[x].documentId = x
        /\ superseded.undoable[x] # key
        /\ superseded.undoable[x] \in DOMAIN superseded.records
  BY <1>1, <1>2 DEF HistoryInv
<1>8. \A x \in DOMAIN after.undoable :
        LET k == after.undoable[x] IN
        /\ k.documentId = x
        /\ k \in DOMAIN after.records
        /\ after.records[k].previousMesh # NoMesh
        /\ ~after.records[k].undone
        /\ ~after.records[k].superseded
  <2>1. ASSUME NEW x \in DOMAIN superseded.undoable
        PROVE  LET k == after.undoable[x] IN
               /\ k.documentId = x
               /\ k \in DOMAIN after.records
               /\ after.records[k].previousMesh # NoMesh
               /\ ~after.records[k].undone
               /\ ~after.records[k].superseded
    BY <1>1, <1>5, <1>6, <1>7 DEF HistoryInv
  <2> QED
    BY <1>1, <1>2, <1>5, <1>6, <2>1
<1>9. ASSUME NEW k \in DOMAIN after.records, after.records[k].previousMesh # NoMesh
      PROVE  IsUndoable(after, k)
  <2>1. CASE k = key
    BY <1>2, <1>6, <2>1 DEF IsUndoable
  <2>2. CASE k # key
    <3>1. IsUndoable(superseded, k)
      BY <1>1, <1>5, <1>9, <2>2 DEF HistoryInv
    <3> QED
      BY <1>1, <1>6, <3>1 DEF IsUndoable
  <2> QED
    BY <2>1, <2>2
<1>10. HistoryInv(after)
  BY <1>4, <1>8, <1>9 DEF HistoryInv
<1>11. ASSUME NEW x \in DOMAIN history.undoable \ {d}
       PROVE  /\ after.undoable[x] = history.undoable[x]
              /\ after.records[after.undoable[x]] = history.records[history.undoable[x]]
  BY <1>1, <1>5, <1>6, <1>7 DEF KeepsUndo
<1> QED
  BY <1>2, <1>5, <1>6, <1>10, <1>11

(* record, whatever it evicts. *)
LEMMA RecordInv ==
    ASSUME NEW history, HistoryInv(history), NEW key \in RecordKeys, NEW p \in PartIds,
           NEW parent \in Revisions, NEW mesh \in Meshes, NEW parts \in DocumentParts
    PROVE  LET after == Record(history, key, p, parent, mesh, parts) IN
           /\ HistoryInv(after)
           /\ DOMAIN after.undoable = DOMAIN history.undoable \cup {key.documentId}
           /\ after.undoable[key.documentId] = key
           /\ after.records[key] =
                [partId |-> p, parent |-> parent, previousMesh |-> mesh,
                 previousParts |-> parts, undone |-> FALSE, superseded |-> FALSE]
           /\ \A d \in DOMAIN history.undoable \ {key.documentId} :
                /\ after.undoable[d] = history.undoable[d]
                /\ after.records[after.undoable[d]] = history.records[history.undoable[d]]
<1> DEFINE record == [partId |-> p, parent |-> parent, previousMesh |-> mesh,
                      previousParts |-> parts, undone |-> FALSE, superseded |-> FALSE]
           added  == AddRecord(history, key, record)
           after  == Trim(added)
<1>1. /\ record \in HistoryRecords
      /\ record.previousMesh # NoMesh
      /\ ~record.undone /\ ~record.superseded
  BY NoMeshAssumption DEF HistoryRecords
<1>2. /\ Record(history, key, p, parent, mesh, parts) = after
  BY DEF Record
<1> HIDE DEF record
<1>3. /\ HistoryInv(added)
      /\ DOMAIN added.undoable = DOMAIN history.undoable \cup {key.documentId}
      /\ added.undoable[key.documentId] = key
      /\ added.records[key] = record
      /\ \A d \in DOMAIN history.undoable \ {key.documentId} :
           /\ added.undoable[d] = history.undoable[d]
           /\ added.records[added.undoable[d]] = history.records[history.undoable[d]]
  BY <1>1, AddRecordInv
<1> HIDE DEF added
<1>4. /\ HistoryInv(after)
      /\ KeepsUndo(after, added)
      /\ DOMAIN after.undoable = DOMAIN added.undoable
  BY <1>3, TrimInv
<1> HIDE DEF after
<1>5. /\ after.undoable[key.documentId] = key
      /\ after.records[key] = record
      /\ \A d \in DOMAIN history.undoable \ {key.documentId} :
           /\ after.undoable[d] = history.undoable[d]
           /\ after.records[after.undoable[d]] = history.records[history.undoable[d]]
  BY <1>3, <1>4 DEF KeepsUndo
<1> QED
  BY <1>2, <1>3, <1>4, <1>5 DEF record
-----------------------------------------------------------------------------
(* Topology reports *)

(* A document's reports are all of one revision. *)
ReportsInv(cache) ==
    /\ IsReportCache(cache)
    /\ \A d \in DOMAIN cache : \A i, j \in DOMAIN cache[d] :
         cache[d][i].revision = cache[d][j].revision

(* set: what is cached afterwards was, or is the new report. *)
LEMMA StoreReportInv ==
    ASSUME NEW cache, ReportsInv(cache),
           NEW source \in [documentId : DocumentIds, revision : Revisions],
           NEW p \in PartIds, NEW mesh \in Meshes
    PROVE  LET after == StoreReport(cache, source, p, mesh) IN
           /\ ReportsInv(after)
           /\ \A d \in DOMAIN after : \A i \in DOMAIN after[d] :
                \/ /\ d \in DOMAIN cache
                   /\ \E j \in DOMAIN cache[d] : after[d][i] = cache[d][j]
                \/ /\ d = source.documentId
                   /\ after[d][i] = [partId |-> p, revision |-> source.revision, mesh |-> mesh]
<1> DEFINE d      == source.documentId
           stored == ReportsOf(cache, d)
           kept   == IF stored # <<>> /\ Head(stored).revision # source.revision
                     THEN <<>> ELSE stored
           report == [partId |-> p, revision |-> source.revision, mesh |-> mesh]
           same   == {i \in DOMAIN kept : kept[i].partId = p}
           list   == IF same = {} THEN Append(kept, report)
                     ELSE [i \in DOMAIN kept |-> IF i \in same THEN report ELSE kept[i]]
           after  == StoreReport(cache, source, p, mesh)
<1>1. after = Put(cache, d, list)
  BY DEF StoreReport
<1>2. d \in DocumentIds /\ report \in Reports /\ report.revision = source.revision
  BY DEF Reports
<1>3. /\ stored \in Seq(Reports)
      /\ \A i, j \in DOMAIN stored : stored[i].revision = stored[j].revision
      /\ d \in DOMAIN cache => stored = cache[d]
      /\ d \notin DOMAIN cache => stored = <<>>
  BY LookupType DEF ReportsOf, ReportsInv, IsReportCache
<1>4. /\ kept \in Seq(Reports)
      /\ \A i \in DOMAIN kept : kept[i].revision = source.revision
      /\ \A i \in DOMAIN kept : d \in DOMAIN cache /\ i \in DOMAIN cache[d] /\ kept[i] = cache[d][i]
  <2>1. CASE stored = <<>>
    BY <1>3, <2>1
  <2>2. CASE stored # <<>>
    <3>1. /\ 1 \in DOMAIN stored
          /\ Head(stored) = stored[1]
      BY <1>3, <2>2
    <3> QED
      BY <1>3, <2>2, <3>1
  <2> QED
    BY <2>1, <2>2
<1>5. /\ list \in Seq(Reports)
      /\ \A i \in DOMAIN list :
           \/ list[i] = report
           \/ i \in DOMAIN kept /\ list[i] = kept[i]
  <2> HIDE DEF kept, report
  <2>1. CASE same = {}
    BY <1>2, <1>4, <2>1
  <2>2. CASE same # {}
    <3>1. /\ DOMAIN list = DOMAIN kept
          /\ \A i \in DOMAIN kept : list[i] = report \/ list[i] = kept[i]
      BY <2>2
    <3>2. DOMAIN kept = 1..Len(kept) /\ Len(kept) \in Nat
      BY <1>4
    <3>3. \A i \in 1..Len(kept) : (IF i \in same THEN report ELSE kept[i]) \in Reports
      BY <1>2, <1>4, <3>2
    <3>4. list = [i \in 1..Len(kept) |-> IF i \in same THEN report ELSE kept[i]]
      BY <2>2, <3>2
    <3> HIDE DEF same, list
    <3>5. list \in [1..Len(kept) -> Reports]
      BY <3>3, <3>4
    <3>6. list \in Seq(Reports)
      BY <3>2, <3>5, SeqDef
    <3> QED
      BY <3>1, <3>6
  <2> QED
    BY <2>1, <2>2
<1> HIDE DEF list, kept, stored, after
<1>6. /\ DOMAIN after = DOMAIN cache \cup {d}
      /\ after[d] = list
      /\ \A x \in DOMAIN cache : x # d => after[x] = cache[x]
  BY <1>1 DEF Put
<1>7. IsReportCache(after)
  BY <1>1, <1>2, <1>5, PutType DEF ReportsInv, IsReportCache
<1>8. \A x \in DOMAIN after : \A i, j \in DOMAIN after[x] :
        after[x][i].revision = after[x][j].revision
  <2>1. \A i \in DOMAIN list : list[i].revision = source.revision
    BY <1>2, <1>4, <1>5
  <2> QED
    BY <1>6, <2>1 DEF ReportsInv
<1>9. ASSUME NEW x \in DOMAIN after, NEW i \in DOMAIN after[x]
      PROVE  \/ x \in DOMAIN cache /\ \E j \in DOMAIN cache[x] : after[x][i] = cache[x][j]
             \/ x = d /\ after[x][i] = report
  <2>1. CASE x = d
    BY <1>4, <1>5, <1>6, <2>1
  <2>2. CASE x # d
    BY <1>6, <2>2
  <2> QED
    BY <2>1, <2>2
<1> QED
  BY <1>7, <1>8, <1>9 DEF ReportsInv, after

LEMMA DropReportsInv ==
    ASSUME NEW cache, ReportsInv(cache), NEW d
    PROVE  /\ ReportsInv(DropReports(cache, d))
           /\ DOMAIN DropReports(cache, d) = DOMAIN cache \ {d}
           /\ \A x \in DOMAIN DropReports(cache, d) : DropReports(cache, d)[x] = cache[x]
<1>1. /\ DOMAIN DropReports(cache, d) = DOMAIN cache \ {d}
      /\ \A x \in DOMAIN DropReports(cache, d) : DropReports(cache, d)[x] = cache[x]
  BY DEF DropReports, Remove, Restrict
<1>2. IsReportCache(DropReports(cache, d))
  BY RemoveType DEF ReportsInv, IsReportCache, DropReports
<1> QED
  BY <1>1, <1>2 DEF ReportsInv

-----------------------------------------------------------------------------
(* Documents *)

LEMMA DocumentPartsDef ==
    ASSUME NEW parts
    PROVE  parts \in DocumentParts <=>
             DOMAIN parts \subseteq PartIds /\ parts \in [DOMAIN parts -> Meshes]
BY DEF DocumentParts

LEMMA WithPartMeshType ==
    ASSUME NEW parts \in DocumentParts, NEW p \in DOMAIN parts, NEW mesh \in Meshes
    PROVE  WithPartMesh(parts, p, mesh) \in DocumentParts
BY DocumentPartsDef DEF WithPartMesh

LEMMA WithPiecesType ==
    ASSUME NEW parts \in DocumentParts, NEW p,
           NEW idA \in PartIds, NEW idB \in PartIds, NEW meshA \in Meshes, NEW meshB \in Meshes
    PROVE  WithPieces(parts, p, idA, meshA, idB, meshB) \in DocumentParts
<1>1. IsMap(parts, PartIds, Meshes)
  BY DocumentPartsDef DEF IsMap
<1>2. IsMap(WithPieces(parts, p, idA, meshA, idB, meshB), PartIds, Meshes)
  BY <1>1, PutType, RemoveType DEF WithPieces
<1> QED
  BY <1>2, DocumentPartsDef DEF IsMap

-----------------------------------------------------------------------------
(* The stores *)

StoresInv ==
    /\ IsMap(resident, DocumentIds, [revision : Revisions, parts : DocumentParts])
    /\ nextDocument \in DocumentIds
    /\ IsMap(running, Requests, RunningTickets)
    /\ ReportsInv(topologyReports)
    /\ CandidateStoreInv(repairCandidates, Tags)
    /\ CandidateStoreInv(holeFillCandidates, Tags)
    /\ IsEditStore(geometryEdits)
    /\ IsSplitStore(splitCandidates)
    /\ HistoryInv(repairHistory)
    /\ offered \in SUBSET Nat
    /\ IsMap(lineage, DocumentIds, Seq(DocumentParts))
    /\ LineageIsResident

LEMMA StoresInvTypeOK ==
    ASSUME StoresInv
    PROVE  TypeOK /\ OneLiveCandidate
BY DEF StoresInv, TypeOK, ReportsInv, CandidateStoreInv, HistoryInv, OneLiveCandidate

(* What `resident` holds of a document. *)
LEMMA ResidentType ==
    ASSUME TypeOK, NEW d \in DOMAIN resident
    PROVE  /\ d \in DocumentIds
           /\ Revision(d) \in Revisions
           /\ Parts(d) \in DocumentParts
           /\ Current(d) \in RecordKeys
           /\ NextKey(d) \in RecordKeys
           /\ \A p \in DOMAIN Parts(d) : p \in PartIds /\ Parts(d)[p] \in Meshes
<1>1. d \in DocumentIds /\ resident[d] \in [revision : Revisions, parts : DocumentParts]
  BY DEF TypeOK, IsMap
<1>2. \A p \in DOMAIN Parts(d) : p \in PartIds /\ Parts(d)[p] \in Meshes
  BY <1>1, DocumentPartsDef DEF Parts
<1> QED
  BY <1>1, <1>2 DEF Parts, Revision, Current, NextKey, Handle, RecordKeys, Revisions

(* replace: one more revision of one document. *)
LEMMA ReplaceInv ==
    ASSUME TypeOK, LineageIsResident, NEW d \in DOMAIN resident,
           NEW parts \in DocumentParts, Replace(d, parts)
    PROVE  /\ IsMap(resident', DocumentIds, [revision : Revisions, parts : DocumentParts])
           /\ IsMap(lineage', DocumentIds, Seq(DocumentParts))
           /\ LineageIsResident'
           /\ DOMAIN resident' = DOMAIN resident
           /\ Revision(d)' = Revision(d) + 1
           /\ Parts(d)' = parts
           /\ \A x \in DOMAIN resident : x # d => resident'[x] = resident[x]
           /\ \A x \in DOMAIN resident : \A i \in 1..Revision(x) : lineage'[x][i] = lineage[x][i]
<1>1. /\ d \in DocumentIds /\ d \in DOMAIN lineage
      /\ Revision(d) \in Nat \ {0}
      /\ lineage[d] \in Seq(DocumentParts)
      /\ Len(lineage[d]) = Revision(d)
  BY ResidentType, LookupType DEF TypeOK, LineageIsResident, Revisions
<1>2. /\ DOMAIN resident' = DOMAIN resident
      /\ resident'[d] = [revision |-> Revision(d) + 1, parts |-> parts]
      /\ \A x \in DOMAIN resident : x # d => resident'[x] = resident[x]
  BY DEF Replace, Revision
<1>3. /\ DOMAIN lineage' = DOMAIN lineage
      /\ lineage'[d] = Append(lineage[d], parts)
      /\ \A x \in DOMAIN lineage : x # d => lineage'[x] = lineage[x]
  BY <1>1 DEF Replace
<1>4. /\ Append(lineage[d], parts) \in Seq(DocumentParts)
      /\ Len(Append(lineage[d], parts)) = Revision(d) + 1
      /\ Append(lineage[d], parts)[Revision(d) + 1] = parts
      /\ \A i \in 1..Revision(d) : Append(lineage[d], parts)[i] = lineage[d][i]
  BY <1>1
<1>5. IsMap(resident', DocumentIds, [revision : Revisions, parts : DocumentParts])
  <2>1. resident'[d] \in [revision : Revisions, parts : DocumentParts]
    BY <1>1, <1>2 DEF Revisions
  <2>2. resident' = [x \in DOMAIN resident |-> resident'[x]]
    BY DEF Replace
  <2> QED
    BY <1>2, <2>1, <2>2 DEF TypeOK, IsMap
<1>6. IsMap(lineage', DocumentIds, Seq(DocumentParts))
  <2>1. lineage' = [x \in DOMAIN lineage |-> lineage'[x]]
    BY DEF Replace
  <2> QED
    BY <1>1, <1>3, <1>4, <2>1 DEF TypeOK, IsMap
<1>7. /\ Revision(d)' = Revision(d) + 1
      /\ Parts(d)' = parts
  BY <1>2 DEF Revision, Parts
<1>8. LineageIsResident'
  <2>1. ASSUME NEW x \in DOMAIN resident, x # d
        PROVE  /\ Len(lineage'[x]) = Revision(x)'
               /\ lineage'[x][Revision(x)'] = Parts(x)'
    BY <1>1, <1>2, <1>3, <2>1 DEF LineageIsResident, Revision, Parts
  <2> QED
    BY <1>1, <1>2, <1>3, <1>4, <1>7, <2>1 DEF LineageIsResident
<1>9. \A x \in DOMAIN resident : \A i \in 1..Revision(x) : lineage'[x][i] = lineage[x][i]
  BY <1>1, <1>3, <1>4 DEF LineageIsResident
<1> QED
  BY <1>2, <1>5, <1>6, <1>7, <1>8, <1>9

(* Every action but import, release and the commits. *)
LEMMA DocumentsUnchanged ==
    ASSUME LineageIsResident, UNCHANGED <<resident, lineage>>
    PROVE  LineageIsResident'
BY DEF LineageIsResident, Revision, Parts

LEMMA TicketType ==
    ASSUME TypeOK, NEW d, NEW p, HasPart(d, p),
           NEW op \in {"analyze", "repair", "fill", "texture", "split"},
           NEW r \in Requests
    PROVE  /\ d \in DOMAIN resident /\ p \in DOMAIN Parts(d)
           /\ p \in PartIds /\ Parts(d)[p] \in Meshes
           /\ Current(d) \in RecordKeys
           /\ Ticket(op, d, p) \in RunningTickets
           /\ \A ticket \in RunningTickets : IsMap(Put(running, r, ticket), Requests, RunningTickets)
<1>1. /\ d \in DOMAIN resident /\ p \in DOMAIN Parts(d)
      /\ p \in PartIds /\ Parts(d)[p] \in Meshes
      /\ d \in DocumentIds /\ Revision(d) \in Revisions
      /\ Current(d) \in RecordKeys
  BY ResidentType DEF HasPart
<1>2. Ticket(op, d, p) \in RunningTickets
  BY <1>1 DEF Ticket, RunningTickets
<1>3. IsMap(running, Requests, RunningTickets)
  BY DEF TypeOK
<1>4. \A ticket \in RunningTickets : IsMap(Put(running, r, ticket), Requests, RunningTickets)
  BY <1>3, PutType
<1> QED
  BY <1>1, <1>2, <1>4

LEMMA RunningType ==
    ASSUME TypeOK, NEW r \in DOMAIN running
    PROVE  /\ running[r] \in RunningTickets
           /\ SourceOf(running[r]) \in RecordKeys
           /\ TicketOf(running[r]) \in EditTickets
           /\ running[r].partId \in PartIds /\ running[r].base \in Meshes
           /\ IsMap(Remove(running, r), Requests, RunningTickets)
<1>1. running[r] \in RunningTickets
  BY DEF TypeOK, IsMap
<1>2. IsMap(Remove(running, r), Requests, RunningTickets)
  BY RemoveType DEF TypeOK
<1> QED
  BY <1>1, <1>2 DEF RunningTickets, SourceOf, TicketOf, Handle, RecordKeys, EditTickets

LEMMA ReportForInv ==
    ASSUME TypeOK, ReportsInv(topologyReports), NEW d, NEW p, HasPart(d, p)
    PROVE  /\ ReportFor(d, p).mesh \in Meshes
           /\ ReportsInv(ReportFor(d, p).cache)
<1>1. /\ p \in PartIds /\ Parts(d)[p] \in Meshes /\ Current(d) \in RecordKeys
  BY ResidentType DEF HasPart
<1>2. ReportsInv(StoreReport(topologyReports, Current(d), p, Parts(d)[p]))
  BY <1>1, StoreReportInv DEF RecordKeys
<1>3. CachedReport(topologyReports, Current(d), p) \in Meshes \cup {NoMesh}
  <2> DEFINE x    == Current(d).documentId
             hits == {i \in DOMAIN ReportsOf(topologyReports, x) :
                        /\ topologyReports[x][i].partId = p
                        /\ topologyReports[x][i].revision = Current(d).revision}
  <2>1. CASE hits = {}
    BY <2>1 DEF CachedReport
  <2>2. CASE hits # {}
    <3>1. PICK i \in hits : CachedReport(topologyReports, Current(d), p) = topologyReports[x][i].mesh
      BY <2>2 DEF CachedReport
    <3>2. x \in DOMAIN topologyReports /\ i \in DOMAIN topologyReports[x]
      BY DEF ReportsOf
    <3>3. topologyReports[x] \in Seq(Reports)
      BY <3>2 DEF ReportsInv, IsReportCache, IsMap
    <3>4. topologyReports[x][i] \in Reports
      BY <3>2, <3>3
    <3> QED
      BY <3>1, <3>4 DEF Reports
  <2> QED
    BY <2>1, <2>2
<1> QED
  BY <1>1, <1>2, <1>3 DEF ReportFor

LEMMA StoresInit == Init => StoresInv
<1> SUFFICES ASSUME Init PROVE StoresInv
  OBVIOUS
<1>1. /\ IsMap(resident, DocumentIds, [revision : Revisions, parts : DocumentParts])
      /\ IsMap(running, Requests, RunningTickets)
      /\ IsMap(lineage, DocumentIds, Seq(DocumentParts))
      /\ DOMAIN resident = {} /\ DOMAIN lineage = {}
  BY NoEntriesType DEF Init
<1>2. ReportsInv(topologyReports)
  BY NoEntriesType DEF Init, ReportsInv, IsReportCache
<1>3. /\ CandidateStoreInv(repairCandidates, Tags)
      /\ CandidateStoreInv(holeFillCandidates, Tags)
      /\ IsEditStore(geometryEdits)
      /\ IsSplitStore(splitCandidates)
      /\ HistoryInv(repairHistory)
  BY EmptyStoreInv, NoEditsType, NoSplitsType, NoHistoryInv DEF Init
<1> QED
  BY <1>1, <1>2, <1>3 DEF Init, StoresInv, LineageIsResident, DocumentIds

LEMMA StoresNext == StoresInv /\ [Next]_vars => StoresInv'
<1> SUFFICES ASSUME StoresInv, [Next]_vars PROVE StoresInv'
  OBVIOUS
<1>t. TypeOK
  BY StoresInvTypeOK
<1>1. ASSUME NEW parts \in Imports, Import(parts) PROVE StoresInv'
  <2>1. parts \in DocumentParts /\ nextDocument \in DocumentIds /\ nextDocument + 1 \in DocumentIds
    BY ImportsAssumption DEF StoresInv, DocumentIds
  <2>2. IsMap(resident', DocumentIds, [revision : Revisions, parts : DocumentParts])
    <3>1. [revision |-> 1, parts |-> parts] \in [revision : Revisions, parts : DocumentParts]
      BY <2>1 DEF Revisions
    <3> QED
      BY <1>1, <2>1, <3>1, PutType DEF Import, StoresInv
  <2>3. IsMap(lineage', DocumentIds, Seq(DocumentParts))
    <3>1. <<parts>> \in Seq(DocumentParts)
      BY <2>1
    <3> QED
      BY <1>1, <2>1, <3>1, PutType DEF Import, StoresInv
  <2>4. LineageIsResident'
    <3>1. /\ DOMAIN resident' = DOMAIN resident \cup {nextDocument}
          /\ resident'[nextDocument] = [revision |-> 1, parts |-> parts]
          /\ \A d \in DOMAIN resident : d # nextDocument => resident'[d] = resident[d]
      BY <1>1 DEF Import, Put
    <3>2. /\ DOMAIN lineage' = DOMAIN lineage \cup {nextDocument}
          /\ lineage'[nextDocument] = <<parts>>
          /\ \A d \in DOMAIN lineage : d # nextDocument => lineage'[d] = lineage[d]
      BY <1>1 DEF Import, Put
    <3>3. Len(<<parts>>) = 1 /\ <<parts>>[1] = parts
      OBVIOUS
    <3>4. DOMAIN lineage' = DOMAIN resident'
      BY <3>1, <3>2 DEF StoresInv, LineageIsResident
    <3>5. ASSUME NEW d \in DOMAIN resident'
          PROVE  /\ Len(lineage'[d]) = resident'[d].revision
                 /\ lineage'[d][resident'[d].revision] = resident'[d].parts
      <4>1. CASE d = nextDocument
        BY <4>1, <3>1, <3>2, <3>3
      <4>2. CASE d # nextDocument
        BY <4>2, <3>1, <3>2, <3>5 DEF StoresInv, LineageIsResident, Revision, Parts
      <4> QED
        BY <4>1, <4>2
    <3> QED
      BY <3>4, <3>5 DEF LineageIsResident, Revision, Parts
  <2> QED
    BY <1>1, <2>1, <2>2, <2>3, <2>4 DEF Import, stores, StoresInv
<1>2. ASSUME NEW d \in Documents, Release(d) PROVE StoresInv'
  <2>1. /\ IsMap(resident', DocumentIds, [revision : Revisions, parts : DocumentParts])
        /\ IsMap(lineage', DocumentIds, Seq(DocumentParts))
    BY <1>2, RemoveType DEF Release, StoresInv
  <2>2. LineageIsResident'
    BY <1>2 DEF Release, StoresInv, LineageIsResident, Revision, Parts, Remove, Restrict
  <2>3. /\ HistoryInv(repairHistory')
        /\ CandidateStoreInv(holeFillCandidates', Tags)
        /\ ReportsInv(topologyReports')
    BY <1>2, ReleaseHistoryInv, ReleaseCandidateInv, DropReportsInv DEF Release, StoresInv
  <2>4. IsEditStore(geometryEdits')
    BY <1>2, ReleaseEditsType DEF Release, StoresInv
  <2>5. IsSplitStore(splitCandidates')
    BY <1>2, SplitStoreType, DropActiveType DEF Release, StoresInv
  <2> QED
    BY <1>2, <2>1, <2>2, <2>3, <2>4, <2>5 DEF Release, StoresInv
<1>3. ASSUME NEW d \in Documents, NEW p \in PartIds, RepairPlan(d, p) PROVE StoresInv'
  <2>1. ReportsInv(topologyReports')
    BY <1>t, <1>3, ReportForInv DEF RepairPlan, StoresInv
  <2> QED
    BY <1>3, <2>1, DocumentsUnchanged DEF RepairPlan, stores, StoresInv
<1>4. ASSUME NEW r \in Requests, NEW d \in Documents, NEW p \in PartIds,
             AnalyzeBegin(r, d, p)
      PROVE  StoresInv'
  <2>1. IsMap(running', Requests, RunningTickets)
    BY <1>t, <1>4, TicketType DEF AnalyzeBegin, Start
  <2> QED
    BY <1>4, <2>1, DocumentsUnchanged DEF AnalyzeBegin, stores, StoresInv
<1>5. ASSUME NEW r \in Requests, NEW d \in Documents, NEW p \in PartIds,
             RepairBegin(r, d, p)
      PROVE  StoresInv'
  <2>1. /\ ReportFor(d, p).mesh \in Meshes
        /\ ReportsInv(topologyReports')
    BY <1>t, <1>5, ReportForInv DEF RepairBegin, StoresInv
  <2>2. [Ticket("repair", d, p) EXCEPT !.report = ReportFor(d, p).mesh] \in RunningTickets
    BY <1>t, <1>5, <2>1, TicketType DEF RepairBegin, RunningTickets
  <2>3. IsMap(running', Requests, RunningTickets)
    BY <1>t, <1>5, <2>2, TicketType DEF RepairBegin, Start
  <2> QED
    BY <1>5, <2>1, <2>3, DocumentsUnchanged DEF RepairBegin, stores, StoresInv
<1>6. ASSUME NEW r \in Requests, NEW d \in Documents, NEW p \in PartIds, FillBegin(r, d, p)
      PROVE  StoresInv'
  <2>1. IsMap(running', Requests, RunningTickets)
    BY <1>t, <1>6, TicketType DEF FillBegin, Start
  <2> QED
    BY <1>6, <2>1, DocumentsUnchanged DEF FillBegin, stores, StoresInv
<1>7. ASSUME NEW r \in Requests, NEW d \in Documents, NEW p \in PartIds,
             NEW op \in {"texture", "split"}, StartEdit(r, op, d, p)
      PROVE  /\ d \in DocumentIds
             /\ IsMap(running', Requests, RunningTickets)
             /\ IsEditStore(geometryEdits')
  <2>1. d \in DocumentIds /\ Ticket(op, d, p) \in RunningTickets
    BY <1>t, <1>7, TicketType DEF StartEdit, RecordKeys, RunningTickets, Ticket
  <2>2. [Ticket(op, d, p) EXCEPT !.generation = EditTicket(d, p).generation] \in RunningTickets
    BY <2>1, EditStoreType DEF RunningTickets, EditTicket, StoresInv
  <2>3. IsMap(running', Requests, RunningTickets)
    BY <1>t, <1>7, <2>2, TicketType DEF StartEdit, Start
  <2> QED
    BY <1>7, <2>1, <2>3, BeginEditType DEF StartEdit, StoresInv
<1>8. ASSUME NEW r \in Requests, NEW d \in Documents, NEW p \in PartIds, TextureBegin(r, d, p)
      PROVE  StoresInv'
  <2>1. /\ IsMap(running', Requests, RunningTickets)
        /\ IsEditStore(geometryEdits')
    BY <1>7, <1>8 DEF TextureBegin
  <2> QED
    BY <1>8, <2>1, DocumentsUnchanged DEF TextureBegin, StoresInv
<1>9. ASSUME NEW r \in Requests, NEW d \in Documents, NEW p \in PartIds, SplitBegin(r, d, p)
      PROVE  StoresInv'
  <2>1. /\ IsMap(running', Requests, RunningTickets)
        /\ IsEditStore(geometryEdits')
    BY <1>7, <1>9 DEF SplitBegin
  <2>2. IsSplitStore(splitCandidates')
    BY <1>9, SplitStoreType, DropActiveType DEF SplitBegin, StoresInv
  <2> QED
    BY <1>9, <2>1, <2>2, DocumentsUnchanged DEF SplitBegin, StoresInv
<1>10. ASSUME NEW r \in Requests, AnalyzeFinish(r) PROVE StoresInv'
  <2>1. /\ IsMap(running', Requests, RunningTickets)
        /\ SourceOf(running[r]) \in RecordKeys
        /\ running[r].partId \in PartIds /\ running[r].base \in Meshes
    BY <1>t, <1>10, RunningType DEF AnalyzeFinish, IsRunning, Ends
  <2>2. ReportsInv(topologyReports')
    BY <1>10, <2>1, StoreReportInv DEF AnalyzeFinish, StoresInv, RecordKeys
  <2> QED
    BY <1>10, <2>1, <2>2, DocumentsUnchanged DEF AnalyzeFinish, stores, StoresInv
<1>11. ASSUME NEW r \in Requests, NEW mesh \in Meshes, NEW tag \in Tags,
              NEW delivered \in BOOLEAN, RepairFinish(r, mesh, tag, delivered)
       PROVE  StoresInv'
  <2>1. /\ IsMap(running', Requests, RunningTickets)
        /\ SourceOf(running[r]) \in RecordKeys
        /\ running[r].partId \in PartIds /\ running[r].base \in Meshes
    BY <1>t, <1>11, RunningType DEF RepairFinish, IsRunning, Ends
  <2>2. CandidateStoreInv(repairCandidates', Tags)
    BY <1>11, <2>1, CreateCandidateInv DEF RepairFinish, StoresInv, RecordKeys
  <2>3. offered' \in SUBSET Nat
    BY <1>11 DEF RepairFinish, StoresInv, CandidateStoreInv, IsCandidateStore
  <2> QED
    BY <1>11, <2>1, <2>2, <2>3, DocumentsUnchanged DEF RepairFinish, StoresInv
<1>12. ASSUME NEW r \in Requests, NEW mesh \in Meshes, NEW tag \in Tags,
              FillFinish(r, mesh, tag)
       PROVE  StoresInv'
  <2>1. /\ IsMap(running', Requests, RunningTickets)
        /\ SourceOf(running[r]) \in RecordKeys
        /\ running[r].partId \in PartIds /\ running[r].base \in Meshes
    BY <1>t, <1>12, RunningType DEF FillFinish, IsRunning, Ends
  <2>2. CandidateStoreInv(holeFillCandidates', Tags)
    BY <1>12, <2>1, CreateCandidateInv DEF FillFinish, StoresInv, RecordKeys
  <2> QED
    BY <1>12, <2>1, <2>2, DocumentsUnchanged DEF FillFinish, StoresInv
<1>13. ASSUME NEW r \in Requests, NEW mesh \in Meshes, NEW rendered \in BOOLEAN,
              TextureFinish(r, mesh, rendered)
       PROVE  StoresInv'
  <2> DEFINE ticket   == TicketOf(running[r])
             resolved == AddCandidate(geometryEdits, ticket, running[r].base, mesh)
  <2>1. /\ IsMap(running', Requests, RunningTickets)
        /\ ticket \in EditTickets /\ running[r].base \in Meshes
    BY <1>t, <1>13, RunningType DEF TextureFinish, IsRunning, Ends
  <2>2. IsEditStore(resolved)
    <3>1. IsEditStore(geometryEdits)
      BY DEF StoresInv
    <3> HIDE DEF ticket
    <3> QED
      BY <2>1, <3>1, AddEditType
  <2>3. IsEditStore(geometryEdits')
    BY <1>13, <2>1, <2>2, InvalidateType DEF TextureFinish
  <2> QED
    BY <1>13, <2>1, <2>3, DocumentsUnchanged DEF TextureFinish, StoresInv
<1>14. ASSUME NEW r \in Requests, NEW ids \in PartIds \X PartIds, NEW meshA \in Meshes,
              NEW meshB \in Meshes, NEW rendered \in BOOLEAN,
              SplitFinish(r, ids, meshA, meshB, rendered)
       PROVE  StoresInv'
  <2> DEFINE ticket == TicketOf(running[r])
             d      == ticket.documentId
             pieces == WithPieces(Parts(d), ticket.partId, ids[1], meshA, ids[2], meshB)
             added  == AddCandidate(splitCandidates, ticket, running[r].base, pieces)
  <2>1. /\ IsMap(running', Requests, RunningTickets)
        /\ ticket \in EditTickets /\ running[r].base \in Meshes
    BY <1>t, <1>14, RunningType DEF SplitFinish, IsRunning, Ends
  <2>2. d \in DOMAIN resident
    BY <1>14 DEF SplitFinish, Has, SourceOf, Handle
  <2>3. pieces \in DocumentParts
    BY <1>t, <2>2, ResidentType, WithPiecesType
  <2>4. IsSplitStore(added)
    <3>1. IsSplitStore(splitCandidates)
      BY DEF StoresInv
    <3> HIDE DEF ticket, d, pieces
    <3> QED
      BY <2>1, <2>3, <3>1, AddSplitType
  <2>5. IsSplitStore(splitCandidates')
    BY <1>14, <2>4, DropFailedSplitType DEF SplitFinish
  <2>6. IsEditStore(geometryEdits')
    BY <1>14, <2>1, InvalidateType DEF SplitFinish, StoresInv
  <2> QED
    BY <1>14, <2>1, <2>5, <2>6, DocumentsUnchanged DEF SplitFinish, StoresInv
<1>15. ASSUME NEW r \in Requests, Fails(r) PROVE StoresInv'
  <2>1. IsMap(running', Requests, RunningTickets)
    BY <1>t, <1>15, RunningType DEF Fails, Ends
  <2> QED
    BY <1>15, <2>1, DocumentsUnchanged DEF Fails, stores, StoresInv
<1>16. ASSUME NEW r \in Requests, TextureFails(r) PROVE StoresInv'
  <2>1. /\ IsMap(running', Requests, RunningTickets)
        /\ TicketOf(running[r]) \in EditTickets
    BY <1>t, <1>16, RunningType DEF TextureFails, IsRunning, Ends
  <2>2. IsEditStore(geometryEdits')
    BY <1>16, <2>1, InvalidateType DEF TextureFails, StoresInv
  <2> QED
    BY <1>16, <2>1, <2>2, DocumentsUnchanged DEF TextureFails, StoresInv
<1>17. ASSUME NEW r \in Requests, SplitFails(r) PROVE StoresInv'
  <2>1. /\ IsMap(running', Requests, RunningTickets)
        /\ TicketOf(running[r]) \in EditTickets
    BY <1>t, <1>17, RunningType DEF SplitFails, IsRunning, Ends
  <2>2. IsEditStore(geometryEdits') /\ IsSplitStore(splitCandidates')
    BY <1>17, <2>1, InvalidateType, DropFailedSplitType DEF SplitFails, StoresInv
  <2> QED
    BY <1>17, <2>1, <2>2, DocumentsUnchanged DEF SplitFails, StoresInv
<1>18. ASSUME NEW id \in CandidateIds, RepairDiscard(id) PROVE StoresInv'
  BY <1>18, DiscardInv, DocumentsUnchanged DEF RepairDiscard, StoresInv
<1>19. ASSUME NEW id \in CandidateIds, FillDiscard(id) PROVE StoresInv'
  BY <1>19, DiscardInv, DocumentsUnchanged DEF FillDiscard, StoresInv
<1>20. ASSUME NEW id \in CandidateIds, EditDiscard(id) PROVE StoresInv'
  <2>1. IsEditStore(geometryEdits')
    BY <1>20, EditStoreType, DropCandidateType DEF EditDiscard, StoresInv, IsEditStore
  <2> QED
    BY <1>20, <2>1, DocumentsUnchanged DEF EditDiscard, StoresInv
<1>21. ASSUME NEW id \in CandidateIds, SplitDiscard(id) PROVE StoresInv'
  <2>1. splitCandidates.candidates[id].ticket \in EditTickets
    BY <1>21 DEF SplitDiscard, StoresInv, IsSplitStore, IsEditCandidateStore, IsMap
  <2>2. IsEditStore(geometryEdits') /\ IsSplitStore(splitCandidates')
    BY <1>21, <2>1, InvalidateType, SplitStoreType, DropCandidateType DEF SplitDiscard, StoresInv
  <2> QED
    BY <1>21, <2>2, DocumentsUnchanged DEF SplitDiscard, StoresInv
<1>22. ASSUME NEW d \in DOMAIN resident, NEW parts \in DocumentParts, Replace(d, parts),
              NEW p \in DOMAIN Parts(d), NEW previous \in DocumentParts,
              NEW source, Has(source), source.documentId = d
       PROVE  /\ IsMap(resident', DocumentIds, [revision : Revisions, parts : DocumentParts])
              /\ IsMap(lineage', DocumentIds, Seq(DocumentParts))
              /\ LineageIsResident'
              /\ HistoryInv(Record(repairHistory, NextKey(d), p, source.revision,
                                   Parts(d)[p], previous))
  <2>1. /\ NextKey(d) \in RecordKeys
        /\ source.revision \in Revisions
        /\ p \in PartIds /\ Parts(d)[p] \in Meshes
    BY <1>t, <1>22, ResidentType DEF Has
  <2>2. HistoryInv(Record(repairHistory, NextKey(d), p, source.revision, Parts(d)[p], previous))
    BY <1>22, <2>1, RecordInv DEF StoresInv
  <2> QED
    BY <1>t, <1>22, <2>2, ReplaceInv DEF StoresInv
<1>23. ASSUME NEW id \in CandidateIds, NEW source \in Handles, NEW p \in PartIds,
              NEW tag \in Tags, RepairCommit(id, source, p, tag)
       PROVE  StoresInv'
  <2> DEFINE d     == source.documentId
             entry == repairCandidates.entries[id]
             parts == WithPartMesh(Parts(d), entry.partId, entry.mesh)
  <2>1. /\ d \in DOMAIN resident /\ entry.partId \in DOMAIN Parts(d)
        /\ IsLive(repairCandidates, id) /\ entry.mesh # NoMesh
        /\ Replace(d, parts) /\ Has(source)
    BY <1>23 DEF RepairCommit, MayCommit, Has
  <2>2. entry.mesh \in Meshes
    BY <2>1 DEF StoresInv, CandidateStoreInv, IsCandidateStore, IsMap, IsLive, CandidateEntry
  <2>3. parts \in DocumentParts
    BY <1>t, <2>1, <2>2, ResidentType, WithPartMeshType
  <2>4. /\ IsMap(resident', DocumentIds, [revision : Revisions, parts : DocumentParts])
        /\ IsMap(lineage', DocumentIds, Seq(DocumentParts))
        /\ LineageIsResident'
        /\ HistoryInv(repairHistory')
    BY <1>22, <1>23, <2>1, <2>3, NoPartsType DEF RepairCommit
  <2>5. /\ CandidateStoreInv(repairCandidates', Tags)
        /\ CandidateStoreInv(holeFillCandidates', Tags)
        /\ IsEditStore(geometryEdits')
    BY <1>23, <2>1, MarkCommittedInv, ReleaseCandidateInv, ReleaseEditsType
       DEF RepairCommit, StoresInv
  <2> QED
    BY <1>23, <2>4, <2>5 DEF RepairCommit, StoresInv
<1>24. ASSUME NEW id \in CandidateIds, NEW source \in Handles, NEW p \in PartIds,
              NEW tag \in Tags, FillCommit(id, source, p, tag)
       PROVE  StoresInv'
  <2> DEFINE d     == source.documentId
             entry == holeFillCandidates.entries[id]
             parts == WithPartMesh(Parts(d), entry.partId, entry.mesh)
  <2>1. /\ d \in DOMAIN resident /\ entry.partId \in DOMAIN Parts(d)
        /\ IsLive(holeFillCandidates, id) /\ entry.mesh # NoMesh
        /\ Replace(d, parts) /\ Has(source)
    BY <1>24 DEF FillCommit, MayCommit, Has
  <2>2. entry.mesh \in Meshes
    BY <2>1 DEF StoresInv, CandidateStoreInv, IsCandidateStore, IsMap, IsLive, CandidateEntry
  <2>3. parts \in DocumentParts
    BY <1>t, <2>1, <2>2, ResidentType, WithPartMeshType
  <2>4. /\ IsMap(resident', DocumentIds, [revision : Revisions, parts : DocumentParts])
        /\ IsMap(lineage', DocumentIds, Seq(DocumentParts))
        /\ LineageIsResident'
        /\ HistoryInv(repairHistory')
    BY <1>22, <1>24, <2>1, <2>3, NoPartsType DEF FillCommit
  <2>5. /\ CandidateStoreInv(holeFillCandidates', Tags)
        /\ IsEditStore(geometryEdits')
    BY <1>24, <2>1, MarkCommittedInv, ReleaseEditsType DEF FillCommit, StoresInv
  <2> QED
    BY <1>24, <2>4, <2>5 DEF FillCommit, StoresInv
<1>25. ASSUME NEW id \in CandidateIds, NEW source \in Handles, NEW p \in PartIds,
              EditCommit(id, source, p)
       PROVE  StoresInv'
  <2> DEFINE d         == source.documentId
             candidate == geometryEdits.candidates[id]
             parts     == WithPartMesh(Parts(d), p, candidate.result)
  <2>1. /\ d \in DOMAIN resident /\ p \in DOMAIN Parts(d)
        /\ id \in DOMAIN geometryEdits.candidates
        /\ Replace(d, parts) /\ Has(source)
    BY <1>25 DEF EditCommit, IsReady, Has, HasPart
  <2>2. candidate.result \in Meshes
    BY <2>1 DEF StoresInv, IsEditStore, IsEditCandidateStore, IsMap
  <2>3. parts \in DocumentParts
    BY <1>t, <2>1, <2>2, ResidentType, WithPartMeshType
  <2>4. /\ IsMap(resident', DocumentIds, [revision : Revisions, parts : DocumentParts])
        /\ IsMap(lineage', DocumentIds, Seq(DocumentParts))
        /\ LineageIsResident'
        /\ HistoryInv(repairHistory')
    BY <1>22, <1>25, <2>1, <2>3, NoPartsType DEF EditCommit
  <2>5. /\ CandidateStoreInv(repairCandidates', Tags)
        /\ CandidateStoreInv(holeFillCandidates', Tags)
    BY <1>25, ReleaseCandidateInv DEF EditCommit, StoresInv
  <2>6. IsEditStore(geometryEdits')
    BY <1>25, EditStoreType, ConsumeCandidateType DEF EditCommit, StoresInv, IsEditStore
  <2> QED
    BY <1>25, <2>4, <2>5, <2>6 DEF EditCommit, StoresInv
<1>26. ASSUME NEW id \in CandidateIds, NEW source \in Handles, NEW p \in PartIds,
              SplitCommit(id, source, p)
       PROVE  StoresInv'
  <2> DEFINE d         == source.documentId
             candidate == splitCandidates.candidates[id]
  <2>1. /\ d \in DOMAIN resident /\ p \in DOMAIN Parts(d)
        /\ id \in DOMAIN splitCandidates.candidates
        /\ Replace(d, candidate.result) /\ Has(source)
    BY <1>26 DEF SplitCommit, IsReady, Has, HasPart
  <2>2. candidate.result \in DocumentParts /\ Parts(d) \in DocumentParts
    BY <1>t, <2>1, ResidentType DEF StoresInv, IsSplitStore, IsEditCandidateStore, IsMap
  <2>3. /\ IsMap(resident', DocumentIds, [revision : Revisions, parts : DocumentParts])
        /\ IsMap(lineage', DocumentIds, Seq(DocumentParts))
        /\ LineageIsResident'
        /\ HistoryInv(repairHistory')
    BY <1>22, <1>26, <2>1, <2>2 DEF SplitCommit
  <2>4. IsSplitStore(splitCandidates')
    BY <1>26, SplitStoreType, ConsumeCandidateType DEF SplitCommit, StoresInv
  <2> QED
    BY <1>26, <2>3, <2>4 DEF SplitCommit, StoresInv
<1>27. ASSUME NEW key \in Handles, NEW source \in Handles, Undo(key, source)
       PROVE  StoresInv'
  <2> DEFINE d      == source.documentId
             record == repairHistory.records[key]
             parts  == Restored(record, Parts(d))
  <2>1. /\ d \in DOMAIN resident
        /\ key \in DOMAIN repairHistory.records /\ record.previousMesh # NoMesh
        /\ record.previousParts # NoParts \/ record.partId \in DOMAIN Parts(d)
        /\ Replace(d, parts)
    BY <1>27 DEF Undo, MayUndo, Has
  <2>2. record.previousMesh \in Meshes /\ record.previousParts \in DocumentParts
    BY <2>1 DEF StoresInv, HistoryInv, IsHistory, IsMap, HistoryRecords
  <2>3. parts \in DocumentParts
    BY <1>t, <2>1, <2>2, ResidentType, WithPartMeshType DEF Restored
  <2>4. /\ IsMap(resident', DocumentIds, [revision : Revisions, parts : DocumentParts])
        /\ IsMap(lineage', DocumentIds, Seq(DocumentParts))
        /\ LineageIsResident'
    BY <1>t, <2>1, <2>3, ReplaceInv DEF StoresInv
  <2>5. /\ HistoryInv(repairHistory')
        /\ CandidateStoreInv(holeFillCandidates', Tags)
        /\ IsEditStore(geometryEdits')
    BY <1>27, ReleaseRecordInv, ReleaseCandidateInv, ReleaseEditsType DEF Undo, StoresInv
  <2>6. IsSplitStore(splitCandidates')
    BY <1>27, SplitStoreType, DropActiveType DEF Undo, StoresInv
  <2> QED
    BY <1>27, <2>4, <2>5, <2>6 DEF Undo, StoresInv
<1>28. CASE UNCHANGED vars
  BY <1>28, DocumentsUnchanged DEF vars, stores, StoresInv
<1> QED
  BY <1>1, <1>2, <1>3, <1>4, <1>5, <1>6, <1>8, <1>9, <1>10, <1>11, <1>12, <1>13, <1>14,
     <1>15, <1>16, <1>17, <1>18, <1>19, <1>20, <1>21, <1>23, <1>24, <1>25, <1>26, <1>27, <1>28
     DEF Next, BeginStep, FinishStep, FailStep, DiscardStep, CommitStep

(* Every store of the worker holds values of its kind, whatever the page    *)
(* asks for and whenever the engines answer.                                *)
THEOREM TypeCorrect == Spec => []TypeOK
<1>1. Spec => []StoresInv
  BY StoresInit, StoresNext, PTL DEF Spec
<1>2. StoresInv => TypeOK
  BY StoresInvTypeOK
<1> QED
  BY <1>1, <1>2, PTL

(* RepairCandidateStore and HoleFillCandidateStore hold geometry of at most *)
(* one candidate of a document, the one its slot names.                     *)
THEOREM OneLiveCandidateAlways == Spec => []OneLiveCandidate
<1>1. Spec => []StoresInv
  BY StoresInit, StoresNext, PTL DEF Spec
<1>2. StoresInv => OneLiveCandidate
  BY StoresInvTypeOK
<1> QED
  BY <1>1, <1>2, PTL
-----------------------------------------------------------------------------
(***************************************************************************)
(* No geometry is applied to a model it was not computed from, no cached    *)
(* report describes another mesh, and Undo restores the revision before:    *)
(* for every set of parts, meshes, requests and documents.                  *)
(*                                                                         *)
(* The argument is about `lineage`.  Whatever the worker holds (a request   *)
(* in flight, a live candidate, a report) names a document, a revision, a   *)
(* part and a mesh, and that part held that mesh at that revision, or the   *)
(* document is gone for good.  A revision's parts never change, so this     *)
(* survives every step, and a guard that compares the revision with the     *)
(* resident one turns it into a fact about the resident document.           *)
(***************************************************************************)

(* The part held the mesh at that revision, unless the document is gone. *)
Describes(versions, next, d, rev, p, mesh) ==
    /\ d \in Nat /\ d < next
    /\ d \in DOMAIN versions =>
         /\ rev \in DOMAIN versions[d]
         /\ p \in DOMAIN versions[d][rev]
         /\ versions[d][rev][p] = mesh

RunningDescribe(tickets, versions, next) ==
    \A r \in DOMAIN tickets :
        Describes(versions, next, tickets[r].documentId, tickets[r].revision,
                  tickets[r].partId, tickets[r].base)

LiveDescribe(store, versions, next) ==
    \A id \in DOMAIN store.entries :
        IsLive(store, id) =>
            Describes(versions, next, store.entries[id].documentId,
                      store.entries[id].revision, store.entries[id].partId,
                      store.entries[id].base)

ReportsDescribe(cache, versions, next) ==
    \A d \in DOMAIN cache : \A i \in DOMAIN cache[d] :
        Describes(versions, next, d, cache[d][i].revision, cache[d][i].partId,
                  cache[d][i].mesh)

(* The change Undo would reverse leads from the revision before. *)
Restores(history, documents, versions) ==
    \A d \in DOMAIN history.undoable :
        LET key    == history.undoable[d]
            record == history.records[key]
        IN  /\ d \in DOMAIN documents
            /\ key.revision = documents[d].revision
            /\ record.parent + 1 = key.revision
            /\ Restored(record, documents[d].parts) = versions[d][record.parent]

SourcesInv ==
    /\ \A d \in DOMAIN lineage : d < nextDocument
    /\ RunningDescribe(running, lineage, nextDocument)
    /\ LiveDescribe(repairCandidates, lineage, nextDocument)
    /\ LiveDescribe(holeFillCandidates, lineage, nextDocument)
    /\ ReportsDescribe(topologyReports, lineage, nextDocument)
    /\ Restores(repairHistory, resident, lineage)

-----------------------------------------------------------------------------
(* Revisions only accumulate *)

(* `new` holds every revision that `old` holds of the documents still       *)
(* there, and the documents it adds were not numbered yet.                  *)
Grows(new, later, old, next) ==
    /\ next <= later
    /\ \A d \in DOMAIN new : d < next =>
         /\ d \in DOMAIN old
         /\ \A rev \in DOMAIN old[d] : rev \in DOMAIN new[d] /\ new[d][rev] = old[d][rev]

LEMMA DescribesStable ==
    ASSUME NEW old, NEW next \in Nat, NEW new, NEW later \in Nat,
           Grows(new, later, old, next)
    PROVE  \A d, rev, p, mesh :
             Describes(old, next, d, rev, p, mesh) => Describes(new, later, d, rev, p, mesh)
BY DEF Grows, Describes

LEMMA LineageNext ==
    ASSUME StoresInv, [Next]_vars, \A d \in DOMAIN lineage : d < nextDocument
    PROVE  /\ Grows(lineage', nextDocument', lineage, nextDocument)
           /\ \A d \in DOMAIN lineage' : d < nextDocument'
           /\ nextDocument \in Nat /\ nextDocument' \in Nat
<1>n. nextDocument \in Nat
  BY DEF StoresInv, DocumentIds
<1>d. \A d \in DOMAIN lineage : d \in Nat /\ DOMAIN lineage[d] = 1..Len(lineage[d])
                               /\ Len(lineage[d]) \in Nat
  BY DEF StoresInv, IsMap, DocumentIds
<1>1. CASE UNCHANGED <<lineage, nextDocument>>
  BY <1>1, <1>n DEF Grows
<1>2. ASSUME NEW parts \in Imports, Import(parts)
      PROVE  /\ Grows(lineage', nextDocument', lineage, nextDocument)
             /\ \A d \in DOMAIN lineage' : d < nextDocument'
             /\ nextDocument' \in Nat
  BY <1>2, <1>n, <1>d DEF Import, Put, Grows
<1>3. ASSUME NEW d \in Documents, Release(d)
      PROVE  /\ Grows(lineage', nextDocument', lineage, nextDocument)
             /\ \A x \in DOMAIN lineage' : x < nextDocument'
             /\ nextDocument' \in Nat
  BY <1>3, <1>n DEF Release, Remove, Restrict, Grows
<1>4. ASSUME NEW d, NEW parts, Replace(d, parts), UNCHANGED nextDocument
      PROVE  /\ Grows(lineage', nextDocument', lineage, nextDocument)
             /\ \A x \in DOMAIN lineage' : x < nextDocument'
             /\ nextDocument' \in Nat
  <2>1. ASSUME NEW x \in DOMAIN lineage
        PROVE  \A rev \in DOMAIN lineage[x] :
                 rev \in DOMAIN lineage'[x] /\ lineage'[x][rev] = lineage[x][rev]
    BY <1>4, <1>d, <2>1 DEF Replace
  <2>2. DOMAIN lineage' = DOMAIN lineage
    BY <1>4 DEF Replace
  <2> QED
    BY <1>4, <1>n, <2>1, <2>2 DEF Grows
<1>5. \/ UNCHANGED <<lineage, nextDocument>>
      \/ \E parts \in Imports : Import(parts)
      \/ \E d \in Documents : Release(d)
      \/ \E d, parts : Replace(d, parts) /\ UNCHANGED nextDocument
  <2>1. CASE BeginStep
    BY <2>1 DEF BeginStep, AnalyzeBegin, RepairBegin, FillBegin, TextureBegin, SplitBegin
  <2>2. CASE FinishStep
    BY <2>2 DEF FinishStep, AnalyzeFinish, RepairFinish, FillFinish, TextureFinish, SplitFinish
  <2>3. CASE FailStep
    BY <2>3 DEF FailStep, Fails, TextureFails, SplitFails
  <2>4. CASE DiscardStep
    BY <2>4 DEF DiscardStep, RepairDiscard, FillDiscard, EditDiscard, SplitDiscard
  <2>5. CASE CommitStep
    BY <2>5 DEF CommitStep, RepairCommit, FillCommit, EditCommit, SplitCommit
  <2>6. CASE \E d \in Documents, p \in PartIds : RepairPlan(d, p)
    BY <2>6 DEF RepairPlan
  <2>7. CASE \E key, source \in Handles : Undo(key, source)
    BY <2>7 DEF Undo
  <2>8. CASE UNCHANGED vars
    BY <2>8 DEF vars
  <2> QED
    BY <2>1, <2>2, <2>3, <2>4, <2>5, <2>6, <2>7, <2>8 DEF Next
<1> QED
  BY <1>n, <1>1, <1>2, <1>3, <1>4, <1>5

-----------------------------------------------------------------------------
(* Requests in flight *)

(* What a handler captures before it awaits is true of the document. *)
IsCurrentTicket(ticket) ==
    /\ ticket.documentId \in DOMAIN resident
    /\ ticket.revision = Revision(ticket.documentId)
    /\ ticket.partId \in DOMAIN Parts(ticket.documentId)
    /\ ticket.base = Parts(ticket.documentId)[ticket.partId]

LEMMA CurrentTicketDescribes ==
    ASSUME StoresInv, SourcesInv, NEW ticket, IsCurrentTicket(ticket)
    PROVE  Describes(lineage, nextDocument, ticket.documentId, ticket.revision,
                     ticket.partId, ticket.base)
<1> DEFINE d == ticket.documentId
<1>1. /\ d \in DOMAIN lineage /\ d \in Nat /\ d < nextDocument
      /\ lineage[d] \in Seq(DocumentParts)
      /\ Len(lineage[d]) = Revision(d)
      /\ lineage[d][Revision(d)] = Parts(d)
  BY DEF IsCurrentTicket, StoresInv, SourcesInv, LineageIsResident, IsMap, DocumentIds
<1>2. Revision(d) \in Nat \ {0}
  BY DEF IsCurrentTicket, StoresInv, IsMap, Revision, Revisions
<1>3. Revision(d) \in DOMAIN lineage[d]
  BY <1>1, <1>2
<1> QED
  BY <1>1, <1>3 DEF IsCurrentTicket, Describes

LEMMA RunningNext ==
    ASSUME [Next]_vars
    PROVE  \A r \in DOMAIN running' :
             \/ r \in DOMAIN running /\ running'[r] = running[r]
             \/ IsCurrentTicket(running'[r])
<1>1. CASE BeginStep
  <2>1. PICK r \in Requests, d \in Documents, p \in PartIds :
          \/ AnalyzeBegin(r, d, p) \/ RepairBegin(r, d, p) \/ FillBegin(r, d, p)
          \/ TextureBegin(r, d, p) \/ SplitBegin(r, d, p)
    BY <1>1 DEF BeginStep
  <2>2. HasPart(d, p)
    BY <2>1 DEF AnalyzeBegin, RepairBegin, FillBegin, TextureBegin, SplitBegin, StartEdit
  <2>3. \E ticket : Start(r, ticket) /\ IsCurrentTicket(ticket)
    <3>1. CASE AnalyzeBegin(r, d, p)
      BY <2>2, <3>1 DEF AnalyzeBegin, Ticket, IsCurrentTicket, HasPart
    <3>2. CASE RepairBegin(r, d, p)
      BY <2>2, <3>2 DEF RepairBegin, Ticket, IsCurrentTicket, HasPart
    <3>3. CASE FillBegin(r, d, p)
      BY <2>2, <3>3 DEF FillBegin, Ticket, IsCurrentTicket, HasPart
    <3>4. CASE TextureBegin(r, d, p)
      BY <2>2, <3>4 DEF TextureBegin, StartEdit, Ticket, IsCurrentTicket, HasPart
    <3>5. CASE SplitBegin(r, d, p)
      BY <2>2, <3>5 DEF SplitBegin, StartEdit, Ticket, IsCurrentTicket, HasPart
    <3> QED
      BY <2>1, <3>1, <3>2, <3>3, <3>4, <3>5
  <2> QED
    BY <2>3 DEF Start, Put
<1>2. CASE \E r \in Requests : Ends(r)
  BY <1>2 DEF Ends, Remove, Restrict
<1>3. CASE UNCHANGED running
  BY <1>3
<1>4. BeginStep \/ (\E r \in Requests : Ends(r)) \/ UNCHANGED running
  <2>1. CASE FinishStep
    BY <2>1 DEF FinishStep, AnalyzeFinish, RepairFinish, FillFinish, TextureFinish, SplitFinish
  <2>2. CASE FailStep
    BY <2>2 DEF FailStep, Fails, TextureFails, SplitFails
  <2>3. CASE DiscardStep
    BY <2>3 DEF DiscardStep, RepairDiscard, FillDiscard, EditDiscard, SplitDiscard
  <2>4. CASE CommitStep
    BY <2>4 DEF CommitStep, RepairCommit, FillCommit, EditCommit, SplitCommit
  <2>5. CASE \E d \in Documents : Release(d) \/ \E p \in PartIds : RepairPlan(d, p)
    BY <2>5 DEF Release, RepairPlan
  <2>6. CASE \/ \E parts \in Imports : Import(parts)
             \/ \E key, source \in Handles : Undo(key, source)
    BY <2>6 DEF Import, Undo
  <2>7. CASE UNCHANGED vars
    BY <2>7 DEF vars
  <2> QED
    BY <2>1, <2>2, <2>3, <2>4, <2>5, <2>6, <2>7 DEF Next
<1> QED
  BY <1>1, <1>2, <1>3, <1>4

-----------------------------------------------------------------------------
(* Reports *)

(* A report in the cache was there, or is that of a request in flight, or   *)
(* of the part as it is.                                                    *)
LEMMA ReportsNext ==
    ASSUME StoresInv, [Next]_vars
    PROVE  \A d \in DOMAIN topologyReports' : \A i \in DOMAIN topologyReports'[d] :
             LET report == topologyReports'[d][i] IN
             \/ d \in DOMAIN topologyReports /\ \E j \in DOMAIN topologyReports[d] :
                  report = topologyReports[d][j]
             \/ \E r \in DOMAIN running :
                  /\ d = running[r].documentId /\ report.revision = running[r].revision
                  /\ report.partId = running[r].partId /\ report.mesh = running[r].base
             \/ \E p : /\ HasPart(d, p) /\ report.revision = Revision(d)
                       /\ report.partId = p /\ report.mesh = Parts(d)[p]
<1>t. TypeOK
  BY StoresInvTypeOK
<1>1. CASE UNCHANGED topologyReports
  BY <1>1
<1>2. ASSUME NEW d, topologyReports' = DropReports(topologyReports, d)
      PROVE  \A x \in DOMAIN topologyReports' :
               x \in DOMAIN topologyReports /\ topologyReports'[x] = topologyReports[x]
  BY <1>2, DropReportsInv DEF StoresInv
<1>3. ASSUME NEW r \in Requests, AnalyzeFinish(r)
      PROVE  \A d \in DOMAIN topologyReports' : \A i \in DOMAIN topologyReports'[d] :
               \/ d \in DOMAIN topologyReports /\ \E j \in DOMAIN topologyReports[d] :
                    topologyReports'[d][i] = topologyReports[d][j]
               \/ /\ r \in DOMAIN running /\ d = running[r].documentId
                  /\ topologyReports'[d][i] =
                       [partId |-> running[r].partId, revision |-> running[r].revision,
                        mesh |-> running[r].base]
  <2> DEFINE source == SourceOf(running[r])
             p      == running[r].partId
             mesh   == running[r].base
  <2>1. /\ r \in DOMAIN running
        /\ source \in [documentId : DocumentIds, revision : Revisions]
        /\ p \in PartIds /\ mesh \in Meshes
        /\ source.documentId = running[r].documentId /\ source.revision = running[r].revision
    BY <1>t, <1>3, RunningType DEF AnalyzeFinish, IsRunning, SourceOf, Handle, RecordKeys
  <2>2. topologyReports' = StoreReport(topologyReports, source, p, mesh)
    BY <1>3 DEF AnalyzeFinish
  <2>3. ReportsInv(topologyReports)
    BY DEF StoresInv
  <2> HIDE DEF source, p, mesh
  <2>4. \A d \in DOMAIN topologyReports' : \A i \in DOMAIN topologyReports'[d] :
          \/ d \in DOMAIN topologyReports /\ \E j \in DOMAIN topologyReports[d] :
               topologyReports'[d][i] = topologyReports[d][j]
          \/ /\ d = source.documentId
             /\ topologyReports'[d][i] =
                  [partId |-> p, revision |-> source.revision, mesh |-> mesh]
    BY <2>1, <2>2, <2>3, StoreReportInv
  <2> QED
    BY <2>1, <2>4 DEF p, mesh
<1>4. CASE \E d, p : HasPart(d, p) /\ topologyReports' = ReportFor(d, p).cache
  <2>0. PICK d, p : HasPart(d, p) /\ topologyReports' = ReportFor(d, p).cache
    BY <1>4
  <2> DEFINE source == Current(d)
             mesh   == Parts(d)[p]
  <2>1. /\ source \in [documentId : DocumentIds, revision : Revisions]
        /\ p \in PartIds /\ mesh \in Meshes
        /\ source.documentId = d /\ source.revision = Revision(d)
    BY <1>t, <2>0, ResidentType DEF HasPart, Current, Handle, RecordKeys
  <2>2. \/ topologyReports' = topologyReports
        \/ topologyReports' = StoreReport(topologyReports, source, p, mesh)
    BY <2>0 DEF ReportFor
  <2>3. ReportsInv(topologyReports)
    BY DEF StoresInv
  <2> HIDE DEF source, mesh
  <2>4. CASE topologyReports' = StoreReport(topologyReports, source, p, mesh)
    <3>1. \A x \in DOMAIN topologyReports' : \A i \in DOMAIN topologyReports'[x] :
          \/ x \in DOMAIN topologyReports /\ \E j \in DOMAIN topologyReports[x] :
               topologyReports'[x][i] = topologyReports[x][j]
          \/ /\ x = source.documentId
             /\ topologyReports'[x][i] =
                  [partId |-> p, revision |-> source.revision, mesh |-> mesh]
      BY <2>1, <2>3, <2>4, StoreReportInv
    <3>2. ASSUME NEW x \in DOMAIN topologyReports', NEW i \in DOMAIN topologyReports'[x],
                 x = source.documentId,
                 topologyReports'[x][i] =
                   [partId |-> p, revision |-> source.revision, mesh |-> mesh]
          PROVE  /\ HasPart(x, p) /\ topologyReports'[x][i].revision = Revision(x)
                 /\ topologyReports'[x][i].partId = p
                 /\ topologyReports'[x][i].mesh = Parts(x)[p]
      <4>1. x = d
        BY <2>1, <3>2
      <4> QED
        BY <4>1, <2>0, <2>1, <3>2 DEF mesh
    <3> QED
      BY <3>1, <3>2
  <2> QED
    BY <2>2, <2>4
<1>5. \/ UNCHANGED topologyReports
      \/ \E d : topologyReports' = DropReports(topologyReports, d)
      \/ \E r \in Requests : AnalyzeFinish(r)
      \/ \E d, p : HasPart(d, p) /\ topologyReports' = ReportFor(d, p).cache
  <2>1. CASE BeginStep
    BY <2>1 DEF BeginStep, AnalyzeBegin, RepairBegin, FillBegin, TextureBegin, SplitBegin
  <2>2. CASE FinishStep
    BY <2>2 DEF FinishStep, RepairFinish, FillFinish, TextureFinish, SplitFinish
  <2>3. CASE FailStep
    BY <2>3 DEF FailStep, Fails, TextureFails, SplitFails
  <2>4. CASE DiscardStep
    BY <2>4 DEF DiscardStep, RepairDiscard, FillDiscard, EditDiscard, SplitDiscard
  <2>5. CASE CommitStep
    BY <2>5 DEF CommitStep, RepairCommit, FillCommit, EditCommit, SplitCommit
  <2>6. CASE \E d \in Documents : Release(d) \/ \E p \in PartIds : RepairPlan(d, p)
    BY <2>6 DEF Release, RepairPlan
  <2>7. CASE \/ \E parts \in Imports : Import(parts)
             \/ \E key, source \in Handles : Undo(key, source)
    BY <2>7 DEF Import, Undo
  <2>8. CASE UNCHANGED vars
    BY <2>8 DEF vars
  <2> QED
    BY <2>1, <2>2, <2>3, <2>4, <2>5, <2>6, <2>7, <2>8 DEF Next
<1>6. CASE \E d : topologyReports' = DropReports(topologyReports, d)
  BY <1>2, <1>6
<1>7. CASE \E r \in Requests : AnalyzeFinish(r)
  <2>1. PICK r \in Requests : AnalyzeFinish(r)
    BY <1>7
  <2> QED
    BY <2>1, <1>3
<1> QED
  BY <1>1, <1>4, <1>5, <1>6, <1>7

-----------------------------------------------------------------------------
(* Candidates *)

LEMMA LiveKept ==
    ASSUME NEW tags, NEW store, CandidateStoreInv(store, tags), NEW after,
           \/ after = store
           \/ \E id : after = Discard(store, id)
           \/ \E id : IsLive(store, id) /\ after = MarkCommitted(store, id)
           \/ \E d : after = ReleaseCandidate(store, d)
    PROVE  KeepsLive(after, store)
<1>1. KeepsLive(store, store)
  BY DEF KeepsLive
<1> QED
  BY <1>1, DiscardInv, MarkCommittedInv, ReleaseCandidateInv

(* A live candidate was live before, or is that of a request in flight.     *)
IsLiveOrNew(after, store) ==
    \A id \in DOMAIN after.entries :
        IsLive(after, id) =>
            \/ IsLive(store, id) /\ after.entries[id] = store.entries[id]
            \/ \E r \in DOMAIN running :
                 /\ after.entries[id].documentId = running[r].documentId
                 /\ after.entries[id].revision = running[r].revision
                 /\ after.entries[id].partId = running[r].partId
                 /\ after.entries[id].base = running[r].base

LEMMA CreatedIsNew ==
    ASSUME StoresInv, NEW store, CandidateStoreInv(store, Tags), NEW r \in DOMAIN running,
           NEW tag \in Tags, NEW mesh \in Meshes
    PROVE  IsLiveOrNew(CreateCandidate(store, SourceOf(running[r]), running[r].partId,
                                       tag, running[r].base, mesh), store)
<1> DEFINE source == SourceOf(running[r])
           p      == running[r].partId
           base   == running[r].base
           after  == CreateCandidate(store, source, p, tag, base, mesh)
<1>1. /\ source \in [documentId : DocumentIds, revision : Revisions]
      /\ p \in PartIds /\ base \in Meshes
      /\ source.documentId = running[r].documentId /\ source.revision = running[r].revision
  BY StoresInvTypeOK, RunningType DEF SourceOf, Handle, RecordKeys
<1> HIDE DEF source, p, base
<1>2. \A id \in DOMAIN after.entries :
        IsLive(after, id) =>
          \/ IsLive(store, id) /\ after.entries[id] = store.entries[id]
          \/ /\ after.entries[id].documentId = source.documentId
             /\ after.entries[id].revision = source.revision
             /\ after.entries[id].partId = p
             /\ after.entries[id].base = base
  BY <1>1, CreateCandidateInv
<1> HIDE DEF after
<1>3. IsLiveOrNew(after, store)
  BY <1>1, <1>2 DEF IsLiveOrNew, p, base
<1> QED
  BY <1>3 DEF after, source, p, base

LEMMA RepairLiveNext ==
    ASSUME StoresInv, [Next]_vars
    PROVE  IsLiveOrNew(repairCandidates', repairCandidates)
<1> DEFINE store == repairCandidates
<1>1. CASE \/ repairCandidates' = store
           \/ \E id : repairCandidates' = Discard(store, id)
           \/ \E id : IsLive(store, id) /\ repairCandidates' = MarkCommitted(store, id)
           \/ \E d : repairCandidates' = ReleaseCandidate(store, d)
  <2>1. CandidateStoreInv(store, Tags)
    BY DEF StoresInv
  <2> HIDE DEF store
  <2>2. KeepsLive(repairCandidates', store)
    BY <1>1, <2>1, LiveKept
  <2> QED
    BY <2>2 DEF KeepsLive, IsLiveOrNew, store
<1>2. ASSUME NEW r \in Requests, NEW mesh \in Meshes, NEW tag \in Tags,
             NEW delivered \in BOOLEAN, RepairFinish(r, mesh, tag, delivered)
      PROVE  IsLiveOrNew(repairCandidates', repairCandidates)
  <2>1. r \in DOMAIN running
    BY <1>2 DEF RepairFinish, IsRunning
  <2>2. CandidateStoreInv(store, Tags)
    BY DEF StoresInv
  <2> QED
    BY <1>2, <2>1, <2>2, CreatedIsNew DEF RepairFinish
<1>3. \/ repairCandidates' = store
      \/ \E id : repairCandidates' = Discard(store, id)
      \/ \E id : IsLive(store, id) /\ repairCandidates' = MarkCommitted(store, id)
      \/ \E d : repairCandidates' = ReleaseCandidate(store, d)
      \/ \E r \in Requests, mesh \in Meshes, tag \in Tags, delivered \in BOOLEAN :
           RepairFinish(r, mesh, tag, delivered)
  <2>1. CASE BeginStep
    BY <2>1 DEF BeginStep, AnalyzeBegin, RepairBegin, FillBegin, TextureBegin, SplitBegin, stores
  <2>2. CASE FinishStep
    BY <2>2 DEF FinishStep, AnalyzeFinish, FillFinish, TextureFinish, SplitFinish, stores
  <2>3. CASE FailStep
    BY <2>3 DEF FailStep, Fails, TextureFails, SplitFails, stores
  <2>4. CASE DiscardStep
    BY <2>4 DEF DiscardStep, RepairDiscard, FillDiscard, EditDiscard, SplitDiscard
  <2>5. CASE CommitStep
    BY <2>5 DEF CommitStep, RepairCommit, FillCommit, EditCommit, SplitCommit, MayCommit
  <2>6. CASE \E d \in Documents : Release(d) \/ \E p \in PartIds : RepairPlan(d, p)
    BY <2>6 DEF Release, RepairPlan, stores
  <2>7. CASE \/ \E parts \in Imports : Import(parts)
             \/ \E key, source \in Handles : Undo(key, source)
    BY <2>7 DEF Import, Undo, stores
  <2>8. CASE UNCHANGED vars
    BY <2>8 DEF vars
  <2> QED
    BY <2>1, <2>2, <2>3, <2>4, <2>5, <2>6, <2>7, <2>8 DEF Next
<1> QED
  BY <1>1, <1>2, <1>3

LEMMA FillLiveNext ==
    ASSUME StoresInv, [Next]_vars
    PROVE  IsLiveOrNew(holeFillCandidates', holeFillCandidates)
<1> DEFINE store == holeFillCandidates
<1>1. CASE \/ holeFillCandidates' = store
           \/ \E id : holeFillCandidates' = Discard(store, id)
           \/ \E id : IsLive(store, id) /\ holeFillCandidates' = MarkCommitted(store, id)
           \/ \E d : holeFillCandidates' = ReleaseCandidate(store, d)
  <2>1. CandidateStoreInv(store, Tags)
    BY DEF StoresInv
  <2> HIDE DEF store
  <2>2. KeepsLive(holeFillCandidates', store)
    BY <1>1, <2>1, LiveKept
  <2> QED
    BY <2>2 DEF KeepsLive, IsLiveOrNew, store
<1>2. ASSUME NEW r \in Requests, NEW mesh \in Meshes, NEW tag \in Tags,
             FillFinish(r, mesh, tag), holeFillCandidates' # store
      PROVE  IsLiveOrNew(holeFillCandidates', holeFillCandidates)
  <2>1. r \in DOMAIN running
    BY <1>2 DEF FillFinish, IsRunning
  <2>2. CandidateStoreInv(store, Tags)
    BY DEF StoresInv
  <2>3. holeFillCandidates' = CreateCandidate(store, SourceOf(running[r]), running[r].partId,
                                              tag, running[r].base, mesh)
    BY <1>2 DEF FillFinish
  <2> QED
    BY <2>1, <2>2, <2>3, CreatedIsNew
<1>3. \/ holeFillCandidates' = store
      \/ \E id : holeFillCandidates' = Discard(store, id)
      \/ \E id : IsLive(store, id) /\ holeFillCandidates' = MarkCommitted(store, id)
      \/ \E d : holeFillCandidates' = ReleaseCandidate(store, d)
      \/ \E r \in Requests, mesh \in Meshes, tag \in Tags : FillFinish(r, mesh, tag)
  <2>1. CASE BeginStep
    BY <2>1 DEF BeginStep, AnalyzeBegin, RepairBegin, FillBegin, TextureBegin, SplitBegin, stores
  <2>2. CASE FinishStep
    BY <2>2 DEF FinishStep, AnalyzeFinish, RepairFinish, TextureFinish, SplitFinish, stores
  <2>3. CASE FailStep
    BY <2>3 DEF FailStep, Fails, TextureFails, SplitFails, stores
  <2>4. CASE DiscardStep
    BY <2>4 DEF DiscardStep, RepairDiscard, FillDiscard, EditDiscard, SplitDiscard
  <2>5. CASE CommitStep
    BY <2>5 DEF CommitStep, RepairCommit, FillCommit, EditCommit, SplitCommit, MayCommit
  <2>6. CASE \E d \in Documents : Release(d) \/ \E p \in PartIds : RepairPlan(d, p)
    BY <2>6 DEF Release, RepairPlan, stores
  <2>7. CASE \/ \E parts \in Imports : Import(parts)
             \/ \E key, source \in Handles : Undo(key, source)
    BY <2>7 DEF Import, Undo, stores
  <2>8. CASE UNCHANGED vars
    BY <2>8 DEF vars
  <2> QED
    BY <2>1, <2>2, <2>3, <2>4, <2>5, <2>6, <2>7, <2>8 DEF Next
<1> QED
  BY <1>1, <1>2, <1>3

-----------------------------------------------------------------------------
(* Undo *)

LEMMA RestoresKept ==
    ASSUME NEW before, NEW after, KeepsUndo(after, before),
           NEW documents, NEW versions, Restores(before, documents, versions),
           NEW documents2, NEW versions2,
           \A d \in DOMAIN after.undoable :
              /\ d \in DOMAIN documents2
              /\ documents2[d] = documents[d] /\ versions2[d] = versions[d]
    PROVE  Restores(after, documents2, versions2)
BY DEF KeepsUndo, Restores

LEMMA RestoresRecorded ==
    ASSUME StoresInv, SourcesInv, NEW d \in DOMAIN resident, NEW p \in PartIds,
           NEW parts \in DocumentParts, NEW mesh \in Meshes, NEW previous \in DocumentParts,
           Replace(d, parts),
           repairHistory' = Record(repairHistory, NextKey(d), p, Revision(d), mesh, previous),
           \A record : record.partId = p /\ record.previousMesh = mesh
                       /\ record.previousParts = previous => Restored(record, parts) = Parts(d)
    PROVE  Restores(repairHistory', resident', lineage')
<1> DEFINE key    == NextKey(d)
           rev    == Revision(d)
           record == [partId |-> p, parent |-> rev, previousMesh |-> mesh,
                      previousParts |-> previous, undone |-> FALSE, superseded |-> FALSE]
<1>1. /\ TypeOK /\ LineageIsResident
      /\ HistoryInv(repairHistory)
  BY StoresInvTypeOK DEF StoresInv
<1>2. /\ key \in RecordKeys /\ rev \in Revisions
      /\ key.documentId = d /\ key.revision = rev + 1
  BY <1>1, ResidentType DEF NextKey, Handle
<1>3. Restored(record, parts) = Parts(d)
  OBVIOUS
<1>4. /\ DOMAIN resident' = DOMAIN resident
      /\ resident'[d] = [revision |-> rev + 1, parts |-> parts]
      /\ \A x \in DOMAIN resident : x # d => resident'[x] = resident[x]
  BY DEF Replace, Revision
<1>5. lineage'[d][rev] = Parts(d)
  <2>1. /\ lineage[d] \in Seq(DocumentParts) /\ d \in DOMAIN lineage
        /\ Len(lineage[d]) = rev /\ lineage[d][rev] = Parts(d)
    BY <1>1 DEF StoresInv, LineageIsResident, IsMap
  <2>2. lineage'[d] = Append(lineage[d], parts)
    BY <2>1 DEF Replace
  <2> QED
    BY <1>2, <2>1, <2>2 DEF Revisions
<1>6. \A x \in DOMAIN lineage : x # d => lineage'[x] = lineage[x]
  BY DEF Replace
<1>7. /\ DOMAIN repairHistory'.undoable = DOMAIN repairHistory.undoable \cup {d}
      /\ repairHistory'.undoable[d] = key
      /\ repairHistory'.records[key] = record
      /\ \A x \in DOMAIN repairHistory.undoable \ {d} :
           /\ repairHistory'.undoable[x] = repairHistory.undoable[x]
           /\ repairHistory'.records[repairHistory'.undoable[x]]
                = repairHistory.records[repairHistory.undoable[x]]
  <2> HIDE DEF key, rev
  <2>1. repairHistory' = Record(repairHistory, key, p, rev, mesh, previous)
    BY DEF key, rev
  <2> QED
    BY <1>1, <1>2, <2>1, RecordInv
<1>8. ASSUME NEW x \in DOMAIN repairHistory'.undoable, x # d
      PROVE  LET k == repairHistory'.undoable[x]
                 c == repairHistory'.records[k]
             IN  /\ x \in DOMAIN resident'
                 /\ k.revision = resident'[x].revision
                 /\ c.parent + 1 = k.revision
                 /\ Restored(c, resident'[x].parts) = lineage'[x][c.parent]
  <2>1. x \in DOMAIN repairHistory.undoable /\ x \in DOMAIN resident /\ x \in DOMAIN lineage
    BY <1>1, <1>7, <1>8 DEF SourcesInv, Restores, LineageIsResident
  <2> QED
    BY <1>4, <1>6, <1>7, <1>8, <2>1 DEF SourcesInv, Restores
<1>9. /\ d \in DOMAIN resident'
      /\ key.revision = resident'[d].revision
      /\ record.parent + 1 = key.revision
      /\ Restored(record, resident'[d].parts) = lineage'[d][record.parent]
  BY <1>2, <1>3, <1>4, <1>5
<1> HIDE DEF key, record
<1> QED
  BY <1>7, <1>8, <1>9 DEF Restores

(* One part's mesh is put back. *)
LEMMA MeshIsPutBack ==
    ASSUME TypeOK, NEW d \in DOMAIN resident, NEW p \in DOMAIN Parts(d), NEW mesh
    PROVE  \A record : record.partId = p /\ record.previousMesh = Parts(d)[p]
                       /\ record.previousParts = NoParts =>
             Restored(record, WithPartMesh(Parts(d), p, mesh)) = Parts(d)
<1>1. Parts(d) = [x \in DOMAIN Parts(d) |-> Parts(d)[x]]
  BY ResidentType, DocumentPartsDef
<1> QED
  BY <1>1 DEF Restored, WithPartMesh

LEMMA UndoNext ==
    ASSUME StoresInv, SourcesInv, [Next]_vars
    PROVE  Restores(repairHistory', resident', lineage')
<1>t. TypeOK
  BY StoresInvTypeOK
<1>0. /\ KeepsUndo(repairHistory, repairHistory)
      /\ Restores(repairHistory, resident, lineage)
      /\ HistoryInv(repairHistory)
  BY DEF KeepsUndo, SourcesInv, StoresInv
<1>1. CASE UNCHANGED <<repairHistory, resident, lineage>>
  BY <1>0, <1>1
<1>2. ASSUME NEW parts \in Imports, Import(parts)
      PROVE  Restores(repairHistory', resident', lineage')
  <2>1. \A d \in DOMAIN repairHistory.undoable :
          /\ d \in DOMAIN resident' /\ resident'[d] = resident[d] /\ lineage'[d] = lineage[d]
    <3>1. \A d \in DOMAIN repairHistory.undoable :
            d \in DOMAIN resident /\ d \in DOMAIN lineage /\ d # nextDocument
      BY <1>0 DEF Restores, SourcesInv, StoresInv, LineageIsResident, DocumentIds
    <3> QED
      BY <1>2, <3>1 DEF Import, Put
  <2> QED
    BY <1>0, <1>2, <2>1, RestoresKept DEF Import
<1>3. ASSUME NEW d \in Documents, Release(d)
      PROVE  Restores(repairHistory', resident', lineage')
  <2>1. /\ KeepsUndo(repairHistory', repairHistory)
        /\ DOMAIN repairHistory'.undoable = DOMAIN repairHistory.undoable \ {d}
    BY <1>0, <1>3, ReleaseHistoryInv DEF Release
  <2>2. \A x \in DOMAIN repairHistory'.undoable :
          /\ x \in DOMAIN resident' /\ resident'[x] = resident[x] /\ lineage'[x] = lineage[x]
    BY <1>0, <1>3, <2>1 DEF Release, Remove, Restrict, Restores, StoresInv, LineageIsResident
  <2> QED
    BY <1>0, <2>1, <2>2, RestoresKept
<1>4. ASSUME NEW id \in CandidateIds, NEW source \in Handles, NEW p \in PartIds,
             NEW tag \in Tags, RepairCommit(id, source, p, tag)
      PROVE  Restores(repairHistory', resident', lineage')
  <2> DEFINE d    == source.documentId
             q    == repairCandidates.entries[id].partId
             mesh == repairCandidates.entries[id].mesh
  <2>1. /\ d \in DOMAIN resident /\ source.revision = Revision(d) /\ q \in DOMAIN Parts(d)
    BY <1>4 DEF RepairCommit, Has
  <2>2. q \in PartIds /\ Parts(d)[q] \in Meshes /\ Parts(d) \in DocumentParts
    BY <1>t, <2>1, ResidentType
  <2>3. mesh \in Meshes
    BY <1>4 DEF RepairCommit, MayCommit, IsLive, StoresInv, CandidateStoreInv,
                IsCandidateStore, IsMap, CandidateEntry
  <2>4. WithPartMesh(Parts(d), q, mesh) \in DocumentParts
    BY <2>1, <2>2, <2>3, WithPartMeshType
  <2>5. /\ Replace(d, WithPartMesh(Parts(d), q, mesh))
        /\ repairHistory' = Record(repairHistory, NextKey(d), q, Revision(d), Parts(d)[q], NoParts)
    BY <1>4, <2>1 DEF RepairCommit
  <2> HIDE DEF d, q, mesh
  <2> QED
    BY <1>t, <2>1, <2>2, <2>4, <2>5, MeshIsPutBack, NoPartsType, RestoresRecorded
<1>5. ASSUME NEW id \in CandidateIds, NEW source \in Handles, NEW p \in PartIds,
             NEW tag \in Tags, FillCommit(id, source, p, tag)
      PROVE  Restores(repairHistory', resident', lineage')
  <2> DEFINE d    == source.documentId
             q    == holeFillCandidates.entries[id].partId
             mesh == holeFillCandidates.entries[id].mesh
  <2>1. /\ d \in DOMAIN resident /\ source.revision = Revision(d) /\ q \in DOMAIN Parts(d)
    BY <1>5 DEF FillCommit, Has
  <2>2. q \in PartIds /\ Parts(d)[q] \in Meshes /\ Parts(d) \in DocumentParts
    BY <1>t, <2>1, ResidentType
  <2>3. mesh \in Meshes
    BY <1>5 DEF FillCommit, MayCommit, IsLive, StoresInv, CandidateStoreInv,
                IsCandidateStore, IsMap, CandidateEntry
  <2>4. WithPartMesh(Parts(d), q, mesh) \in DocumentParts
    BY <2>1, <2>2, <2>3, WithPartMeshType
  <2>5. /\ Replace(d, WithPartMesh(Parts(d), q, mesh))
        /\ repairHistory' = Record(repairHistory, NextKey(d), q, Revision(d), Parts(d)[q], NoParts)
    BY <1>5, <2>1 DEF FillCommit
  <2> HIDE DEF d, q, mesh
  <2> QED
    BY <1>t, <2>1, <2>2, <2>4, <2>5, MeshIsPutBack, NoPartsType, RestoresRecorded
<1>6. ASSUME NEW id \in CandidateIds, NEW source \in Handles, NEW p \in PartIds,
             EditCommit(id, source, p)
      PROVE  Restores(repairHistory', resident', lineage')
  <2> DEFINE d    == source.documentId
             mesh == geometryEdits.candidates[id].result
  <2>1. /\ d \in DOMAIN resident /\ source.revision = Revision(d) /\ p \in DOMAIN Parts(d)
    BY <1>6 DEF EditCommit, Has, HasPart
  <2>2. Parts(d)[p] \in Meshes /\ Parts(d) \in DocumentParts
    BY <1>t, <2>1, ResidentType
  <2>3. mesh \in Meshes
    BY <1>6 DEF EditCommit, IsReady, StoresInv, IsEditStore, IsEditCandidateStore, IsMap
  <2>4. WithPartMesh(Parts(d), p, mesh) \in DocumentParts
    BY <2>1, <2>2, <2>3, WithPartMeshType
  <2>5. /\ Replace(d, WithPartMesh(Parts(d), p, mesh))
        /\ repairHistory' = Record(repairHistory, NextKey(d), p, Revision(d), Parts(d)[p], NoParts)
    BY <1>6, <2>1 DEF EditCommit
  <2> HIDE DEF d, mesh
  <2> QED
    BY <1>t, <2>1, <2>2, <2>4, <2>5, MeshIsPutBack, NoPartsType, RestoresRecorded
<1>7. ASSUME NEW id \in CandidateIds, NEW source \in Handles, NEW p \in PartIds,
             SplitCommit(id, source, p)
      PROVE  Restores(repairHistory', resident', lineage')
  <2> DEFINE d     == source.documentId
             parts == splitCandidates.candidates[id].result
  <2>1. /\ d \in DOMAIN resident /\ source.revision = Revision(d) /\ p \in DOMAIN Parts(d)
    BY <1>7 DEF SplitCommit, Has, HasPart
  <2>2. Parts(d)[p] \in Meshes /\ Parts(d) \in DocumentParts
    BY <1>t, <2>1, ResidentType
  <2>3. parts \in DocumentParts
    BY <1>7 DEF SplitCommit, IsReady, StoresInv, IsSplitStore, IsEditCandidateStore, IsMap
  <2>4. /\ Replace(d, parts)
        /\ repairHistory' = Record(repairHistory, NextKey(d), p, Revision(d), Parts(d)[p], Parts(d))
    BY <1>7, <2>1 DEF SplitCommit
  <2>5. Parts(d) # NoParts
    BY <2>1 DEF NoParts, NoEntries
  <2>6. \A record : record.partId = p /\ record.previousMesh = Parts(d)[p]
                    /\ record.previousParts = Parts(d) => Restored(record, parts) = Parts(d)
    BY <2>5 DEF Restored
  <2> HIDE DEF d, parts
  <2> QED
    BY <2>1, <2>2, <2>3, <2>4, <2>6, RestoresRecorded
<1>8. ASSUME NEW key \in Handles, NEW source \in Handles, Undo(key, source)
      PROVE  Restores(repairHistory', resident', lineage')
  <2> DEFINE d == source.documentId
  <2>1. /\ repairHistory' = ReleaseRecord(repairHistory, key, "undone")
        /\ \E parts : Replace(d, parts)
        /\ key \in DOMAIN repairHistory.records
        /\ repairHistory.records[key].previousMesh # NoMesh
        /\ key.documentId = d
    BY <1>8 DEF Undo, MayUndo
  <2>2. IsUndoable(repairHistory, key)
    BY <1>0, <2>1 DEF HistoryInv
  <2>3. /\ KeepsUndo(repairHistory', repairHistory)
        /\ DOMAIN repairHistory'.undoable = DOMAIN repairHistory.undoable \ {d}
    BY <1>0, <2>1, <2>2, ReleaseRecordInv
  <2>4. \A x \in DOMAIN repairHistory'.undoable :
          /\ x \in DOMAIN resident' /\ resident'[x] = resident[x] /\ lineage'[x] = lineage[x]
    BY <1>0, <2>1, <2>3 DEF Replace, Restores, StoresInv, LineageIsResident
  <2> QED
    BY <1>0, <2>3, <2>4, RestoresKept
<1>9. \/ UNCHANGED <<repairHistory, resident, lineage>>
      \/ \E parts \in Imports : Import(parts)
      \/ \E d \in Documents : Release(d)
      \/ CommitStep
      \/ \E key, source \in Handles : Undo(key, source)
  <2>1. CASE BeginStep
    BY <2>1 DEF BeginStep, AnalyzeBegin, RepairBegin, FillBegin, TextureBegin, SplitBegin
  <2>2. CASE FinishStep
    BY <2>2 DEF FinishStep, AnalyzeFinish, RepairFinish, FillFinish, TextureFinish, SplitFinish
  <2>3. CASE FailStep
    BY <2>3 DEF FailStep, Fails, TextureFails, SplitFails
  <2>4. CASE DiscardStep
    BY <2>4 DEF DiscardStep, RepairDiscard, FillDiscard, EditDiscard, SplitDiscard
  <2>5. CASE \E d \in Documents, p \in PartIds : RepairPlan(d, p)
    BY <2>5 DEF RepairPlan
  <2>6. CASE UNCHANGED vars
    BY <2>6 DEF vars
  <2> QED
    BY <2>1, <2>2, <2>3, <2>4, <2>5, <2>6 DEF Next
<1> QED
  BY <1>1, <1>2, <1>3, <1>4, <1>5, <1>6, <1>7, <1>8, <1>9 DEF CommitStep

-----------------------------------------------------------------------------
(* The invariant *)

LEMMA SourcesInit == Init => SourcesInv
<1> SUFFICES ASSUME Init PROVE SourcesInv
  OBVIOUS
<1>1. DOMAIN lineage = {} /\ DOMAIN running = {} /\ DOMAIN topologyReports = {}
  BY DEF Init, NoEntries
<1>2. DOMAIN repairCandidates.entries = {} /\ DOMAIN holeFillCandidates.entries = {}
  BY EmptyStoreInv DEF Init
<1>3. DOMAIN repairHistory.undoable = {}
  BY NoHistoryInv DEF Init
<1> QED
  BY <1>1, <1>2, <1>3 DEF SourcesInv, RunningDescribe, LiveDescribe, ReportsDescribe, Restores

LEMMA LiveStable ==
    ASSUME NEW store, NEW after, IsLiveOrNew(after, store),
           NEW new, NEW later, NEW next,
           \A d, rev, p, mesh :
             Describes(lineage, next, d, rev, p, mesh) => Describes(new, later, d, rev, p, mesh),
           RunningDescribe(running, lineage, next), LiveDescribe(store, lineage, next)
    PROVE  LiveDescribe(after, new, later)
<1> SUFFICES ASSUME NEW id \in DOMAIN after.entries, IsLive(after, id)
             PROVE  Describes(new, later, after.entries[id].documentId,
                              after.entries[id].revision, after.entries[id].partId,
                              after.entries[id].base)
  BY DEF LiveDescribe
<1>1. CASE IsLive(store, id) /\ after.entries[id] = store.entries[id]
  <2>1. id \in DOMAIN store.entries
    BY <1>1 DEF IsLive
  <2> QED
    BY <1>1, <2>1 DEF LiveDescribe
<1>2. ASSUME NEW r \in DOMAIN running,
             after.entries[id].documentId = running[r].documentId,
             after.entries[id].revision = running[r].revision,
             after.entries[id].partId = running[r].partId,
             after.entries[id].base = running[r].base
      PROVE  Describes(new, later, after.entries[id].documentId,
                       after.entries[id].revision, after.entries[id].partId,
                       after.entries[id].base)
  BY <1>2 DEF RunningDescribe
<1> QED
  BY <1>1, <1>2 DEF IsLiveOrNew

LEMMA SourcesNext == StoresInv /\ SourcesInv /\ [Next]_vars => SourcesInv'
<1> SUFFICES ASSUME StoresInv, SourcesInv, [Next]_vars PROVE SourcesInv'
  OBVIOUS
<1>1. /\ Grows(lineage', nextDocument', lineage, nextDocument)
      /\ \A d \in DOMAIN lineage' : d < nextDocument'
      /\ nextDocument \in Nat /\ nextDocument' \in Nat
  BY LineageNext DEF SourcesInv
<1> DEFINE new == lineage'  later == nextDocument'
<1>2. \A d, rev, p, mesh : Describes(lineage, nextDocument, d, rev, p, mesh)
                             => Describes(new, later, d, rev, p, mesh)
  BY <1>1, DescribesStable
<1>3. RunningDescribe(running', new, later)
  <2> SUFFICES ASSUME NEW r \in DOMAIN running'
               PROVE  Describes(new, later, running'[r].documentId, running'[r].revision,
                                running'[r].partId, running'[r].base)
    BY DEF RunningDescribe
  <2> HIDE DEF new, later
  <2>1. CASE r \in DOMAIN running /\ running'[r] = running[r]
    BY <1>2, <2>1 DEF SourcesInv, RunningDescribe
  <2>2. CASE IsCurrentTicket(running'[r])
    BY <1>2, <2>2, CurrentTicketDescribes
  <2> QED
    BY <2>1, <2>2, RunningNext
<1>4. LiveDescribe(repairCandidates', new, later)
  <2> HIDE DEF new, later
  <2> QED
    BY <1>2, RepairLiveNext, LiveStable DEF SourcesInv
<1>5. LiveDescribe(holeFillCandidates', new, later)
  <2> HIDE DEF new, later
  <2> QED
    BY <1>2, FillLiveNext, LiveStable DEF SourcesInv
<1>6. ReportsDescribe(topologyReports', new, later)
  <2> SUFFICES ASSUME NEW d \in DOMAIN topologyReports', NEW i \in DOMAIN topologyReports'[d]
               PROVE  Describes(new, later, d, topologyReports'[d][i].revision,
                                topologyReports'[d][i].partId, topologyReports'[d][i].mesh)
    BY DEF ReportsDescribe
  <2> DEFINE report == topologyReports'[d][i]
  <2> HIDE DEF new, later, report
  <2>1. CASE /\ d \in DOMAIN topologyReports
             /\ \E j \in DOMAIN topologyReports[d] : report = topologyReports[d][j]
    BY <1>2, <2>1 DEF SourcesInv, ReportsDescribe, report
  <2>2. CASE \E r \in DOMAIN running :
               /\ d = running[r].documentId /\ report.revision = running[r].revision
               /\ report.partId = running[r].partId /\ report.mesh = running[r].base
    BY <1>2, <2>2 DEF SourcesInv, RunningDescribe, report
  <2>3. CASE \E p : /\ HasPart(d, p) /\ report.revision = Revision(d)
                    /\ report.partId = p /\ report.mesh = Parts(d)[p]
    <3> DEFINE ticket == [documentId |-> d, revision |-> report.revision,
                          partId |-> report.partId, base |-> report.mesh]
    <3>1. IsCurrentTicket(ticket)
      BY <2>3 DEF IsCurrentTicket, HasPart
    <3>2. Describes(lineage, nextDocument, ticket.documentId, ticket.revision,
                    ticket.partId, ticket.base)
      BY <3>1, CurrentTicketDescribes
    <3> QED
      BY <1>2, <3>2 DEF report
  <2> QED
    BY <2>1, <2>2, <2>3, ReportsNext DEF report
<1>7. Restores(repairHistory', resident', lineage')
  BY UndoNext
<1> QED
  BY <1>1, <1>3, <1>4, <1>5, <1>6, <1>7 DEF SourcesInv

LEMMA SafetyInvariant == Spec => [](StoresInv /\ SourcesInv)
<1>1. Init => StoresInv /\ SourcesInv
  BY StoresInit, SourcesInit
<1>2. StoresInv /\ SourcesInv /\ [Next]_vars => (StoresInv /\ SourcesInv)'
  BY StoresNext, SourcesNext
<1> QED
  BY <1>1, <1>2, PTL DEF Spec

(* TopologyReportCache: a report the revision guard lets through describes  *)
(* the mesh the part holds, however late the analysis that stored it ended. *)
THEOREM ReportsAreAccurate == Spec => []ReportsDescribeTheirMesh
<1>1. ASSUME StoresInv, SourcesInv PROVE ReportsDescribeTheirMesh
  <2>1. ASSUME NEW d \in DOMAIN topologyReports, d \in DOMAIN resident, NEW p \in DOMAIN Parts(d)
        PROVE  CachedReport(topologyReports, Current(d), p) \in {NoMesh, Parts(d)[p]}
    <3> DEFINE hits == {i \in DOMAIN topologyReports[d] :
                          /\ topologyReports[d][i].partId = p
                          /\ topologyReports[d][i].revision = Revision(d)}
    <3>1. CachedReport(topologyReports, Current(d), p) =
            IF hits = {} THEN NoMesh
            ELSE topologyReports[d][CHOOSE i \in hits : TRUE].mesh
      BY DEF CachedReport, ReportsOf, Current, Handle
    <3>2. ASSUME NEW i \in hits PROVE topologyReports[d][i].mesh = Parts(d)[p]
      BY <1>1, <2>1 DEF StoresInv, LineageIsResident, SourcesInv, ReportsDescribe, Describes
    <3> HIDE DEF hits
    <3> QED
      BY <3>1, <3>2
  <2> QED
    BY <1>1, <2>1 DEF StoresInv, ReportsInv, ReportsDescribeTheirMesh
<1> QED
  BY <1>1, SafetyInvariant, PTL

(* RepairHistoryStore and the commit handlers: what Undo offers to reverse  *)
(* is the change that made the resident revision, and reversing it gives    *)
(* back the revision before it, part for part.                              *)
THEOREM UndoIsExact == Spec => []UndoRestoresParent
<1>1. ASSUME StoresInv, SourcesInv PROVE UndoRestoresParent
  <2> SUFFICES ASSUME NEW d \in DOMAIN repairHistory.undoable
               PROVE  LET key    == repairHistory.undoable[d]
                          record == repairHistory.records[key]
                      IN  /\ d \in DOMAIN resident /\ key = Current(d)
                          /\ key \in DOMAIN repairHistory.records
                          /\ MayUndo(repairHistory, key, key, Revision(d))
                          /\ record.parent + 1 = Revision(d)
                          /\ Restored(record, Parts(d)) = lineage[d][record.parent]
    BY DEF UndoRestoresParent
  <2> DEFINE key == repairHistory.undoable[d]
  <2>1. /\ key \in RecordKeys /\ key.documentId = d
        /\ key \in DOMAIN repairHistory.records
        /\ repairHistory.records[key].previousMesh # NoMesh
        /\ ~repairHistory.records[key].undone
        /\ ~repairHistory.records[key].superseded
    BY <1>1 DEF StoresInv, HistoryInv, IsHistory, IsMap
  <2>2. /\ d \in DOMAIN resident
        /\ key.revision = Revision(d)
        /\ repairHistory.records[key].parent + 1 = Revision(d)
        /\ Restored(repairHistory.records[key], Parts(d))
             = lineage[d][repairHistory.records[key].parent]
    BY <1>1 DEF SourcesInv, Restores, Revision, Parts
  <2>3. key = Current(d)
    BY <2>1, <2>2 DEF RecordKeys, Current, Handle
  <2> QED
    BY <2>1, <2>2, <2>3 DEF MayUndo
<1> QED
  BY <1>1, SafetyInvariant, PTL

-----------------------------------------------------------------------------
(* Commits *)

NothingCommitted(after, store) ==
    \A id \in DOMAIN store.entries :
        IsLive(store, id) => after.entries[id].state # "committed"

LEMMA OthersCommitNothing ==
    ASSUME NEW store, CandidateStoreInv(store, Tags), NEW after,
           \/ after = store
           \/ \E id : after = Discard(store, id)
           \/ \E d : after = ReleaseCandidate(store, d)
           \/ \E source, p, tag, base, mesh :
                after = CreateCandidate(store, source, p, tag, base, mesh)
    PROVE  NothingCommitted(after, store)
<1>1. CASE after = store
  BY <1>1 DEF NothingCommitted, IsLive
<1>2. \A id : \A x \in DOMAIN store.entries :
        /\ x \in DOMAIN Discard(store, id).entries
        /\ IsLive(store, x) => Discard(store, id).entries[x].state # "committed"
  BY DEF CandidateStoreInv, IsCandidateStore, CandidateEntry, IsMap,
         Discard, Settle, Put, IsLive
<1>3. \A d : \A x \in DOMAIN store.entries :
        /\ x \in DOMAIN ReleaseCandidate(store, d).entries
        /\ IsLive(store, x) => ReleaseCandidate(store, d).entries[x].state # "committed"
  BY <1>2 DEF ReleaseCandidate, IsLive
<1>4. ASSUME NEW source, NEW p, NEW tag, NEW base, NEW mesh,
             after = CreateCandidate(store, source, p, tag, base, mesh)
      PROVE  NothingCommitted(after, store)
  BY <1>3, <1>4 DEF CreateCandidate, Put, NothingCommitted
<1> QED
  BY <1>1, <1>2, <1>3, <1>4 DEF NothingCommitted

LEMMA CommitApplies ==
    ASSUME StoresInv, NEW store, CandidateStoreInv(store, Tags),
           LiveDescribe(store, lineage, nextDocument), NEW id, IsLive(store, id),
           store.entries[id].documentId \in DOMAIN resident,
           store.entries[id].revision = Revision(store.entries[id].documentId),
           store.entries[id].partId \in DOMAIN Parts(store.entries[id].documentId),
           Replace(store.entries[id].documentId,
                   WithPartMesh(Parts(store.entries[id].documentId),
                                store.entries[id].partId, store.entries[id].mesh))
    PROVE  CandidateReplacesItsBase(store, MarkCommitted(store, id))
<1> DEFINE d == store.entries[id].documentId
           p == store.entries[id].partId
<1>1. id \in DOMAIN store.entries
  BY DEF IsLive
<1>2. Parts(d)[p] = store.entries[id].base
  BY <1>1 DEF LiveDescribe, Describes, StoresInv, LineageIsResident
<1>3. resident'[d].parts = WithPartMesh(Parts(d), p, store.entries[id].mesh)
  BY DEF Replace
<1>4. ASSUME NEW x \in DOMAIN store.entries, x # id, IsLive(store, x)
      PROVE  MarkCommitted(store, id).entries[x].state # "committed"
  BY <1>1, <1>4 DEF MarkCommitted, Settle, Put, IsLive, CandidateStoreInv, IsCandidateStore
<1> QED
  BY <1>2, <1>3, <1>4 DEF CandidateReplacesItsBase

LEMMA AppliesStep ==
    ASSUME StoresInv, SourcesInv, [Next]_vars
    PROVE  /\ CandidateReplacesItsBase(repairCandidates, repairCandidates')
           /\ CandidateReplacesItsBase(holeFillCandidates, holeFillCandidates')
<1>s. /\ CandidateStoreInv(repairCandidates, Tags)
      /\ CandidateStoreInv(holeFillCandidates, Tags)
      /\ LiveDescribe(repairCandidates, lineage, nextDocument)
      /\ LiveDescribe(holeFillCandidates, lineage, nextDocument)
  BY DEF StoresInv, SourcesInv
<1>1. CASE /\ NothingCommitted(repairCandidates', repairCandidates)
           /\ NothingCommitted(holeFillCandidates', holeFillCandidates)
  BY <1>1 DEF NothingCommitted, CandidateReplacesItsBase
<1>2. ASSUME NEW id \in CandidateIds, NEW source \in Handles, NEW p \in PartIds,
             NEW tag \in Tags, RepairCommit(id, source, p, tag)
      PROVE  /\ CandidateReplacesItsBase(repairCandidates, repairCandidates')
             /\ NothingCommitted(holeFillCandidates', holeFillCandidates)
  <2> DEFINE entry == repairCandidates.entries[id]
             d     == entry.documentId
  <2>1. /\ IsLive(repairCandidates, id) /\ d = source.documentId
        /\ d \in DOMAIN resident /\ entry.revision = Revision(d)
        /\ entry.partId \in DOMAIN Parts(d)
        /\ Replace(d, WithPartMesh(Parts(d), entry.partId, entry.mesh))
        /\ repairCandidates' = MarkCommitted(repairCandidates, id)
    BY <1>2 DEF RepairCommit, MayCommit, Has
  <2>2. CandidateReplacesItsBase(repairCandidates, MarkCommitted(repairCandidates, id))
    BY <1>s, <2>1, CommitApplies
  <2>3. NothingCommitted(holeFillCandidates', holeFillCandidates)
    BY <1>s, <1>2, OthersCommitNothing DEF RepairCommit
  <2> QED
    BY <2>1, <2>2, <2>3
<1>3. ASSUME NEW id \in CandidateIds, NEW source \in Handles, NEW p \in PartIds,
             NEW tag \in Tags, FillCommit(id, source, p, tag)
      PROVE  /\ CandidateReplacesItsBase(holeFillCandidates, holeFillCandidates')
             /\ NothingCommitted(repairCandidates', repairCandidates)
  <2> DEFINE entry == holeFillCandidates.entries[id]
             d     == entry.documentId
  <2>1. /\ IsLive(holeFillCandidates, id) /\ d = source.documentId
        /\ d \in DOMAIN resident /\ entry.revision = Revision(d)
        /\ entry.partId \in DOMAIN Parts(d)
        /\ Replace(d, WithPartMesh(Parts(d), entry.partId, entry.mesh))
        /\ holeFillCandidates' = MarkCommitted(holeFillCandidates, id)
    BY <1>3 DEF FillCommit, MayCommit, Has
  <2>2. CandidateReplacesItsBase(holeFillCandidates, MarkCommitted(holeFillCandidates, id))
    BY <1>s, <2>1, CommitApplies
  <2>3. NothingCommitted(repairCandidates', repairCandidates)
    BY <1>s, <1>3, OthersCommitNothing DEF FillCommit
  <2> QED
    BY <2>1, <2>2, <2>3
<1>4. ASSUME \/ repairCandidates' = repairCandidates
             \/ \E id : repairCandidates' = Discard(repairCandidates, id)
             \/ \E d : repairCandidates' = ReleaseCandidate(repairCandidates, d)
             \/ \E source, p, tag, base, mesh : repairCandidates' =
                  CreateCandidate(repairCandidates, source, p, tag, base, mesh),
             \/ holeFillCandidates' = holeFillCandidates
             \/ \E id : holeFillCandidates' = Discard(holeFillCandidates, id)
             \/ \E d : holeFillCandidates' = ReleaseCandidate(holeFillCandidates, d)
             \/ \E source, p, tag, base, mesh : holeFillCandidates' =
                  CreateCandidate(holeFillCandidates, source, p, tag, base, mesh)
      PROVE  /\ CandidateReplacesItsBase(repairCandidates, repairCandidates')
             /\ CandidateReplacesItsBase(holeFillCandidates, holeFillCandidates')
  <2>1. NothingCommitted(repairCandidates', repairCandidates)
    BY <1>s, <1>4, OthersCommitNothing
  <2>2. NothingCommitted(holeFillCandidates', holeFillCandidates)
    BY <1>s, <1>4, OthersCommitNothing
  <2> QED
    BY <1>1, <2>1, <2>2
<1>5. CASE BeginStep
  BY <1>4, <1>5 DEF BeginStep, AnalyzeBegin, RepairBegin, FillBegin, TextureBegin, SplitBegin, stores
<1>6. CASE FinishStep
  BY <1>4, <1>6 DEF FinishStep, AnalyzeFinish, RepairFinish, FillFinish, TextureFinish,
                    SplitFinish, stores
<1>7. CASE FailStep
  BY <1>4, <1>7 DEF FailStep, Fails, TextureFails, SplitFails, stores
<1>8. CASE DiscardStep
  BY <1>4, <1>8 DEF DiscardStep, RepairDiscard, FillDiscard, EditDiscard, SplitDiscard
<1>9. CASE \E id \in CandidateIds, source \in Handles, p \in PartIds :
             EditCommit(id, source, p) \/ SplitCommit(id, source, p)
  BY <1>4, <1>9 DEF EditCommit, SplitCommit
<1>10. CASE \E d \in Documents : Release(d) \/ \E p \in PartIds : RepairPlan(d, p)
  BY <1>4, <1>10 DEF Release, RepairPlan, stores
<1>11. CASE \/ \E parts \in Imports : Import(parts)
            \/ \E key, source \in Handles : Undo(key, source)
  BY <1>4, <1>11 DEF Import, Undo, stores
<1>12. CASE UNCHANGED vars
  BY <1>4, <1>12 DEF vars
<1>13. CASE CommitStep
  BY <1>2, <1>3, <1>9, <1>13 DEF CommitStep, NothingCommitted, CandidateReplacesItsBase
<1> QED
  BY <1>5, <1>6, <1>7, <1>8, <1>10, <1>11, <1>12, <1>13 DEF Next

(* repair/commit and holefill/commit: applying a candidate replaces the     *)
(* very mesh the candidate was computed from, in the document and the part  *)
(* it was computed for, whatever the worker did since.                      *)
THEOREM CommitsAreCurrent == Spec => AppliesToItsSource
<1>1. StoresInv /\ SourcesInv /\ [Next]_vars =>
        [/\ CandidateReplacesItsBase(repairCandidates, repairCandidates')
         /\ CandidateReplacesItsBase(holeFillCandidates, holeFillCandidates')]_vars
  BY AppliesStep
<1> QED
  BY <1>1, SafetyInvariant, PTL DEF Spec, AppliesToItsSource
=============================================================================
