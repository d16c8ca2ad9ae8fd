-------------------------- MODULE WorkerEditProofs --------------------------
(***************************************************************************)
(* Texture and split share one slot, no store keeps geometry of a released  *)
(* document, and the worker as a whole implements AuthoritativeModel: for   *)
(* every set of parts, meshes, requests and documents.                      *)
(*                                                                         *)
(* The argument is about tickets.  A ticket is issued with the generation   *)
(* after every earlier one of its document, and generations start again     *)
(* only when the revision moves, so a ticket that is no longer the latest   *)
(* never is again.  Whoever holds the latest ticket of the resident         *)
(* revision, a request in flight or a candidate, therefore holds it alone.  *)
(***************************************************************************)
EXTENDS GeometryWorkerProofs, FiniteSetTheorems

(* In either store a document's slot names its only candidate. *)
EditSlots(store) ==
    /\ \A id \in DOMAIN store.candidates :
         LET d == store.candidates[id].ticket.documentId IN
         /\ id \in Nat /\ id < store.nextId
         /\ d \in DOMAIN store.active /\ store.active[d] = id
    /\ \A d \in DOMAIN store.active :
         /\ store.active[d] \in DOMAIN store.candidates
         /\ store.candidates[store.active[d]].ticket.documentId = d

IsEdit(ticket) == ticket.op \in {"texture", "split"}

(* The ticket resolves, and no later request of either tool has begun. *)
IsUpToDate(ticket) == IsLatest(geometryEdits, ticket) /\ Has(SourceOf(ticket))

(* Begun in this document, at this revision or an earlier one, and not      *)
(* ahead of the document's generation.                                      *)
WasIssued(ticket) ==
    /\ ticket.documentId < nextDocument
    /\ ticket.documentId \in DOMAIN resident =>
         /\ ticket.revision <= Revision(ticket.documentId)
         /\ ticket.revision = Revision(ticket.documentId) =>
              /\ ticket.documentId \in DOMAIN geometryEdits.current
              /\ ticket.generation <= geometryEdits.current[ticket.documentId]

(* A request that may still deliver its result delivers it alone. *)
OneTicketUpToDate ==
    /\ \A r \in DOMAIN running :
         IsEdit(running[r]) /\ IsUpToDate(running[r]) =>
           LET d == running[r].documentId IN
           /\ \A other \in DOMAIN running \ {r} :
                IsEdit(running[other]) /\ running[other].documentId = d
                  => ~IsUpToDate(running[other])
           /\ d \notin DOMAIN geometryEdits.active
           /\ d \in DOMAIN splitCandidates.active =>
                /\ running[r].op = "texture"
                /\ ~IsUpToDate(splitCandidates.candidates[splitCandidates.active[d]].ticket)
    /\ \A d \in DOMAIN geometryEdits.active \cap DOMAIN splitCandidates.active :
         ~ /\ IsUpToDate(geometryEdits.candidates[geometryEdits.active[d]].ticket)
           /\ IsUpToDate(splitCandidates.candidates[splitCandidates.active[d]].ticket)

TicketsInv ==
    /\ EditSlots(geometryEdits)
    /\ EditSlots(splitCandidates)
    /\ \A d \in DOMAIN geometryEdits.current : d \in DOMAIN resident
    /\ \A r \in DOMAIN running : IsEdit(running[r]) => WasIssued(running[r])
    /\ \A id \in DOMAIN geometryEdits.candidates :
         WasIssued(geometryEdits.candidates[id].ticket)
    /\ \A id \in DOMAIN splitCandidates.candidates :
         WasIssued(splitCandidates.candidates[id].ticket)
    /\ OneTicketUpToDate

(* The candidate was computed from the mesh its part held. *)
CandidatesDescribe(store, versions, next) ==
    \A id \in DOMAIN store.candidates :
        LET ticket == store.candidates[id].ticket IN
        Describes(versions, next, ticket.documentId, ticket.revision, ticket.partId,
                  store.candidates[id].base)

(* In `after` two new parts stand in for one of `before`. *)
IsDivision(before, partId, after) ==
    \E idA, idB \in PartIds \ DOMAIN before, meshA, meshB \in Meshes :
        /\ idA # idB
        /\ after = WithPieces(before, partId, idA, meshA, idB, meshB)

SplitsDivide(splits, versions) ==
    \A id \in DOMAIN splits.candidates :
        LET ticket == splits.candidates[id].ticket IN
        IsDivision(versions[ticket.documentId][ticket.revision], ticket.partId,
                   splits.candidates[id].result)

ActiveAreResident(store, documents) ==
    \A d \in DOMAIN store.active : d \in DOMAIN documents

CandidatesInv ==
    /\ CandidatesDescribe(geometryEdits, lineage, nextDocument)
    /\ CandidatesDescribe(splitCandidates, lineage, nextDocument)
    /\ SplitsDivide(splitCandidates, lineage)
    /\ ActiveAreResident(geometryEdits, resident)
    /\ ActiveAreResident(splitCandidates, resident)
    /\ ActiveAreResident(holeFillCandidates, resident)

-----------------------------------------------------------------------------
(* What the operations of the two stores do to the slots *)

HasSlots(store) ==
    /\ {"candidates", "active", "nextId"} \subseteq DOMAIN store
    /\ store.nextId \in Nat
    /\ EditSlots(store)

SlotsKept(after, before) ==
    /\ after.candidates = before.candidates
    /\ after.active = before.active
    /\ after.nextId = before.nextId

(* The document has no candidate any more; the others keep theirs. *)
SlotFreed(after, before, d) ==
    /\ after.nextId \in Nat /\ before.nextId <= after.nextId
    /\ DOMAIN after.active = DOMAIN before.active \ {d}
    /\ \A x \in DOMAIN after.active : after.active[x] = before.active[x]
    /\ \A id : id \in DOMAIN after.candidates <=>
                /\ id \in DOMAIN before.candidates
                /\ before.candidates[id].ticket.documentId # d
    /\ \A id \in DOMAIN after.candidates : after.candidates[id] = before.candidates[id]

(* The document's slot was free and now names the candidate. *)
SlotFilled(after, before, candidate) ==
    LET d  == candidate.ticket.documentId
        id == before.nextId
    IN  /\ after.nextId = id + 1
        /\ DOMAIN after.active = DOMAIN before.active \cup {d}
        /\ after.active[d] = id
        /\ \A x \in DOMAIN before.active \ {d} : after.active[x] = before.active[x]
        /\ DOMAIN after.candidates = DOMAIN before.candidates \cup {id}
        /\ after.candidates[id] = candidate
        /\ \A x \in DOMAIN before.candidates \ {id} : after.candidates[x] = before.candidates[x]

LEMMA KeptSlots ==
    ASSUME NEW before, EditSlots(before), NEW after, SlotsKept(after, before)
    PROVE  EditSlots(after)
BY DEF SlotsKept, EditSlots

LEMMA FreedSlots ==
    ASSUME NEW before, HasSlots(before), NEW after, NEW d, SlotFreed(after, before, d)
    PROVE  EditSlots(after)
<1>1. ASSUME NEW id \in DOMAIN after.candidates
      PROVE  /\ id \in Nat /\ id < after.nextId
             /\ after.candidates[id].ticket.documentId \in DOMAIN after.active
             /\ after.active[after.candidates[id].ticket.documentId] = id
  <2>1. /\ id \in DOMAIN before.candidates
        /\ after.candidates[id] = before.candidates[id]
        /\ before.candidates[id].ticket.documentId # d
    BY <1>1 DEF SlotFreed
  <2>2. /\ id \in Nat /\ before.nextId \in Nat /\ id < before.nextId
        /\ before.candidates[id].ticket.documentId \in DOMAIN before.active
        /\ before.active[before.candidates[id].ticket.documentId] = id
    BY <2>1 DEF HasSlots, EditSlots
  <2> QED
    BY <2>1, <2>2 DEF SlotFreed
<1>2. ASSUME NEW x \in DOMAIN after.active
      PROVE  /\ after.active[x] \in DOMAIN after.candidates
             /\ after.candidates[after.active[x]].ticket.documentId = x
  BY <1>2 DEF SlotFreed, HasSlots, EditSlots
<1> QED
  BY <1>1, <1>2 DEF EditSlots

LEMMA FilledSlots ==
    ASSUME NEW before, HasSlots(before), NEW after, NEW candidate,
           SlotFilled(after, before, candidate),
           candidate.ticket.documentId \notin DOMAIN before.active
    PROVE  EditSlots(after)
BY DEF SlotFilled, HasSlots, EditSlots

LEMMA DropCandidateFrees ==
    ASSUME NEW store, HasSlots(store), NEW id \in DOMAIN store.candidates
    PROVE  SlotFreed(DropCandidate(store, id), store, store.candidates[id].ticket.documentId)
<1> DEFINE after == DropCandidate(store, id)
           d     == store.candidates[id].ticket.documentId
<1>1. d \in DOMAIN store.active /\ store.active[d] = id
  BY DEF HasSlots, EditSlots
<1>2. /\ after.candidates = Remove(store.candidates, id)
      /\ after.active = Remove(store.active, d)
      /\ after.nextId = store.nextId
  BY <1>1 DEF DropCandidate, HasSlots
<1>3. \A x \in DOMAIN store.candidates : x # id <=> store.candidates[x].ticket.documentId # d
  BY <1>1 DEF HasSlots, EditSlots
<1> HIDE DEF after, d
<1>4. /\ DOMAIN after.candidates = DOMAIN store.candidates \ {id}
      /\ \A x \in DOMAIN after.candidates : after.candidates[x] = store.candidates[x]
      /\ DOMAIN after.active = DOMAIN store.active \ {d}
      /\ \A x \in DOMAIN after.active : after.active[x] = store.active[x]
  BY <1>2 DEF Remove, Restrict
<1>5. SlotFreed(after, store, d)
  BY <1>2, <1>3, <1>4 DEF SlotFreed, HasSlots
<1> QED
  BY <1>5 DEF after, d

LEMMA DropActiveFrees ==
    ASSUME NEW store, HasSlots(store), NEW d
    PROVE  SlotFreed(DropActive(store, d), store, d)
<1>1. CASE d \in DOMAIN store.active
  <2>1. /\ store.active[d] \in DOMAIN store.candidates
        /\ store.candidates[store.active[d]].ticket.documentId = d
    BY <1>1 DEF HasSlots, EditSlots
  <2> QED
    BY <1>1, <2>1, DropCandidateFrees DEF DropActive
<1>2. CASE d \notin DOMAIN store.active
  <2>1. \A id \in DOMAIN store.candidates : store.candidates[id].ticket.documentId # d
    BY <1>2 DEF HasSlots, EditSlots
  <2> QED
    BY <1>2, <2>1 DEF DropActive, SlotFreed, HasSlots
<1> QED
  BY <1>1, <1>2

LEMMA ConsumeFrees ==
    ASSUME NEW store, HasSlots(store), NEW id \in DOMAIN store.candidates
    PROVE  SlotFreed(ConsumeCandidate(store, id), store, store.candidates[id].ticket.documentId)
<1> DEFINE after == ConsumeCandidate(store, id)
           d     == store.candidates[id].ticket.documentId
<1>1. d \in DOMAIN store.active /\ store.active[d] = id
  BY DEF HasSlots, EditSlots
<1>2. /\ after.candidates = Remove(store.candidates, id)
      /\ after.active = Remove(store.active, d)
      /\ after.nextId = store.nextId
  BY DEF ConsumeCandidate, HasSlots
<1>3. \A x \in DOMAIN store.candidates : x # id <=> store.candidates[x].ticket.documentId # d
  BY <1>1 DEF HasSlots, EditSlots
<1> HIDE DEF after, d
<1>4. /\ DOMAIN after.candidates = DOMAIN store.candidates \ {id}
      /\ \A x \in DOMAIN after.candidates : after.candidates[x] = store.candidates[x]
      /\ DOMAIN after.active = DOMAIN store.active \ {d}
      /\ \A x \in DOMAIN after.active : after.active[x] = store.active[x]
  BY <1>2 DEF Remove, Restrict
<1>5. SlotFreed(after, store, d)
  BY <1>2, <1>3, <1>4 DEF SlotFreed, HasSlots
<1> QED
  BY <1>5 DEF after, d

LEMMA AddFills ==
    ASSUME NEW store, HasSlots(store), NEW ticket, NEW base, NEW result
    PROVE  SlotFilled(AddCandidate(store, ticket, base, result), store,
                      [ticket |-> ticket, base |-> base, result |-> result])
<1> DEFINE after     == AddCandidate(store, ticket, base, result)
           candidate == [ticket |-> ticket, base |-> base, result |-> result]
           d         == ticket.documentId
<1>1. /\ after.candidates = Put(store.candidates, store.nextId, candidate)
      /\ after.active = Put(store.active, d, store.nextId)
      /\ after.nextId = store.nextId + 1
      /\ candidate.ticket.documentId = d
  BY DEF AddCandidate, HasSlots
<1> HIDE DEF after, candidate, d
<1>2. /\ DOMAIN after.candidates = DOMAIN store.candidates \cup {store.nextId}
      /\ after.candidates[store.nextId] = candidate
      /\ \A x \in DOMAIN store.candidates \ {store.nextId} :
           after.candidates[x] = store.candidates[x]
  BY <1>1 DEF Put
<1>3. /\ DOMAIN after.active = DOMAIN store.active \cup {d}
      /\ after.active[d] = store.nextId
      /\ \A x \in DOMAIN store.active \ {d} : after.active[x] = store.active[x]
  BY <1>1 DEF Put
<1>4. SlotFilled(after, store, candidate)
  BY <1>1, <1>2, <1>3 DEF SlotFilled
<1> QED
  BY <1>4 DEF after, candidate

LEMMA StoresHaveSlots ==
    ASSUME NEW store, EditSlots(store),
           IsEditStore(store) \/ IsSplitStore(store)
    PROVE  HasSlots(store)
BY DEF HasSlots, IsEditStore, IsSplitStore, IsEditCandidateStore

LEMMA FilledThenFreed ==
    ASSUME NEW before, HasSlots(before), NEW candidate, NEW filled, NEW after,
           SlotFilled(filled, before, candidate),
           candidate.ticket.documentId \notin DOMAIN before.active,
           SlotFreed(after, filled, candidate.ticket.documentId)
    PROVE  SlotFreed(after, before, candidate.ticket.documentId)
<1> DEFINE d == candidate.ticket.documentId
<1>1. \A id \in DOMAIN before.candidates :
        /\ id \in Nat /\ id < before.nextId
        /\ before.candidates[id].ticket.documentId # d
  BY DEF HasSlots, EditSlots
<1>2. before.nextId \in Nat
  BY DEF HasSlots
<1>3. /\ after.nextId \in Nat /\ before.nextId <= after.nextId
      /\ DOMAIN after.active = DOMAIN before.active
      /\ d \notin DOMAIN before.active
  BY <1>2 DEF SlotFilled, SlotFreed
<1>4. \A x \in DOMAIN after.active : after.active[x] = before.active[x]
  BY DEF SlotFilled, SlotFreed
<1>5. ASSUME NEW id
      PROVE  /\ id \in DOMAIN after.candidates <=> id \in DOMAIN before.candidates
             /\ id \in DOMAIN after.candidates =>
                  after.candidates[id] = before.candidates[id]
  <2>1. CASE id = before.nextId
    BY <1>1, <1>2, <2>1 DEF SlotFilled, SlotFreed
  <2>2. CASE id # before.nextId
    BY <1>1, <2>2 DEF SlotFilled, SlotFreed
  <2> QED
    BY <2>1, <2>2
<1> HIDE DEF d
<1>6. SlotFreed(after, before, d)
  BY <1>1, <1>3, <1>4, <1>5 DEF SlotFreed
<1> QED
  BY <1>6 DEF d

LEMMA BeginEditSlots ==
    ASSUME NEW edits, IsEditStore(edits), EditSlots(edits), NEW d
    PROVE  /\ SlotFreed(BeginEdit(edits, d), edits, d)
           /\ BeginEdit(edits, d).current = Put(edits.current, d, Generation(edits, d) + 1)
<1> DEFINE dropped == DropActive(edits, d)
           after   == BeginEdit(edits, d)
<1>1. DOMAIN dropped = DOMAIN edits /\ dropped.current = edits.current
  BY EditStoreType, DropActiveType
<1>2. SlotFreed(dropped, edits, d)
  BY StoresHaveSlots, DropActiveFrees
<1>3. /\ SlotsKept(after, dropped)
      /\ after.current = Put(dropped.current, d, Generation(edits, d) + 1)
  BY <1>1 DEF BeginEdit, IsEditStore, SlotsKept
<1> HIDE DEF dropped, after
<1>4. SlotFreed(after, edits, d)
  BY <1>2, <1>3 DEF SlotFreed, SlotsKept
<1> QED
  BY <1>1, <1>3, <1>4 DEF after

LEMMA InvalidateSlots ==
    ASSUME NEW edits, IsEditStore(edits), EditSlots(edits), NEW ticket,
           IsLatest(edits, ticket)
    PROVE  LET d == ticket.documentId IN
           /\ SlotFreed(Invalidate(edits, ticket), edits, d)
           /\ Invalidate(edits, ticket).current = Put(edits.current, d, ticket.generation + 1)
<1> DEFINE d       == ticket.documentId
           dropped == DropActive(edits, d)
           after   == Invalidate(edits, ticket)
<1>1. DOMAIN dropped = DOMAIN edits /\ dropped.current = edits.current
  BY EditStoreType, DropActiveType
<1>2. SlotFreed(dropped, edits, d)
  BY StoresHaveSlots, DropActiveFrees
<1>3. /\ SlotsKept(after, dropped)
      /\ after.current = Put(dropped.current, d, ticket.generation + 1)
  BY <1>1 DEF Invalidate, IsEditStore, SlotsKept
<1> HIDE DEF d, dropped, after
<1>4. SlotFreed(after, edits, d)
  BY <1>2, <1>3 DEF SlotFreed, SlotsKept
<1> QED
  BY <1>1, <1>3, <1>4 DEF after, d

LEMMA ReleaseEditsSlots ==
    ASSUME NEW edits, IsEditStore(edits), EditSlots(edits), NEW d
    PROVE  /\ SlotFreed(ReleaseEdits(edits, d), edits, d)
           /\ ReleaseEdits(edits, d).current = Remove(edits.current, d)
<1> DEFINE dropped == DropActive(edits, d)
           after   == ReleaseEdits(edits, d)
<1>1. DOMAIN dropped = DOMAIN edits /\ dropped.current = edits.current
  BY EditStoreType, DropActiveType
<1>2. SlotFreed(dropped, edits, d)
  BY StoresHaveSlots, DropActiveFrees
<1>3. SlotsKept(after, dropped) /\ after.current = Remove(dropped.current, d)
  BY <1>1 DEF ReleaseEdits, IsEditStore, SlotsKept
<1> HIDE DEF dropped, after
<1>4. SlotFreed(after, edits, d)
  BY <1>2, <1>3 DEF SlotFreed, SlotsKept
<1> QED
  BY <1>1, <1>3, <1>4 DEF after

(* resolve accepted a mesh, and the page's snapshot of it failed to build. *)
LEMMA AddThenInvalidate ==
    ASSUME NEW edits, IsEditStore(edits), EditSlots(edits),
           NEW ticket \in EditTickets, NEW base \in Meshes, NEW mesh \in Meshes,
           IsLatest(edits, ticket), ticket.documentId \notin DOMAIN edits.active
    PROVE  LET d     == ticket.documentId
               after == Invalidate(AddCandidate(edits, ticket, base, mesh), ticket)
           IN  /\ SlotFreed(after, edits, d)
               /\ after.current = Put(edits.current, d, ticket.generation + 1)
<1> DEFINE added     == AddCandidate(edits, ticket, base, mesh)
           candidate == [ticket |-> ticket, base |-> base, result |-> mesh]
           after     == Invalidate(added, ticket)
<1>1. HasSlots(edits) /\ candidate.ticket = ticket
  BY StoresHaveSlots
<1>2. SlotFilled(added, edits, candidate)
  BY <1>1, AddFills
<1>3. IsEditStore(added)
  BY AddEditType
<1>4. added.current = edits.current
  BY EditStoreType, AddCandidateType
<1> HIDE DEF added, candidate
<1>5. EditSlots(added)
  BY <1>1, <1>2, FilledSlots
<1>6. IsLatest(added, ticket)
  BY <1>4 DEF IsLatest
<1>7. /\ SlotFreed(after, added, ticket.documentId)
      /\ after.current = Put(added.current, ticket.documentId, ticket.generation + 1)
  BY <1>3, <1>5, <1>6, InvalidateSlots
<1> HIDE DEF after
<1>8. SlotFreed(after, edits, ticket.documentId)
  BY <1>1, <1>2, <1>7, FilledThenFreed
<1> QED
  BY <1>4, <1>7, <1>8 DEF after, added

LEMMA DropFailedSlots ==
    ASSUME NEW splits, HasSlots(splits), NEW ticket
    PROVE  \/ SlotsKept(DropFailedSplit(splits, ticket), splits)
           \/ SlotFreed(DropFailedSplit(splits, ticket), splits, ticket.documentId)
BY DropActiveFrees DEF DropFailedSplit, SlotsKept

(* The same of a split, whose candidate is dropped by its generation. *)
LEMMA AddThenDrop ==
    ASSUME NEW splits, IsSplitStore(splits), EditSlots(splits),
           NEW ticket \in EditTickets, NEW base \in Meshes, NEW parts \in DocumentParts,
           ticket.documentId \notin DOMAIN splits.active
    PROVE  SlotFreed(DropFailedSplit(AddCandidate(splits, ticket, base, parts), ticket),
                     splits, ticket.documentId)
<1> DEFINE added     == AddCandidate(splits, ticket, base, parts)
           candidate == [ticket |-> ticket, base |-> base, result |-> parts]
           d         == ticket.documentId
<1>1. HasSlots(splits) /\ candidate.ticket = ticket
  BY StoresHaveSlots
<1>2. SlotFilled(added, splits, candidate)
  BY <1>1, AddFills
<1>3. IsSplitStore(added)
  BY AddSplitType
<1> HIDE DEF added, candidate
<1>4. EditSlots(added)
  BY <1>1, <1>2, FilledSlots
<1>5. HasSlots(added)
  BY <1>3, <1>4, StoresHaveSlots
<1>6. /\ d \in DOMAIN added.active /\ added.active[d] \in DOMAIN added.candidates
      /\ added.candidates[added.active[d]].ticket = ticket
  BY <1>1, <1>2 DEF SlotFilled
<1>7. DropFailedSplit(added, ticket) = DropActive(added, d)
  BY <1>6 DEF DropFailedSplit
<1>8. SlotFreed(DropActive(added, d), added, d)
  BY <1>5, DropActiveFrees
<1>9. SlotFreed(DropActive(added, d), splits, d)
  BY <1>1, <1>2, <1>8, FilledThenFreed
<1> QED
  BY <1>7, <1>9 DEF added
-----------------------------------------------------------------------------
(* What a step does to the stores, the generations and the requests *)

IsTextureResult(r, after) ==
    /\ IsRunning(r, "texture") /\ IsUpToDate(running[r])
    /\ \E mesh \in Meshes :
         SlotFilled(after, geometryEdits,
                    [ticket |-> TicketOf(running[r]), base |-> running[r].base,
                     result |-> mesh])

IsSplitResult(r, after) ==
    /\ IsRunning(r, "split") /\ IsUpToDate(running[r])
    /\ \E parts \in DocumentParts :
         /\ IsDivision(Parts(running[r].documentId), running[r].partId, parts)
         /\ SlotFilled(after, splitCandidates,
                       [ticket |-> TicketOf(running[r]), base |-> running[r].base,
                        result |-> parts])

(* Only the result of a texture request fills a slot of the edit store. *)
LEMMA EditsNext ==
    ASSUME StoresInv, TicketsInv, [Next]_vars
    PROVE  \/ SlotsKept(geometryEdits', geometryEdits)
           \/ \E d : SlotFreed(geometryEdits', geometryEdits, d)
           \/ \E r \in DOMAIN running :
                IsTextureResult(r, geometryEdits') /\ r \notin DOMAIN running'
<1>s. /\ IsEditStore(geometryEdits) /\ EditSlots(geometryEdits)
      /\ HasSlots(geometryEdits)
  BY StoresHaveSlots DEF StoresInv, TicketsInv
<1>1. ASSUME \/ UNCHANGED geometryEdits
             \/ \E d : \/ geometryEdits' = BeginEdit(geometryEdits, d)
                       \/ geometryEdits' = ReleaseEdits(geometryEdits, d)
             \/ \E id \in DOMAIN geometryEdits.candidates :
                  \/ geometryEdits' = DropCandidate(geometryEdits, id)
                  \/ geometryEdits' = ConsumeCandidate(geometryEdits, id)
             \/ \E ticket : geometryEdits' = Invalidate(geometryEdits, ticket)
      PROVE  \/ SlotsKept(geometryEdits', geometryEdits)
             \/ \E d : SlotFreed(geometryEdits', geometryEdits, d)
  <2>1. CASE UNCHANGED geometryEdits
    BY <2>1 DEF SlotsKept
  <2>2. ASSUME NEW d, \/ geometryEdits' = BeginEdit(geometryEdits, d)
                      \/ geometryEdits' = ReleaseEdits(geometryEdits, d)
        PROVE  SlotFreed(geometryEdits', geometryEdits, d)
    BY <1>s, <2>2, BeginEditSlots, ReleaseEditsSlots
  <2>3. ASSUME NEW id \in DOMAIN geometryEdits.candidates,
               \/ geometryEdits' = DropCandidate(geometryEdits, id)
               \/ geometryEdits' = ConsumeCandidate(geometryEdits, id)
        PROVE  \E d : SlotFreed(geometryEdits', geometryEdits, d)
    BY <1>s, <2>3, DropCandidateFrees, ConsumeFrees
  <2>4. ASSUME NEW ticket, geometryEdits' = Invalidate(geometryEdits, ticket)
        PROVE  \/ SlotsKept(geometryEdits', geometryEdits)
               \/ \E d : SlotFreed(geometryEdits', geometryEdits, d)
    <3>1. CASE IsLatest(geometryEdits, ticket)
      BY <1>s, <2>4, <3>1, InvalidateSlots
    <3>2. CASE ~IsLatest(geometryEdits, ticket)
      BY <2>4, <3>2 DEF Invalidate, SlotsKept
    <3> QED
      BY <3>1, <3>2
  <2> QED
    BY <1>1, <2>1, <2>2, <2>3, <2>4
<1>2. ASSUME NEW r \in Requests, NEW mesh \in Meshes, NEW rendered \in BOOLEAN,
             TextureFinish(r, mesh, rendered)
      PROVE  \/ \E d : SlotFreed(geometryEdits', geometryEdits, d)
             \/ IsTextureResult(r, geometryEdits') /\ r \notin DOMAIN running'
  <2> DEFINE ticket == TicketOf(running[r])
             base   == running[r].base
  <2>1. /\ IsRunning(r, "texture") /\ r \in DOMAIN running
        /\ IsLatest(geometryEdits, ticket) /\ IsUpToDate(running[r])
        /\ geometryEdits' =
             IF rendered THEN AddCandidate(geometryEdits, ticket, base, mesh)
             ELSE Invalidate(AddCandidate(geometryEdits, ticket, base, mesh), ticket)
    BY <1>2 DEF TextureFinish, IsRunning, IsUpToDate, TicketOf, IsLatest, SourceOf
  <2>2. r \notin DOMAIN running'
    BY <1>2 DEF TextureFinish, Ends, Remove, Restrict
  <2>3. ticket \in EditTickets /\ base \in Meshes
    BY <2>1, StoresInvTypeOK, RunningType
  <2>4. ticket.documentId \notin DOMAIN geometryEdits.active
    BY <2>1 DEF TicketsInv, OneTicketUpToDate, IsRunning, IsEdit, TicketOf
  <2>5. CASE rendered
    <3> HIDE DEF ticket, base
    <3>1. SlotFilled(geometryEdits', geometryEdits,
                     [ticket |-> ticket, base |-> base, result |-> mesh])
      BY <1>s, <2>1, <2>5, AddFills
    <3> QED
      BY <2>1, <2>2, <3>1 DEF IsTextureResult, ticket, base
  <2>6. CASE ~rendered
    <3> HIDE DEF ticket, base
    <3> QED
      BY <1>s, <2>1, <2>3, <2>4, <2>6, AddThenInvalidate
  <2> QED
    BY <2>5, <2>6
<1>3. CASE BeginStep
  BY <1>1, <1>3 DEF BeginStep, AnalyzeBegin, RepairBegin, FillBegin, TextureBegin,
                    SplitBegin, StartEdit, stores
<1>4. ASSUME NEW r \in Requests, NEW ids \in PartIds \X PartIds, NEW meshA \in Meshes,
             NEW meshB \in Meshes, NEW rendered \in BOOLEAN,
             SplitFinish(r, ids, meshA, meshB, rendered)
      PROVE  \/ SlotsKept(geometryEdits', geometryEdits)
             \/ \E d : SlotFreed(geometryEdits', geometryEdits, d)
  BY <1>1, <1>4 DEF SplitFinish
<1>5. CASE FinishStep
  <2>1. ASSUME NEW r \in Requests,
               \/ AnalyzeFinish(r)
               \/ \E mesh \in Meshes, tag \in Tags, delivered \in BOOLEAN :
                    RepairFinish(r, mesh, tag, delivered)
               \/ \E mesh \in Meshes, tag \in Tags : FillFinish(r, mesh, tag)
        PROVE  UNCHANGED geometryEdits
    BY <2>1 DEF AnalyzeFinish, RepairFinish, FillFinish, stores
  <2>2. ASSUME NEW r \in Requests, NEW mesh \in Meshes, NEW rendered \in BOOLEAN,
               TextureFinish(r, mesh, rendered)
        PROVE  r \in DOMAIN running
    BY <2>2 DEF TextureFinish, IsRunning
  <2> QED
    BY <1>1, <1>2, <1>4, <1>5, <2>1, <2>2 DEF FinishStep
<1>6. CASE FailStep
  BY <1>1, <1>6 DEF FailStep, Fails, TextureFails, SplitFails, stores
<1>7. CASE DiscardStep
  BY <1>1, <1>7 DEF DiscardStep, RepairDiscard, FillDiscard, EditDiscard, SplitDiscard
<1>8. CASE CommitStep
  BY <1>1, <1>8 DEF CommitStep, RepairCommit, FillCommit, EditCommit, SplitCommit, IsReady
<1>9. CASE \E d \in Documents : Release(d) \/ \E p \in PartIds : RepairPlan(d, p)
  BY <1>1, <1>9 DEF Release, RepairPlan, stores
<1>10. CASE \/ \E parts \in Imports : Import(parts)
            \/ \E key, source \in Handles : Undo(key, source)
  BY <1>1, <1>10 DEF Import, Undo, stores
<1>11. CASE UNCHANGED vars
  BY <1>1, <1>11 DEF vars
<1> QED
  BY <1>3, <1>5, <1>6, <1>7, <1>8, <1>9, <1>10, <1>11 DEF Next

(* Only the result of a split request fills a slot of the split store. *)
LEMMA SplitsNext ==
    ASSUME StoresInv, TicketsInv, [Next]_vars
    PROVE  \/ SlotsKept(splitCandidates', splitCandidates)
           \/ \E d : SlotFreed(splitCandidates', splitCandidates, d)
           \/ \E r \in DOMAIN running :
                IsSplitResult(r, splitCandidates') /\ r \notin DOMAIN running'
<1>s. /\ IsSplitStore(splitCandidates) /\ EditSlots(splitCandidates)
      /\ HasSlots(splitCandidates)
  BY StoresHaveSlots DEF StoresInv, TicketsInv
<1>1. ASSUME \/ UNCHANGED splitCandidates
             \/ \E d : splitCandidates' = DropActive(splitCandidates, d)
             \/ \E id \in DOMAIN splitCandidates.candidates :
                  \/ splitCandidates' = DropCandidate(splitCandidates, id)
                  \/ splitCandidates' = ConsumeCandidate(splitCandidates, id)
             \/ \E ticket : splitCandidates' = DropFailedSplit(splitCandidates, ticket)
      PROVE  \/ SlotsKept(splitCandidates', splitCandidates)
             \/ \E d : SlotFreed(splitCandidates', splitCandidates, d)
  <2>1. CASE UNCHANGED splitCandidates
    BY <2>1 DEF SlotsKept
  <2>2. CASE \E d : splitCandidates' = DropActive(splitCandidates, d)
    BY <1>s, <2>2, DropActiveFrees
  <2>3. ASSUME NEW id \in DOMAIN splitCandidates.candidates,
               \/ splitCandidates' = DropCandidate(splitCandidates, id)
               \/ splitCandidates' = ConsumeCandidate(splitCandidates, id)
        PROVE  \E d : SlotFreed(splitCandidates', splitCandidates, d)
    BY <1>s, <2>3, DropCandidateFrees, ConsumeFrees
  <2>4. CASE \E ticket : splitCandidates' = DropFailedSplit(splitCandidates, ticket)
    BY <1>s, <2>4, DropFailedSlots
  <2> QED
    BY <1>1, <2>1, <2>2, <2>3, <2>4
<1>2. ASSUME NEW r \in Requests, NEW ids \in PartIds \X PartIds, NEW meshA \in Meshes,
             NEW meshB \in Meshes, NEW rendered \in BOOLEAN,
             SplitFinish(r, ids, meshA, meshB, rendered)
      PROVE  \/ \E d : SlotFreed(splitCandidates', splitCandidates, d)
             \/ IsSplitResult(r, splitCandidates') /\ r \notin DOMAIN running'
  <2> DEFINE ticket == TicketOf(running[r])
             base   == running[r].base
             d      == ticket.documentId
             parts  == WithPieces(Parts(d), ticket.partId, ids[1], meshA, ids[2], meshB)
  <2>1. /\ IsRunning(r, "split") /\ r \in DOMAIN running
        /\ IsLatest(geometryEdits, ticket) /\ IsUpToDate(running[r])
        /\ d \in DOMAIN resident
        /\ splitCandidates' =
             IF rendered THEN AddCandidate(splitCandidates, ticket, base, parts)
             ELSE DropFailedSplit(AddCandidate(splitCandidates, ticket, base, parts), ticket)
    BY <1>2 DEF SplitFinish, IsRunning, IsUpToDate, TicketOf, IsLatest, SourceOf, Has, Handle
  <2>2. r \notin DOMAIN running'
    BY <1>2 DEF SplitFinish, Ends, Remove, Restrict
  <2>3. ticket \in EditTickets /\ base \in Meshes
    BY <2>1, StoresInvTypeOK, RunningType
  <2>4. /\ ids[1] \in PartIds \ DOMAIN Parts(d) /\ ids[2] \in PartIds \ DOMAIN Parts(d)
        /\ ids[1] # ids[2]
    BY <1>2 DEF SplitFinish, FreshPieces
  <2>5. parts \in DocumentParts
    BY <2>1, <2>4, StoresInvTypeOK, ResidentType, WithPiecesType
  <2>6. IsDivision(Parts(d), ticket.partId, parts)
    BY <2>4 DEF IsDivision
  <2>7. d \notin DOMAIN splitCandidates.active
    BY <2>1 DEF TicketsInv, OneTicketUpToDate, IsRunning, IsEdit, TicketOf
  <2>8. d = running[r].documentId /\ ticket.partId = running[r].partId
    BY DEF TicketOf
  <2> HIDE DEF parts
  <2>9. CASE rendered
    <3> HIDE DEF ticket, base, d
    <3>1. SlotFilled(splitCandidates', splitCandidates,
                     [ticket |-> ticket, base |-> base, result |-> parts])
      BY <1>s, <2>1, <2>9, AddFills
    <3> QED
      BY <2>1, <2>2, <2>5, <2>6, <2>8, <3>1 DEF IsSplitResult, ticket, base
  <2>10. CASE ~rendered
    <3> HIDE DEF ticket, base
    <3> QED
      BY <1>s, <2>1, <2>3, <2>5, <2>7, <2>10, AddThenDrop
  <2> QED
    BY <2>9, <2>10
<1>3. CASE BeginStep
  BY <1>1, <1>3 DEF BeginStep, AnalyzeBegin, RepairBegin, FillBegin, TextureBegin,
                    SplitBegin, stores
<1>4. CASE FinishStep
  <2>1. ASSUME NEW r \in Requests,
               \/ AnalyzeFinish(r)
               \/ \E mesh \in Meshes, tag \in Tags, delivered \in BOOLEAN :
                    RepairFinish(r, mesh, tag, delivered)
               \/ \E mesh \in Meshes, tag \in Tags : FillFinish(r, mesh, tag)
               \/ \E mesh \in Meshes, rendered \in BOOLEAN : TextureFinish(r, mesh, rendered)
        PROVE  UNCHANGED splitCandidates
    BY <2>1 DEF AnalyzeFinish, RepairFinish, FillFinish, TextureFinish, stores
  <2>2. ASSUME NEW r \in Requests, NEW ids \in PartIds \X PartIds, NEW meshA \in Meshes,
               NEW meshB \in Meshes, NEW rendered \in BOOLEAN,
               SplitFinish(r, ids, meshA, meshB, rendered)
        PROVE  r \in DOMAIN running
    BY <2>2 DEF SplitFinish, IsRunning
  <2> QED
    BY <1>1, <1>2, <1>4, <2>1, <2>2 DEF FinishStep
<1>5. CASE FailStep
  BY <1>1, <1>5 DEF FailStep, Fails, TextureFails, SplitFails, stores
<1>6. CASE DiscardStep
  BY <1>1, <1>6 DEF DiscardStep, RepairDiscard, FillDiscard, EditDiscard, SplitDiscard
<1>7. CASE CommitStep
  BY <1>1, <1>7 DEF CommitStep, RepairCommit, FillCommit, EditCommit, SplitCommit, IsReady
<1>8. CASE \E d \in Documents : Release(d) \/ \E p \in PartIds : RepairPlan(d, p)
  BY <1>1, <1>8 DEF Release, RepairPlan, stores
<1>9. CASE \/ \E parts \in Imports : Import(parts)
           \/ \E key, source \in Handles : Undo(key, source)
  BY <1>1, <1>9 DEF Import, Undo, stores
<1>10. CASE UNCHANGED vars
  BY <1>1, <1>10 DEF vars
<1> QED
  BY <1>3, <1>4, <1>5, <1>6, <1>7, <1>8, <1>9, <1>10 DEF Next

(* Within a revision a document's generation only grows, and only a change  *)
(* of revision or a release lets its generations start again.               *)
GenerationRises(d) ==
    \E n \in Nat : /\ n > Generation(geometryEdits, d)
                   /\ geometryEdits'.current = Put(geometryEdits.current, d, n)

DocumentOpens ==
    /\ \E parts : resident' = Put(resident, nextDocument, [revision |-> 1, parts |-> parts])
    /\ nextDocument' = nextDocument + 1
    /\ UNCHANGED geometryEdits

DocumentCloses(d) ==
    /\ resident' = Remove(resident, d)
    /\ UNCHANGED nextDocument
    /\ geometryEdits'.current = Remove(geometryEdits.current, d)
    /\ SlotFreed(geometryEdits', geometryEdits, d)
    /\ SlotFreed(splitCandidates', splitCandidates, d)
    /\ holeFillCandidates' = ReleaseCandidate(holeFillCandidates, d)

DocumentChanges(d) ==
    /\ \E parts : Replace(d, parts)
    /\ UNCHANGED nextDocument
    /\ \/ geometryEdits'.current = geometryEdits.current
       \/ geometryEdits'.current = Remove(geometryEdits.current, d)

LEMMA GenerationsNext ==
    ASSUME StoresInv, TicketsInv, [Next]_vars
    PROVE  \/ /\ UNCHANGED <<resident, nextDocument>>
              /\ \/ geometryEdits'.current = geometryEdits.current
                 \/ \E d \in DOMAIN resident : GenerationRises(d)
           \/ DocumentOpens
           \/ \E d \in DOMAIN resident : DocumentCloses(d) \/ DocumentChanges(d)
<1>s. /\ IsEditStore(geometryEdits) /\ EditSlots(geometryEdits)
      /\ HasSlots(splitCandidates)
      /\ IsEditCandidateStore(geometryEdits, Meshes)
      /\ {"candidates", "active", "nextId", "current"} \subseteq DOMAIN geometryEdits
      /\ \A d : Generation(geometryEdits, d) \in Nat
  BY StoresHaveSlots, EditStoreType DEF StoresInv, TicketsInv
<1>1. ASSUME NEW id
      PROVE  /\ DropCandidate(geometryEdits, id).current = geometryEdits.current
             /\ ConsumeCandidate(geometryEdits, id).current = geometryEdits.current
  BY <1>s, DropCandidateType, ConsumeCandidateType
<1>2. ASSUME NEW d \in DOMAIN resident, geometryEdits' = BeginEdit(geometryEdits, d)
      PROVE  GenerationRises(d)
  BY <1>s, <1>2, BeginEditSlots DEF GenerationRises
<1>3. ASSUME NEW ticket \in EditTickets, geometryEdits' = Invalidate(geometryEdits, ticket)
      PROVE  \/ geometryEdits'.current = geometryEdits.current
             \/ \E d \in DOMAIN resident : GenerationRises(d)
  <2>1. CASE ~IsLatest(geometryEdits, ticket)
    BY <1>3, <2>1 DEF Invalidate
  <2>2. CASE IsLatest(geometryEdits, ticket)
    <3> DEFINE d == ticket.documentId
    <3>1. d \in DOMAIN resident /\ Generation(geometryEdits, d) = ticket.generation
      BY <2>2 DEF IsLatest, TicketsInv, Generation
    <3>2. geometryEdits'.current = Put(geometryEdits.current, d, ticket.generation + 1)
      BY <1>s, <1>3, <2>2, InvalidateSlots
    <3>3. ticket.generation \in Nat
      BY DEF EditTickets
    <3> QED
      BY <3>1, <3>2, <3>3 DEF GenerationRises
  <2> QED
    BY <2>1, <2>2
<1>4. \A d : ReleaseEdits(geometryEdits, d).current = Remove(geometryEdits.current, d)
  BY <1>s, ReleaseEditsSlots
<1>5. \A r \in DOMAIN running : TicketOf(running[r]) \in EditTickets /\ running[r].base \in Meshes
  BY StoresInvTypeOK, RunningType
<1>6. CASE BeginStep
  <2>1. UNCHANGED <<resident, nextDocument>>
    BY <1>6 DEF BeginStep, AnalyzeBegin, RepairBegin, FillBegin, TextureBegin, SplitBegin
  <2>2. \/ UNCHANGED geometryEdits
        \/ \E d \in DOMAIN resident : geometryEdits' = BeginEdit(geometryEdits, d)
    BY <1>6 DEF BeginStep, AnalyzeBegin, RepairBegin, FillBegin, TextureBegin, SplitBegin,
                StartEdit, HasPart, stores
  <2> QED
    BY <1>2, <2>1, <2>2
<1>7. ASSUME NEW r \in Requests, NEW mesh \in Meshes, NEW rendered \in BOOLEAN,
             TextureFinish(r, mesh, rendered)
      PROVE  /\ UNCHANGED <<resident, nextDocument>>
             /\ \/ geometryEdits'.current = geometryEdits.current
                \/ \E d \in DOMAIN resident : GenerationRises(d)
  <2> DEFINE ticket == TicketOf(running[r])
             base   == running[r].base
  <2>1. /\ r \in DOMAIN running /\ IsLatest(geometryEdits, ticket)
        /\ IsUpToDate(running[r]) /\ IsEdit(running[r])
        /\ geometryEdits' =
             IF rendered THEN AddCandidate(geometryEdits, ticket, base, mesh)
             ELSE Invalidate(AddCandidate(geometryEdits, ticket, base, mesh), ticket)
    BY <1>7 DEF TextureFinish, IsRunning, IsEdit, IsUpToDate, TicketOf, IsLatest, SourceOf
  <2>2. ticket \in EditTickets /\ base \in Meshes
    BY <1>5, <2>1
  <2>3. ticket.documentId \notin DOMAIN geometryEdits.active
    BY <2>1 DEF TicketsInv, OneTicketUpToDate, TicketOf
  <2>4. /\ ticket.documentId \in DOMAIN resident
        /\ Generation(geometryEdits, ticket.documentId) = ticket.generation
        /\ ticket.generation \in Nat
    BY <2>1, <2>2 DEF IsLatest, TicketsInv, Generation, EditTickets
  <2>5. UNCHANGED <<resident, nextDocument>>
    BY <1>7 DEF TextureFinish
  <2> HIDE DEF ticket, base
  <2>6. CASE rendered
    BY <1>s, <2>1, <2>2, <2>5, <2>6, AddCandidateType
  <2>7. CASE ~rendered
    <3>1. geometryEdits'.current =
            Put(geometryEdits.current, ticket.documentId, ticket.generation + 1)
      BY <1>s, <2>1, <2>2, <2>3, <2>7, AddThenInvalidate
    <3> QED
      BY <2>4, <2>5, <3>1 DEF GenerationRises
  <2> QED
    BY <2>6, <2>7
<1>8. CASE FinishStep
  <2>1. ASSUME NEW r \in Requests,
               \/ AnalyzeFinish(r)
               \/ \E mesh \in Meshes, tag \in Tags, delivered \in BOOLEAN :
                    RepairFinish(r, mesh, tag, delivered)
               \/ \E mesh \in Meshes, tag \in Tags : FillFinish(r, mesh, tag)
        PROVE  UNCHANGED <<resident, nextDocument, geometryEdits>>
    BY <2>1 DEF AnalyzeFinish, RepairFinish, FillFinish, stores
  <2>2. ASSUME NEW r \in Requests, NEW ids \in PartIds \X PartIds, NEW meshA \in Meshes,
               NEW meshB \in Meshes, NEW rendered \in BOOLEAN,
               SplitFinish(r, ids, meshA, meshB, rendered)
        PROVE  /\ UNCHANGED <<resident, nextDocument>>
               /\ r \in DOMAIN running
               /\ \/ UNCHANGED geometryEdits
                  \/ geometryEdits' = Invalidate(geometryEdits, TicketOf(running[r]))
    BY <2>2 DEF SplitFinish, IsRunning
  <2> QED
    BY <1>3, <1>5, <1>7, <1>8, <2>1, <2>2 DEF FinishStep
<1>9. CASE FailStep
  BY <1>3, <1>5, <1>9 DEF FailStep, Fails, TextureFails, SplitFails, IsRunning, stores
<1>10. CASE DiscardStep
  <2>1. ASSUME NEW id \in CandidateIds, SplitDiscard(id)
        PROVE  splitCandidates.candidates[id].ticket \in EditTickets
    BY <2>1 DEF SplitDiscard, StoresInv, IsSplitStore, IsEditCandidateStore, IsMap
  <2> QED
    BY <1>1, <1>3, <1>10, <2>1
       DEF DiscardStep, RepairDiscard, FillDiscard, EditDiscard, SplitDiscard
<1>11. CASE CommitStep
  BY <1>1, <1>4, <1>11 DEF CommitStep, RepairCommit, FillCommit, EditCommit, SplitCommit,
                           Has, DocumentChanges
<1>12. ASSUME NEW d \in Documents, Release(d)
       PROVE  d \in DOMAIN resident /\ DocumentCloses(d)
  BY <1>s, <1>4, <1>12, ReleaseEditsSlots, DropActiveFrees DEF Release, DocumentCloses
<1>13. CASE \E d \in Documents, p \in PartIds : RepairPlan(d, p)
  BY <1>13 DEF RepairPlan, stores
<1>14. CASE \E parts \in Imports : Import(parts)
  BY <1>14 DEF Import, DocumentOpens, stores
<1>15. CASE \E key, source \in Handles : Undo(key, source)
  BY <1>4, <1>15 DEF Undo, Has, DocumentChanges
<1>16. CASE UNCHANGED vars
  BY <1>16 DEF vars
<1> QED
  BY <1>6, <1>8, <1>9, <1>10, <1>11, <1>12, <1>13, <1>14, <1>15, <1>16 DEF Next

(* One request begins: it takes the document's next generation and frees    *)
(* its slots.                                                               *)
Begins(r, d) ==
    /\ r \notin DOMAIN running /\ d \in DOMAIN resident
    /\ running'[r].documentId = d
    /\ running'[r].revision = Revision(d)
    /\ running'[r].generation = Generation(geometryEdits, d) + 1
    /\ geometryEdits'.current =
         Put(geometryEdits.current, d, Generation(geometryEdits, d) + 1)
    /\ UNCHANGED <<resident, nextDocument>>
    /\ \A x \in DOMAIN running' \ {r} : x \in DOMAIN running /\ running'[x] = running[x]
    /\ SlotFreed(geometryEdits', geometryEdits, d)
    /\ \/ running'[r].op = "texture" /\ UNCHANGED splitCandidates
       \/ running'[r].op = "split" /\ SlotFreed(splitCandidates', splitCandidates, d)

LEMMA RequestsNext ==
    ASSUME StoresInv, TicketsInv, [Next]_vars
    PROVE  \A r \in DOMAIN running' :
             IsEdit(running'[r]) =>
               \/ r \in DOMAIN running /\ running'[r] = running[r]
               \/ \E d : Begins(r, d)
<1>s. /\ IsEditStore(geometryEdits) /\ EditSlots(geometryEdits)
      /\ HasSlots(splitCandidates)
  BY StoresHaveSlots DEF StoresInv, TicketsInv
<1>1. ASSUME NEW r \in Requests, NEW d \in Documents, NEW p \in PartIds,
             TextureBegin(r, d, p) \/ SplitBegin(r, d, p)
      PROVE  /\ Begins(r, d)
             /\ \A x \in DOMAIN running' : x # r => x \in DOMAIN running /\ running'[x] = running[x]
  <2>1. PICK op \in {"texture", "split"} :
          /\ StartEdit(r, op, d, p)
          /\ UNCHANGED <<resident, nextDocument>>
          /\ \/ op = "texture" /\ UNCHANGED splitCandidates
             \/ op = "split" /\ splitCandidates' = DropActive(splitCandidates, d)
    BY <1>1 DEF TextureBegin, SplitBegin
  <2>2. /\ r \notin DOMAIN running /\ d \in DOMAIN resident
        /\ running' = Put(running, r, [Ticket(op, d, p) EXCEPT
                                         !.generation = EditTicket(d, p).generation])
        /\ geometryEdits' = BeginEdit(geometryEdits, d)
    BY <2>1 DEF StartEdit, HasPart, Start
  <2>3. /\ running'[r] = [Ticket(op, d, p) EXCEPT !.generation = EditTicket(d, p).generation]
        /\ \A x \in DOMAIN running' : x # r => x \in DOMAIN running /\ running'[x] = running[x]
    BY <2>2 DEF Put
  <2>4. /\ running'[r].op = op /\ running'[r].documentId = d
        /\ running'[r].revision = Revision(d)
        /\ running'[r].generation = Generation(geometryEdits, d) + 1
    BY <2>3 DEF Ticket, EditTicket
  <2>5. /\ SlotFreed(geometryEdits', geometryEdits, d)
        /\ geometryEdits'.current =
             Put(geometryEdits.current, d, Generation(geometryEdits, d) + 1)
    BY <1>s, <2>2, BeginEditSlots
  <2>6. \/ op = "texture" /\ UNCHANGED splitCandidates
        \/ op = "split" /\ SlotFreed(splitCandidates', splitCandidates, d)
    BY <1>s, <2>1, DropActiveFrees
  <2> QED
    BY <2>1, <2>2, <2>3, <2>4, <2>5, <2>6 DEF Begins
<1>2. ASSUME NEW r \in Requests, NEW ticket, Start(r, ticket), ~IsEdit(ticket)
      PROVE  \A x \in DOMAIN running' :
               IsEdit(running'[x]) => x \in DOMAIN running /\ running'[x] = running[x]
  BY <1>2 DEF Start, Put
<1>3. ASSUME NEW r \in Requests, Ends(r) \/ UNCHANGED running
      PROVE  \A x \in DOMAIN running' : x \in DOMAIN running /\ running'[x] = running[x]
  BY <1>3 DEF Ends, Remove, Restrict
<1>4. CASE BeginStep
  <2>1. PICK r \in Requests, d \in Documents, p \in PartIds :
          \/ AnalyzeBegin(r, d, p) \/ RepairBegin(r, d, p) \/ FillBegin(r, d, p)
          \/ TextureBegin(r, d, p) \/ SplitBegin(r, d, p)
    BY <1>4 DEF BeginStep
  <2>2. CASE AnalyzeBegin(r, d, p) \/ RepairBegin(r, d, p) \/ FillBegin(r, d, p)
    <3>1. \E ticket : Start(r, ticket) /\ ~IsEdit(ticket)
      <4>1. CASE AnalyzeBegin(r, d, p)
        BY <4>1 DEF AnalyzeBegin, Ticket, IsEdit
      <4>2. CASE RepairBegin(r, d, p)
        BY <4>2 DEF RepairBegin, Ticket, IsEdit
      <4>3. CASE FillBegin(r, d, p)
        BY <4>3 DEF FillBegin, Ticket, IsEdit
      <4> QED
        BY <2>2, <4>1, <4>2, <4>3
    <3> QED
      BY <1>2, <3>1
  <2>3. CASE TextureBegin(r, d, p) \/ SplitBegin(r, d, p)
    BY <1>1, <2>3
  <2> QED
    BY <2>1, <2>2, <2>3
<1>5. CASE (\E r \in Requests : Ends(r)) \/ UNCHANGED running
  BY <1>5 DEF Ends, Remove, Restrict
<1>6. BeginStep \/ (\E r \in Requests : Ends(r)) \/ UNCHANGED running
  <2>1. CASE FinishStep
    BY <2>1 DEF FinishStep, AnalyzeFinish, RepairFinish, FillFinish, TextureFinish, SplitFinish
  <2>2. CASE FailStep
    BY <2>2 DEF FailStep, Fails, TextureFails, SplitFails
  <2>3. CASE DiscardStep
    BY <2>3 DEF DiscardStep, RepairDiscard, FillDiscard, EditDiscard, SplitDiscard
  <2>4. CASE CommitStep
    BY <2>4 DEF CommitStep, RepairCommit, FillCommit, EditCommit, SplitCommit
  <2>5. CASE \E d \in Documents : Release(d) \/ \E p \in PartIds : RepairPlan(d, p)
    BY <2>5 DEF Release, RepairPlan
  <2>6. CASE \/ \E parts \in Imports : Import(parts)
             \/ \E key, source \in Handles : Undo(key, source)
    BY <2>6 DEF Import, Undo
  <2>7. CASE UNCHANGED vars
    BY <2>7 DEF vars
  <2> QED
    BY <2>1, <2>2, <2>3, <2>4, <2>5, <2>6, <2>7 DEF Next
<1> QED
  BY <1>4, <1>5, <1>6

-----------------------------------------------------------------------------
(* A ticket that is out of date stays so *)

IsTicket(ticket) ==
    /\ ticket.documentId \in Nat
    /\ ticket.revision \in Nat
    /\ ticket.generation \in Nat

LEMMA StaleStaysStale ==
    ASSUME StoresInv, TicketsInv, [Next]_vars, NEW ticket, IsTicket(ticket), WasIssued(ticket)
    PROVE  WasIssued(ticket)' /\ (IsUpToDate(ticket)' => IsUpToDate(ticket))
<1> DEFINE d   == ticket.documentId
           now == geometryEdits.current
<1>s. /\ nextDocument \in Nat
      /\ \A x \in DOMAIN resident : Revision(x) \in Nat
      /\ \A x \in DOMAIN now : now[x] \in Nat
      /\ \A x \in DOMAIN now : x \in DOMAIN resident
      /\ d \in Nat /\ d < nextDocument
      /\ ticket.revision \in Nat /\ ticket.generation \in Nat
      /\ \A x : Generation(geometryEdits, x) \in Nat
  <2>1. \A x \in DOMAIN resident : Revision(x) \in Nat
    BY StoresInvTypeOK, ResidentType DEF Revisions
  <2> QED
    BY <2>1, EditStoreType
       DEF StoresInv, TicketsInv, WasIssued, IsTicket, IsEditStore, IsMap, DocumentIds
<1>1. CASE UNCHANGED <<resident, nextDocument>> /\ geometryEdits'.current = now
  BY <1>1 DEF WasIssued, IsUpToDate, IsLatest, Has, SourceOf, Handle, Revision
<1>2. ASSUME NEW x \in DOMAIN resident, GenerationRises(x), UNCHANGED <<resident, nextDocument>>
      PROVE  WasIssued(ticket)' /\ (IsUpToDate(ticket)' => IsUpToDate(ticket))
  <2>1. PICK n \in Nat : n > Generation(geometryEdits, x) /\ geometryEdits'.current = Put(now, x, n)
    BY <1>2 DEF GenerationRises
  <2>2. CASE d = x
    BY <1>s, <1>2, <2>1, <2>2
       DEF WasIssued, IsUpToDate, IsLatest, Has, SourceOf, Handle, Revision, Put, Generation
  <2>3. CASE d # x
    BY <1>s, <1>2, <2>1, <2>3
       DEF WasIssued, IsUpToDate, IsLatest, Has, SourceOf, Handle, Revision, Put
  <2> QED
    BY <2>2, <2>3
<1>3. CASE DocumentOpens
  BY <1>s, <1>3
     DEF DocumentOpens, WasIssued, IsUpToDate, IsLatest, Has, SourceOf, Handle, Revision, Put
<1>4. ASSUME NEW x \in DOMAIN resident, DocumentCloses(x)
      PROVE  WasIssued(ticket)' /\ (IsUpToDate(ticket)' => IsUpToDate(ticket))
  BY <1>4 DEF DocumentCloses, WasIssued, IsUpToDate, IsLatest, Has, SourceOf, Handle,
              Revision, Remove, Restrict
<1>5. ASSUME NEW x \in DOMAIN resident, DocumentChanges(x)
      PROVE  WasIssued(ticket)' /\ (IsUpToDate(ticket)' => IsUpToDate(ticket))
  <2>1. PICK parts : Replace(x, parts)
    BY <1>5 DEF DocumentChanges
  <2>2. /\ DOMAIN resident' = DOMAIN resident
        /\ Revision(x)' = Revision(x) + 1
        /\ \A y \in DOMAIN resident \ {x} : resident'[y] = resident[y]
    BY <2>1 DEF Replace, Revision
  <2>3. CASE d = x
    BY <1>s, <1>5, <2>2, <2>3
       DEF DocumentChanges, WasIssued, IsUpToDate, IsLatest, Has, SourceOf, Handle
  <2>4. CASE d # x
    BY <1>5, <2>2, <2>4
       DEF DocumentChanges, WasIssued, IsUpToDate, IsLatest, Has, SourceOf, Handle, Revision,
           Remove, Restrict
  <2> QED
    BY <2>3, <2>4
<1> QED
  BY <1>1, <1>2, <1>3, <1>4, <1>5, GenerationsNext

(* A request that begins leaves no earlier one up to date. *)
LEMMA BeginsAlone ==
    ASSUME StoresInv, SourcesInv, TicketsInv, NEW r, NEW d, Begins(r, d)
    PROVE  /\ WasIssued(running[r])'
           /\ \A ticket :
                IsTicket(ticket) /\ WasIssued(ticket) /\ ticket.documentId = d
                  => ~IsUpToDate(ticket)'
<1>1. /\ running'[r].documentId = d /\ d \in DOMAIN resident
      /\ running'[r].revision = Revision(d)
      /\ running'[r].generation = Generation(geometryEdits, d) + 1
      /\ geometryEdits'.current =
           Put(geometryEdits.current, d, Generation(geometryEdits, d) + 1)
      /\ UNCHANGED <<resident, nextDocument>>
  BY DEF Begins
<1>2. /\ Revision(d)' = Revision(d)
      /\ d < nextDocument
      /\ Generation(geometryEdits, d) \in Nat /\ Revision(d) \in Nat
  <2>1. Revision(d) \in Nat
    BY <1>1, StoresInvTypeOK, ResidentType DEF Revisions
  <2> QED
    BY <1>1, <2>1, EditStoreType DEF Revision, StoresInv, LineageIsResident, SourcesInv
<1>3. /\ d \in DOMAIN geometryEdits'.current
      /\ geometryEdits'.current[d] = Generation(geometryEdits, d) + 1
  BY <1>1 DEF Put
<1>4. WasIssued(running[r])'
  BY <1>1, <1>2, <1>3 DEF WasIssued
<1>5. ASSUME NEW ticket, IsTicket(ticket), WasIssued(ticket), ticket.documentId = d
      PROVE  ~IsUpToDate(ticket)'
  <2>1. ticket.generation \in Nat
    BY <1>5 DEF IsTicket
  <2>2. CASE ticket.revision # Revision(d)
    BY <1>2, <1>5, <2>2 DEF IsUpToDate, Has, SourceOf, Handle
  <2>3. CASE ticket.revision = Revision(d)
    <3>1. ticket.generation <= Generation(geometryEdits, d)
      BY <1>1, <1>5, <2>3 DEF WasIssued, Generation
    <3> QED
      BY <1>2, <1>3, <1>5, <2>1, <3>1 DEF IsUpToDate, IsLatest
  <2> QED
    BY <2>2, <2>3
<1> QED
  BY <1>4, <1>5

(* What the requests and the candidates hold are tickets. *)
LEMMA HeldTickets ==
    ASSUME StoresInv
    PROVE  /\ \A r \in DOMAIN running :
                /\ IsTicket(running[r])
                /\ running[r].documentId = TicketOf(running[r]).documentId
                /\ IsUpToDate(TicketOf(running[r])) <=> IsUpToDate(running[r])
                /\ WasIssued(TicketOf(running[r])) <=> WasIssued(running[r])
           /\ \A id \in DOMAIN geometryEdits.candidates :
                IsTicket(geometryEdits.candidates[id].ticket)
           /\ \A id \in DOMAIN splitCandidates.candidates :
                IsTicket(splitCandidates.candidates[id].ticket)
<1>1. \A ticket \in EditTickets : IsTicket(ticket)
  BY DEF EditTickets, IsTicket, DocumentIds, Revisions
<1>2. ASSUME NEW r \in DOMAIN running
      PROVE  /\ IsTicket(running[r])
             /\ running[r].documentId = TicketOf(running[r]).documentId
             /\ IsUpToDate(TicketOf(running[r])) <=> IsUpToDate(running[r])
             /\ WasIssued(TicketOf(running[r])) <=> WasIssued(running[r])
  <2>1. running[r] \in RunningTickets
    BY StoresInvTypeOK, RunningType
  <2>2. IsTicket(running[r])
    BY <2>1 DEF RunningTickets, IsTicket, DocumentIds, Revisions
  <2> QED
    BY <2>2 DEF TicketOf, IsUpToDate, IsLatest, SourceOf, WasIssued
<1>3. /\ \A id \in DOMAIN geometryEdits.candidates :
           geometryEdits.candidates[id].ticket \in EditTickets
      /\ \A id \in DOMAIN splitCandidates.candidates :
           splitCandidates.candidates[id].ticket \in EditTickets
  BY DEF StoresInv, IsEditStore, IsSplitStore, IsEditCandidateStore, IsMap
<1> QED
  BY <1>1, <1>2, <1>3

(* Where the edit store has a candidate that can be applied, it had it      *)
(* before, or a texture request that could deliver it had no rival.         *)
LEMMA TicketsNext == StoresInv /\ SourcesInv /\ TicketsInv /\ [Next]_vars => TicketsInv'
<1> SUFFICES ASSUME StoresInv, SourcesInv, TicketsInv, [Next]_vars PROVE TicketsInv'
  OBVIOUS
<1> DEFINE edits  == geometryEdits.candidates
           splits == splitCandidates.candidates
           edit(d)  == geometryEdits.candidates[geometryEdits.active[d]].ticket
           split(d) == splitCandidates.candidates[splitCandidates.active[d]].ticket
<1>s. /\ HasSlots(geometryEdits) /\ HasSlots(splitCandidates)
      /\ EditSlots(geometryEdits) /\ EditSlots(splitCandidates)
  BY StoresHaveSlots DEF StoresInv, TicketsInv
<1>t. \A ticket : IsTicket(ticket) /\ WasIssued(ticket) =>
        WasIssued(ticket)' /\ (IsUpToDate(ticket)' => IsUpToDate(ticket))
  BY StaleStaysStale DEF IsTicket
<1>r. /\ \A r \in DOMAIN running :
           /\ IsTicket(running[r])
           /\ running[r].documentId = TicketOf(running[r]).documentId
           /\ IsUpToDate(TicketOf(running[r])) <=> IsUpToDate(running[r])
           /\ WasIssued(TicketOf(running[r])) <=> WasIssued(running[r])
      /\ \A id \in DOMAIN edits : IsTicket(edits[id].ticket) /\ WasIssued(edits[id].ticket)
      /\ \A id \in DOMAIN splits : IsTicket(splits[id].ticket) /\ WasIssued(splits[id].ticket)
      /\ \A r \in DOMAIN running : IsEdit(running[r]) => WasIssued(running[r])
  BY HeldTickets DEF TicketsInv
<1>e. ASSUME NEW r \in DOMAIN running, IsTextureResult(r, geometryEdits')
      PROVE  /\ IsEdit(running[r]) /\ IsUpToDate(running[r])
             /\ running[r].documentId \notin DOMAIN geometryEdits.active
             /\ running[r].documentId \in DOMAIN splitCandidates.active =>
                  ~IsUpToDate(split(running[r].documentId))
             /\ \E mesh : SlotFilled(geometryEdits', geometryEdits,
                    [ticket |-> TicketOf(running[r]), base |-> running[r].base, result |-> mesh])
  BY <1>e DEF IsTextureResult, IsRunning, IsEdit, TicketsInv, OneTicketUpToDate
<1>d. ASSUME NEW r \in DOMAIN running, IsSplitResult(r, splitCandidates')
      PROVE  /\ IsEdit(running[r]) /\ IsUpToDate(running[r])
             /\ running[r].documentId \notin DOMAIN geometryEdits.active
             /\ running[r].documentId \notin DOMAIN splitCandidates.active
             /\ \E parts : SlotFilled(splitCandidates', splitCandidates,
                    [ticket |-> TicketOf(running[r]), base |-> running[r].base, result |-> parts])
  BY <1>d DEF IsSplitResult, IsRunning, IsEdit, TicketsInv, OneTicketUpToDate
<1>1. EditSlots(geometryEdits')
  <2>1. CASE \E r \in DOMAIN running : IsTextureResult(r, geometryEdits')
    <3>1. PICK r \in DOMAIN running : IsTextureResult(r, geometryEdits')
      BY <2>1
    <3>2. PICK mesh : SlotFilled(geometryEdits', geometryEdits,
                 [ticket |-> TicketOf(running[r]), base |-> running[r].base, result |-> mesh])
      BY <1>e, <3>1
    <3> DEFINE candidate == [ticket |-> TicketOf(running[r]), base |-> running[r].base,
                             result |-> mesh]
    <3>3. candidate.ticket.documentId \notin DOMAIN geometryEdits.active
      BY <1>e, <1>r, <3>1
    <3>4. SlotFilled(geometryEdits', geometryEdits, candidate)
      BY <3>2
    <3> HIDE DEF candidate
    <3> QED
      BY <1>s, <3>3, <3>4, FilledSlots
  <2> QED
    BY <1>s, <2>1, KeptSlots, FreedSlots, EditsNext
<1>2. EditSlots(splitCandidates')
  <2>1. CASE \E r \in DOMAIN running : IsSplitResult(r, splitCandidates')
    <3>1. PICK r \in DOMAIN running : IsSplitResult(r, splitCandidates')
      BY <2>1
    <3>2. PICK parts : SlotFilled(splitCandidates', splitCandidates,
                 [ticket |-> TicketOf(running[r]), base |-> running[r].base, result |-> parts])
      BY <1>d, <3>1
    <3> DEFINE candidate == [ticket |-> TicketOf(running[r]), base |-> running[r].base,
                             result |-> parts]
    <3>3. candidate.ticket.documentId \notin DOMAIN splitCandidates.active
      BY <1>d, <1>r, <3>1
    <3>4. SlotFilled(splitCandidates', splitCandidates, candidate)
      BY <3>2
    <3> HIDE DEF candidate
    <3> QED
      BY <1>s, <3>3, <3>4, FilledSlots
  <2> QED
    BY <1>s, <2>1, KeptSlots, FreedSlots, SplitsNext
<1>3. \A d \in DOMAIN geometryEdits'.current : d \in DOMAIN resident'
  <2>1. \A d \in DOMAIN geometryEdits.current : d \in DOMAIN resident
    BY DEF TicketsInv
  <2>2. CASE UNCHANGED resident /\ geometryEdits'.current = geometryEdits.current
    BY <2>1, <2>2
  <2>3. ASSUME NEW d \in DOMAIN resident, GenerationRises(d), UNCHANGED resident
        PROVE  \A x \in DOMAIN geometryEdits'.current : x \in DOMAIN resident'
    BY <2>1, <2>3 DEF GenerationRises, Put
  <2>4. CASE DocumentOpens
    BY <2>1, <2>4 DEF DocumentOpens, Put
  <2>5. ASSUME NEW d \in DOMAIN resident, DocumentCloses(d) \/ DocumentChanges(d)
        PROVE  \A x \in DOMAIN geometryEdits'.current : x \in DOMAIN resident'
    BY <2>1, <2>5 DEF DocumentCloses, DocumentChanges, Replace, Remove, Restrict
  <2> QED
    BY <2>2, <2>3, <2>4, <2>5, GenerationsNext
<1>4. \A r \in DOMAIN running' : IsEdit(running'[r]) => WasIssued(running[r])'
  BY <1>r, <1>t, RequestsNext, BeginsAlone
<1>5. ASSUME NEW d \in DOMAIN geometryEdits'.active
      PROVE  LET ticket == geometryEdits'.candidates[geometryEdits'.active[d]].ticket IN
             \/ d \in DOMAIN geometryEdits.active /\ ticket = edit(d)
             \/ \E r \in DOMAIN running :
                  /\ r \notin DOMAIN running' /\ running[r].op = "texture"
                  /\ IsUpToDate(running[r]) /\ running[r].documentId = d
                  /\ d \notin DOMAIN geometryEdits.active
                  /\ d \in DOMAIN splitCandidates.active => ~IsUpToDate(split(d))
                  /\ ticket = TicketOf(running[r])
  <2>1. CASE \E r \in DOMAIN running :
               IsTextureResult(r, geometryEdits') /\ r \notin DOMAIN running'
    <3>1. PICK r \in DOMAIN running :
                 IsTextureResult(r, geometryEdits') /\ r \notin DOMAIN running'
      BY <2>1
    <3>2. running[r].op = "texture"
      BY <3>1 DEF IsTextureResult, IsRunning
    <3>3. PICK mesh : SlotFilled(geometryEdits', geometryEdits,
                 [ticket |-> TicketOf(running[r]), base |-> running[r].base, result |-> mesh])
      BY <1>e, <3>1
    <3>4. CASE d = running[r].documentId
      BY <1>e, <1>r, <3>1, <3>2, <3>3, <3>4 DEF SlotFilled
    <3>5. CASE d # running[r].documentId
      <4>1. /\ d \in DOMAIN geometryEdits.active
            /\ geometryEdits'.active[d] = geometryEdits.active[d]
        BY <1>r, <3>3, <3>5 DEF SlotFilled
      <4>2. /\ geometryEdits.active[d] \in DOMAIN edits
            /\ geometryEdits.active[d] # geometryEdits.nextId
        BY <1>s, <4>1 DEF EditSlots
      <4>3. geometryEdits'.candidates[geometryEdits.active[d]] = edits[geometryEdits.active[d]]
        BY <3>3, <4>2 DEF SlotFilled
      <4> QED
        BY <4>1, <4>3
    <3> QED
      BY <3>4, <3>5
  <2>2. CASE SlotsKept(geometryEdits', geometryEdits)
    BY <2>2 DEF SlotsKept
  <2>3. ASSUME NEW x, SlotFreed(geometryEdits', geometryEdits, x)
        PROVE  /\ d \in DOMAIN geometryEdits.active
               /\ geometryEdits'.candidates[geometryEdits'.active[d]].ticket = edit(d)
    <3>1. /\ d \in DOMAIN geometryEdits.active /\ d # x
          /\ geometryEdits'.active[d] = geometryEdits.active[d]
      BY <2>3 DEF SlotFreed
    <3>2. geometryEdits.active[d] \in DOMAIN geometryEdits'.candidates
      BY <1>s, <2>3, <3>1 DEF SlotFreed, EditSlots
    <3> QED
      BY <2>3, <3>1, <3>2 DEF SlotFreed
  <2> QED
    BY <2>1, <2>2, <2>3, EditsNext
<1>6. ASSUME NEW d \in DOMAIN splitCandidates'.active
      PROVE  LET ticket == splitCandidates'.candidates[splitCandidates'.active[d]].ticket IN
             \/ d \in DOMAIN splitCandidates.active /\ ticket = split(d)
             \/ \E r \in DOMAIN running :
                  /\ r \notin DOMAIN running' /\ running[r].op = "split"
                  /\ IsUpToDate(running[r]) /\ running[r].documentId = d
                  /\ d \notin DOMAIN geometryEdits.active
                  /\ ticket = TicketOf(running[r])
  <2>1. CASE \E r \in DOMAIN running :
               IsSplitResult(r, splitCandidates') /\ r \notin DOMAIN running'
    <3>1. PICK r \in DOMAIN running :
                 IsSplitResult(r, splitCandidates') /\ r \notin DOMAIN running'
      BY <2>1
    <3>2. running[r].op = "split"
      BY <3>1 DEF IsSplitResult, IsRunning
    <3>3. PICK parts : SlotFilled(splitCandidates', splitCandidates,
                 [ticket |-> TicketOf(running[r]), base |-> running[r].base, result |-> parts])
      BY <1>d, <3>1
    <3>4. CASE d = running[r].documentId
      BY <1>d, <1>r, <3>1, <3>2, <3>3, <3>4 DEF SlotFilled
    <3>5. CASE d # running[r].documentId
      <4>1. /\ d \in DOMAIN splitCandidates.active
            /\ splitCandidates'.active[d] = splitCandidates.active[d]
        BY <1>r, <3>3, <3>5 DEF SlotFilled
      <4>2. /\ splitCandidates.active[d] \in DOMAIN splits
            /\ splitCandidates.active[d] # splitCandidates.nextId
        BY <1>s, <4>1 DEF EditSlots
      <4>3. splitCandidates'.candidates[splitCandidates.active[d]] = splits[splitCandidates.active[d]]
        BY <3>3, <4>2 DEF SlotFilled
      <4> QED
        BY <4>1, <4>3
    <3> QED
      BY <3>4, <3>5
  <2>2. CASE SlotsKept(splitCandidates', splitCandidates)
    BY <2>2 DEF SlotsKept
  <2>3. ASSUME NEW x, SlotFreed(splitCandidates', splitCandidates, x)
        PROVE  /\ d \in DOMAIN splitCandidates.active
               /\ splitCandidates'.candidates[splitCandidates'.active[d]].ticket = split(d)
    <3>1. /\ d \in DOMAIN splitCandidates.active /\ d # x
          /\ splitCandidates'.active[d] = splitCandidates.active[d]
      BY <2>3 DEF SlotFreed
    <3>2. splitCandidates.active[d] \in DOMAIN splitCandidates'.candidates
      BY <1>s, <2>3, <3>1 DEF SlotFreed, EditSlots
    <3> QED
      BY <2>3, <3>1, <3>2 DEF SlotFreed
  <2> QED
    BY <2>1, <2>2, <2>3, SplitsNext
<1>7. /\ \A d \in DOMAIN geometryEdits.active :
           /\ IsTicket(edit(d)) /\ WasIssued(edit(d)) /\ edit(d).documentId = d
      /\ \A d \in DOMAIN splitCandidates.active :
           /\ IsTicket(split(d)) /\ WasIssued(split(d)) /\ split(d).documentId = d
  BY <1>s, <1>r DEF EditSlots
<1>8. \A id \in DOMAIN geometryEdits'.candidates :
        WasIssued(geometryEdits.candidates[id].ticket)'
  <2> SUFFICES ASSUME NEW id \in DOMAIN geometryEdits'.candidates
               PROVE  WasIssued(geometryEdits.candidates[id].ticket)'
    OBVIOUS
  <2>1. PICK d \in DOMAIN geometryEdits'.active : geometryEdits'.active[d] = id
    BY <1>1 DEF EditSlots
  <2>2. PICK ticket : /\ ticket = geometryEdits'.candidates[id].ticket
                      /\ IsTicket(ticket) /\ WasIssued(ticket)
    <3>1. \A r \in DOMAIN running : running[r].op = "texture" =>
            /\ WasIssued(TicketOf(running[r])) /\ IsTicket(TicketOf(running[r]))
      BY <1>r DEF IsEdit, IsTicket, TicketOf
    <3> QED
      BY <1>5, <1>7, <2>1, <3>1
  <2> QED
    BY <1>t, <2>2
<1>9. \A id \in DOMAIN splitCandidates'.candidates :
        WasIssued(splitCandidates.candidates[id].ticket)'
  <2> SUFFICES ASSUME NEW id \in DOMAIN splitCandidates'.candidates
               PROVE  WasIssued(splitCandidates.candidates[id].ticket)'
    OBVIOUS
  <2>1. PICK d \in DOMAIN splitCandidates'.active : splitCandidates'.active[d] = id
    BY <1>2 DEF EditSlots
  <2>2. PICK ticket : /\ ticket = splitCandidates'.candidates[id].ticket
                      /\ IsTicket(ticket) /\ WasIssued(ticket)
    <3>1. \A r \in DOMAIN running : running[r].op = "split" =>
            /\ WasIssued(TicketOf(running[r])) /\ IsTicket(TicketOf(running[r]))
      BY <1>r DEF IsEdit, IsTicket, TicketOf
    <3> QED
      BY <1>6, <1>7, <2>1, <3>1
  <2> QED
    BY <1>t, <2>2
<1>10. ASSUME NEW r \in DOMAIN running', NEW d, d = running'[r].documentId,
              IsEdit(running'[r]), IsUpToDate(running[r])'
       PROVE  /\ \A other \in DOMAIN running' \ {r} :
                   IsEdit(running'[other]) /\ running'[other].documentId = d
                     => ~IsUpToDate(running[other])'
              /\ d \notin DOMAIN geometryEdits'.active
              /\ d \in DOMAIN splitCandidates'.active =>
                   /\ running'[r].op = "texture"
                   /\ ~IsUpToDate(splitCandidates.candidates[splitCandidates.active[d]].ticket)'
  <2>1. CASE r \in DOMAIN running /\ running'[r] = running[r]
    <3>1. /\ IsEdit(running[r]) /\ IsUpToDate(running[r])
          /\ running[r].documentId = d
      BY <1>10, <1>r, <1>t, <2>1
    <3>2. /\ \A other \in DOMAIN running \ {r} :
               IsEdit(running[other]) /\ running[other].documentId = d
                 => ~IsUpToDate(running[other])
          /\ d \notin DOMAIN geometryEdits.active
          /\ d \in DOMAIN splitCandidates.active =>
               running[r].op = "texture" /\ ~IsUpToDate(split(d))
      BY <2>1, <3>1 DEF TicketsInv, OneTicketUpToDate
    <3>3. ASSUME NEW other \in DOMAIN running' \ {r},
                 IsEdit(running'[other]), running'[other].documentId = d
          PROVE  ~IsUpToDate(running[other])'
      <4>1. CASE other \in DOMAIN running /\ running'[other] = running[other]
        BY <1>r, <1>t, <3>2, <3>3, <4>1
      <4>2. ASSUME NEW x, Begins(other, x) PROVE FALSE
        <5>1. x = d
          BY <3>3, <4>2 DEF Begins
        <5> QED
          BY <1>10, <1>r, <2>1, <3>1, <4>2, <5>1, BeginsAlone
      <4> QED
        BY <3>3, <4>1, <4>2, RequestsNext
    <3>4. d \notin DOMAIN geometryEdits'.active
      BY <1>5, <2>1, <3>1, <3>2 DEF IsEdit
    <3>5. ASSUME d \in DOMAIN splitCandidates'.active
          PROVE  /\ running[r].op = "texture"
                 /\ ~IsUpToDate(splitCandidates.candidates[splitCandidates.active[d]].ticket)'
      <4>1. /\ d \in DOMAIN splitCandidates.active
            /\ splitCandidates'.candidates[splitCandidates'.active[d]].ticket = split(d)
        BY <1>6, <2>1, <3>1, <3>2, <3>5 DEF IsEdit
      <4> QED
        BY <1>7, <1>t, <3>2, <4>1
    <3> QED
      BY <2>1, <3>3, <3>4, <3>5
  <2>2. ASSUME NEW x, Begins(r, x)
        PROVE  /\ \A other \in DOMAIN running' \ {r} :
                    IsEdit(running'[other]) /\ running'[other].documentId = d
                      => ~IsUpToDate(running[other])'
               /\ d \notin DOMAIN geometryEdits'.active
               /\ d \in DOMAIN splitCandidates'.active =>
                    /\ running'[r].op = "texture"
                    /\ ~IsUpToDate(splitCandidates.candidates[splitCandidates.active[d]].ticket)'
    <3>0. Begins(r, d)
      BY <1>10, <2>2 DEF Begins
    <3>1. \A ticket : IsTicket(ticket) /\ WasIssued(ticket) /\ ticket.documentId = d
                        => ~IsUpToDate(ticket)'
      BY <3>0, BeginsAlone
    <3>2. ASSUME NEW other \in DOMAIN running' \ {r},
                 IsEdit(running'[other]), running'[other].documentId = d
          PROVE  ~IsUpToDate(running[other])'
      <4>1. other \in DOMAIN running /\ running'[other] = running[other]
        BY <3>0, <3>2 DEF Begins
      <4> QED
        BY <1>r, <3>1, <3>2, <4>1
    <3>3. d \notin DOMAIN geometryEdits'.active
      BY <3>0 DEF Begins, SlotFreed
    <3>4. ASSUME d \in DOMAIN splitCandidates'.active
          PROVE  /\ running'[r].op = "texture"
                 /\ ~IsUpToDate(splitCandidates.candidates[splitCandidates.active[d]].ticket)'
      <4>1. running'[r].op = "texture" /\ UNCHANGED splitCandidates
        BY <3>0, <3>4 DEF Begins, SlotFreed
      <4>2. IsTicket(split(d)) /\ WasIssued(split(d)) /\ split(d).documentId = d
        BY <1>7, <3>4, <4>1
      <4> QED
        BY <3>1, <4>1, <4>2
    <3> QED
      BY <3>2, <3>3, <3>4
  <2> QED
    BY <1>10, <2>1, <2>2, RequestsNext
<1>11. ASSUME NEW d \in DOMAIN geometryEdits'.active \cap DOMAIN splitCandidates'.active
       PROVE  ~ /\ IsUpToDate(geometryEdits.candidates[geometryEdits.active[d]].ticket)'
                /\ IsUpToDate(splitCandidates.candidates[splitCandidates.active[d]].ticket)'
  <2> DEFINE ticketA == geometryEdits'.candidates[geometryEdits'.active[d]].ticket
             ticketB == splitCandidates'.candidates[splitCandidates'.active[d]].ticket
  <2>1. CASE d \in DOMAIN geometryEdits.active /\ ticketA = edit(d)
    <3>1. d \in DOMAIN splitCandidates.active /\ ticketB = split(d)
      BY <1>6, <2>1
    <3>2. ~(IsUpToDate(edit(d)) /\ IsUpToDate(split(d)))
      BY <2>1, <3>1 DEF TicketsInv, OneTicketUpToDate
    <3> QED
      BY <1>7, <1>t, <2>1, <3>1, <3>2
  <2>2. ASSUME NEW r \in DOMAIN running,
               r \notin DOMAIN running', running[r].op = "texture",
               IsUpToDate(running[r]), running[r].documentId = d,
               d \in DOMAIN splitCandidates.active => ~IsUpToDate(split(d))
        PROVE  ~IsUpToDate(splitCandidates.candidates[splitCandidates.active[d]].ticket)'
    <3>1. \A other \in DOMAIN running :
            IsEdit(running[other]) /\ running[other].documentId = d /\ IsUpToDate(running[other])
              => other = r
      BY <2>2 DEF TicketsInv, OneTicketUpToDate, IsEdit
    <3>2. d \in DOMAIN splitCandidates.active /\ ticketB = split(d)
      BY <1>6, <2>2, <3>1 DEF IsEdit
    <3> QED
      BY <1>7, <1>t, <2>2, <3>2
  <2>3. \/ d \in DOMAIN geometryEdits.active /\ ticketA = edit(d)
        \/ \E r \in DOMAIN running :
             /\ r \notin DOMAIN running' /\ running[r].op = "texture"
             /\ IsUpToDate(running[r]) /\ running[r].documentId = d
             /\ d \in DOMAIN splitCandidates.active => ~IsUpToDate(split(d))
    BY <1>5
  <2> QED
    BY <2>1, <2>2, <2>3
<1>12. OneTicketUpToDate'
  BY <1>10, <1>11 DEF OneTicketUpToDate
<1> QED
  BY <1>1, <1>2, <1>3, <1>4, <1>8, <1>9, <1>12 DEF TicketsInv

-----------------------------------------------------------------------------
(* What the candidates hold *)

(* A slot that is filled is filled for a document that is resident. *)
LEMMA FillSlotsNext ==
    ASSUME StoresInv, [Next]_vars
    PROVE  \A d \in DOMAIN holeFillCandidates'.active :
             d \in DOMAIN holeFillCandidates.active \/ d \in DOMAIN resident
<1>s. IsCandidateStore(holeFillCandidates, Tags)
  BY DEF StoresInv, CandidateStoreInv
<1>1. ASSUME NEW id
      PROVE  /\ DOMAIN Discard(holeFillCandidates, id).active
                  \subseteq DOMAIN holeFillCandidates.active
             /\ DOMAIN MarkCommitted(holeFillCandidates, id).active
                  \subseteq DOMAIN holeFillCandidates.active
  BY <1>s DEF Discard, MarkCommitted, Settle, Remove, Restrict, IsCandidateStore
<1>2. \A d : DOMAIN ReleaseCandidate(holeFillCandidates, d).active
               \subseteq DOMAIN holeFillCandidates.active
  BY <1>1 DEF ReleaseCandidate
<1>3. ASSUME NEW r \in Requests, NEW mesh \in Meshes, NEW tag \in Tags, FillFinish(r, mesh, tag)
      PROVE  \A d \in DOMAIN holeFillCandidates'.active :
               d \in DOMAIN holeFillCandidates.active \/ d \in DOMAIN resident
  <2> DEFINE source == SourceOf(running[r])
             base   == running[r].base
             p      == running[r].partId
  <2>1. \/ UNCHANGED holeFillCandidates
        \/ /\ source.documentId \in DOMAIN resident
           /\ holeFillCandidates' = CreateCandidate(holeFillCandidates, source, p, tag, base, mesh)
    BY <1>3 DEF FillFinish, Has
  <2> HIDE DEF source, base, p
  <2>2. CASE holeFillCandidates' = CreateCandidate(holeFillCandidates, source, p, tag, base, mesh)
    <3>1. DOMAIN holeFillCandidates'.active =
            DOMAIN ReleaseCandidate(holeFillCandidates, source.documentId).active
              \cup {source.documentId}
      BY <2>2 DEF CreateCandidate, Put
    <3> QED
      BY <1>2, <2>1, <3>1
  <2> QED
    BY <2>1, <2>2
<1>4. CASE BeginStep
  BY <1>4 DEF BeginStep, AnalyzeBegin, RepairBegin, FillBegin, TextureBegin, SplitBegin, stores
<1>5. CASE FinishStep
  <2>1. ASSUME NEW r \in Requests,
               \/ AnalyzeFinish(r)
               \/ \E mesh \in Meshes, tag \in Tags, delivered \in BOOLEAN :
                    RepairFinish(r, mesh, tag, delivered)
               \/ \E mesh \in Meshes, rendered \in BOOLEAN : TextureFinish(r, mesh, rendered)
               \/ \E ids \in PartIds \X PartIds, meshA, meshB \in Meshes, rendered \in BOOLEAN :
                    SplitFinish(r, ids, meshA, meshB, rendered)
        PROVE  UNCHANGED holeFillCandidates
    BY <2>1 DEF AnalyzeFinish, RepairFinish, TextureFinish, SplitFinish, stores
  <2> QED
    BY <1>3, <1>5, <2>1 DEF FinishStep
<1>6. CASE FailStep
  BY <1>6 DEF FailStep, Fails, TextureFails, SplitFails, stores
<1>7. CASE DiscardStep
  BY <1>1, <1>7 DEF DiscardStep, RepairDiscard, FillDiscard, EditDiscard, SplitDiscard
<1>8. CASE CommitStep
  BY <1>1, <1>2, <1>8 DEF CommitStep, RepairCommit, FillCommit, EditCommit, SplitCommit
<1>9. CASE \E d \in Documents : Release(d) \/ \E p \in PartIds : RepairPlan(d, p)
  BY <1>2, <1>9 DEF Release, RepairPlan, stores
<1>10. CASE \/ \E parts \in Imports : Import(parts)
            \/ \E key, source \in Handles : Undo(key, source)
  BY <1>2, <1>10 DEF Import, Undo, stores
<1>11. CASE UNCHANGED vars
  BY <1>11 DEF vars
<1> QED
  BY <1>4, <1>5, <1>6, <1>7, <1>8, <1>9, <1>10, <1>11 DEF Next

(* A document that was resident stays so, or its slots are freed. *)
LEMMA ResidentNext ==
    ASSUME StoresInv, TicketsInv, [Next]_vars, NEW d \in DOMAIN resident
    PROVE  \/ d \in DOMAIN resident'
           \/ /\ d \notin DOMAIN geometryEdits'.active
              /\ d \notin DOMAIN splitCandidates'.active
              /\ d \notin DOMAIN holeFillCandidates'.active
<1>1. CASE UNCHANGED resident
  BY <1>1
<1>2. CASE DocumentOpens
  BY <1>2 DEF DocumentOpens, Put
<1>3. ASSUME NEW x \in DOMAIN resident, DocumentChanges(x) PROVE d \in DOMAIN resident'
  BY <1>3 DEF DocumentChanges, Replace
<1>4. ASSUME NEW x \in DOMAIN resident, DocumentCloses(x), d # x PROVE d \in DOMAIN resident'
  BY <1>4 DEF DocumentCloses, Remove, Restrict
<1>5. ASSUME DocumentCloses(d)
      PROVE  /\ d \notin DOMAIN geometryEdits'.active
             /\ d \notin DOMAIN splitCandidates'.active
             /\ d \notin DOMAIN holeFillCandidates'.active
  BY <1>5, ReleaseCandidateInv DEF DocumentCloses, SlotFreed, StoresInv
<1> QED
  BY <1>1, <1>2, <1>3, <1>4, <1>5, GenerationsNext

(* A candidate left by a step was there, or is the result of a request. *)
LEMMA EditCandidatesNext ==
    ASSUME StoresInv, TicketsInv, [Next]_vars
    PROVE  \A id \in DOMAIN geometryEdits'.candidates :
             \/ /\ id \in DOMAIN geometryEdits.candidates
                /\ geometryEdits'.candidates[id] = geometryEdits.candidates[id]
             \/ \E r \in DOMAIN running, mesh \in Meshes :
                  /\ IsUpToDate(running[r])
                  /\ geometryEdits'.candidates[id] =
                       [ticket |-> TicketOf(running[r]), base |-> running[r].base,
                        result |-> mesh]
<1>1. CASE \E r \in DOMAIN running : IsTextureResult(r, geometryEdits')
  <2>1. PICK r \in DOMAIN running, mesh \in Meshes :
          /\ IsUpToDate(running[r])
          /\ SlotFilled(geometryEdits', geometryEdits,
                        [ticket |-> TicketOf(running[r]), base |-> running[r].base,
                         result |-> mesh])
    BY <1>1 DEF IsTextureResult
  <2> DEFINE candidate == [ticket |-> TicketOf(running[r]), base |-> running[r].base,
                           result |-> mesh]
  <2>2. \A id \in DOMAIN geometryEdits'.candidates :
          \/ /\ id \in DOMAIN geometryEdits.candidates
             /\ geometryEdits'.candidates[id] = geometryEdits.candidates[id]
          \/ geometryEdits'.candidates[id] = candidate
    <3>1. SlotFilled(geometryEdits', geometryEdits, candidate)
      BY <2>1
    <3> HIDE DEF candidate
    <3> QED
      BY <3>1 DEF SlotFilled
  <2> QED
    BY <2>1, <2>2
<1> QED
  BY <1>1, EditsNext DEF SlotsKept, SlotFreed

LEMMA SplitCandidatesNext ==
    ASSUME StoresInv, TicketsInv, [Next]_vars
    PROVE  \A id \in DOMAIN splitCandidates'.candidates :
             \/ /\ id \in DOMAIN splitCandidates.candidates
                /\ splitCandidates'.candidates[id] = splitCandidates.candidates[id]
             \/ \E r \in DOMAIN running, parts \in DocumentParts :
                  /\ IsUpToDate(running[r])
                  /\ IsDivision(Parts(running[r].documentId), running[r].partId, parts)
                  /\ splitCandidates'.candidates[id] =
                       [ticket |-> TicketOf(running[r]), base |-> running[r].base,
                        result |-> parts]
<1>1. CASE \E r \in DOMAIN running : IsSplitResult(r, splitCandidates')
  <2>1. PICK r \in DOMAIN running, parts \in DocumentParts :
          /\ IsUpToDate(running[r])
          /\ IsDivision(Parts(running[r].documentId), running[r].partId, parts)
          /\ SlotFilled(splitCandidates', splitCandidates,
                        [ticket |-> TicketOf(running[r]), base |-> running[r].base,
                         result |-> parts])
    BY <1>1 DEF IsSplitResult
  <2> DEFINE candidate == [ticket |-> TicketOf(running[r]), base |-> running[r].base,
                           result |-> parts]
  <2>2. \A id \in DOMAIN splitCandidates'.candidates :
          \/ /\ id \in DOMAIN splitCandidates.candidates
             /\ splitCandidates'.candidates[id] = splitCandidates.candidates[id]
          \/ splitCandidates'.candidates[id] = candidate
    <3>1. SlotFilled(splitCandidates', splitCandidates, candidate)
      BY <2>1
    <3> HIDE DEF candidate
    <3> QED
      BY <3>1 DEF SlotFilled
  <2> QED
    BY <2>1, <2>2
<1> QED
  BY <1>1, SplitsNext DEF SlotsKept, SlotFreed

LEMMA CandidatesNext ==
    StoresInv /\ SourcesInv /\ TicketsInv /\ CandidatesInv /\ [Next]_vars => CandidatesInv'
<1> SUFFICES ASSUME StoresInv, SourcesInv, TicketsInv, CandidatesInv, [Next]_vars
             PROVE  CandidatesInv'
  OBVIOUS
<1>s. StoresInv' /\ TicketsInv'
  BY StoresNext, TicketsNext
<1>g. Grows(lineage', nextDocument', lineage, nextDocument)
  BY LineageNext DEF SourcesInv
<1>d. \A d, rev, p, mesh : Describes(lineage, nextDocument, d, rev, p, mesh)
                             => Describes(lineage', nextDocument', d, rev, p, mesh)
  BY <1>g, LineageNext, DescribesStable DEF SourcesInv
<1>r. \A r \in DOMAIN running :
        Describes(lineage, nextDocument, running[r].documentId, running[r].revision,
                  running[r].partId, running[r].base)
  BY DEF SourcesInv, RunningDescribe
<1>u. \A r \in DOMAIN running : IsUpToDate(running[r]) =>
        /\ running[r].documentId \in DOMAIN resident
        /\ running[r].revision = Revision(running[r].documentId)
  BY DEF IsUpToDate, Has, SourceOf, Handle
<1>1. CandidatesDescribe(geometryEdits', lineage', nextDocument')
  <2> SUFFICES ASSUME NEW id \in DOMAIN geometryEdits'.candidates
               PROVE  LET candidate == geometryEdits'.candidates[id] IN
                      Describes(lineage', nextDocument', candidate.ticket.documentId,
                                candidate.ticket.revision, candidate.ticket.partId,
                                candidate.base)
    BY DEF CandidatesDescribe
  <2>1. CASE /\ id \in DOMAIN geometryEdits.candidates
             /\ geometryEdits'.candidates[id] = geometryEdits.candidates[id]
    BY <1>d, <2>1 DEF CandidatesInv, CandidatesDescribe
  <2>2. ASSUME NEW r \in DOMAIN running, NEW mesh,
               geometryEdits'.candidates[id] =
                 [ticket |-> TicketOf(running[r]), base |-> running[r].base, result |-> mesh]
        PROVE  LET candidate == geometryEdits'.candidates[id] IN
               Describes(lineage', nextDocument', candidate.ticket.documentId,
                         candidate.ticket.revision, candidate.ticket.partId, candidate.base)
    BY <1>d, <1>r, <2>2 DEF TicketOf
  <2> QED
    BY <2>1, <2>2, EditCandidatesNext
<1>2. CandidatesDescribe(splitCandidates', lineage', nextDocument')
  <2> SUFFICES ASSUME NEW id \in DOMAIN splitCandidates'.candidates
               PROVE  LET candidate == splitCandidates'.candidates[id] IN
                      Describes(lineage', nextDocument', candidate.ticket.documentId,
                                candidate.ticket.revision, candidate.ticket.partId,
                                candidate.base)
    BY DEF CandidatesDescribe
  <2>1. CASE /\ id \in DOMAIN splitCandidates.candidates
             /\ splitCandidates'.candidates[id] = splitCandidates.candidates[id]
    BY <1>d, <2>1 DEF CandidatesInv, CandidatesDescribe
  <2>2. ASSUME NEW r \in DOMAIN running, NEW parts,
               splitCandidates'.candidates[id] =
                 [ticket |-> TicketOf(running[r]), base |-> running[r].base, result |-> parts]
        PROVE  LET candidate == splitCandidates'.candidates[id] IN
               Describes(lineage', nextDocument', candidate.ticket.documentId,
                         candidate.ticket.revision, candidate.ticket.partId, candidate.base)
    BY <1>d, <1>r, <2>2 DEF TicketOf
  <2> QED
    BY <2>1, <2>2, SplitCandidatesNext
<1>3. \A d \in DOMAIN geometryEdits'.active : d \in DOMAIN resident
  <2> SUFFICES ASSUME NEW d \in DOMAIN geometryEdits'.active PROVE d \in DOMAIN resident
    OBVIOUS
  <2>1. PICK id \in DOMAIN geometryEdits'.candidates :
          geometryEdits'.candidates[id].ticket.documentId = d
    BY <1>s DEF TicketsInv, EditSlots
  <2>2. id \in DOMAIN geometryEdits.candidates =>
          geometryEdits.candidates[id].ticket.documentId \in DOMAIN resident
    BY DEF TicketsInv, EditSlots, CandidatesInv, ActiveAreResident
  <2> QED
    <3>1. CASE geometryEdits'.candidates[id] = geometryEdits.candidates[id]
               /\ id \in DOMAIN geometryEdits.candidates
      BY <2>1, <2>2, <3>1
    <3>2. ASSUME NEW r \in DOMAIN running, IsUpToDate(running[r]), NEW mesh,
                 geometryEdits'.candidates[id] =
                   [ticket |-> TicketOf(running[r]), base |-> running[r].base, result |-> mesh]
          PROVE  d \in DOMAIN resident
      <4>1. d = running[r].documentId
        BY <2>1, <3>2 DEF TicketOf
      <4> QED
        BY <1>u, <3>2, <4>1
    <3> QED
      BY <3>1, <3>2, EditCandidatesNext
<1>4. \A d \in DOMAIN splitCandidates'.active : d \in DOMAIN resident
  <2> SUFFICES ASSUME NEW d \in DOMAIN splitCandidates'.active PROVE d \in DOMAIN resident
    OBVIOUS
  <2>1. PICK id \in DOMAIN splitCandidates'.candidates :
          splitCandidates'.candidates[id].ticket.documentId = d
    BY <1>s DEF TicketsInv, EditSlots
  <2>2. id \in DOMAIN splitCandidates.candidates =>
          splitCandidates.candidates[id].ticket.documentId \in DOMAIN resident
    BY DEF TicketsInv, EditSlots, CandidatesInv, ActiveAreResident
  <2> QED
    <3>1. CASE splitCandidates'.candidates[id] = splitCandidates.candidates[id]
               /\ id \in DOMAIN splitCandidates.candidates
      BY <2>1, <2>2, <3>1
    <3>2. ASSUME NEW r \in DOMAIN running, IsUpToDate(running[r]), NEW parts,
                 splitCandidates'.candidates[id] =
                   [ticket |-> TicketOf(running[r]), base |-> running[r].base, result |-> parts]
          PROVE  d \in DOMAIN resident
      <4>1. d = running[r].documentId
        BY <2>1, <3>2 DEF TicketOf
      <4> QED
        BY <1>u, <3>2, <4>1
    <3> QED
      BY <3>1, <3>2, SplitCandidatesNext
<1>5. \A d \in DOMAIN holeFillCandidates'.active : d \in DOMAIN resident
  BY FillSlotsNext DEF CandidatesInv, ActiveAreResident
<1>6. /\ ActiveAreResident(geometryEdits', resident')
      /\ ActiveAreResident(splitCandidates', resident')
      /\ ActiveAreResident(holeFillCandidates', resident')
  BY <1>3, <1>4, <1>5, ResidentNext DEF ActiveAreResident
<1>7. SplitsDivide(splitCandidates', lineage')
  <2> SUFFICES ASSUME NEW id \in DOMAIN splitCandidates'.candidates
               PROVE  LET ticket == splitCandidates'.candidates[id].ticket IN
                      IsDivision(lineage'[ticket.documentId][ticket.revision], ticket.partId,
                                 splitCandidates'.candidates[id].result)
    BY DEF SplitsDivide
  <2> DEFINE ticket == splitCandidates'.candidates[id].ticket
             d      == ticket.documentId
             rev    == ticket.revision
  <2>1. d \in DOMAIN splitCandidates'.active
    BY <1>s DEF TicketsInv, EditSlots
  <2>2. /\ d \in DOMAIN lineage' /\ d \in DOMAIN lineage
    BY <1>4, <1>6, <1>s, <2>1 DEF ActiveAreResident, StoresInv, LineageIsResident
  <2>3. rev \in DOMAIN lineage[d] => lineage'[d][rev] = lineage[d][rev]
    BY <1>g, <2>2 DEF Grows, SourcesInv
  <2>4. CASE /\ id \in DOMAIN splitCandidates.candidates
             /\ splitCandidates'.candidates[id] = splitCandidates.candidates[id]
    <3>1. rev \in DOMAIN lineage[d]
      BY <2>2, <2>4 DEF CandidatesInv, CandidatesDescribe, Describes
    <3>2. IsDivision(lineage[d][rev], ticket.partId, splitCandidates'.candidates[id].result)
      BY <2>4 DEF CandidatesInv, SplitsDivide
    <3> QED
      BY <2>3, <3>1, <3>2
  <2>5. ASSUME NEW r \in DOMAIN running, NEW parts, IsUpToDate(running[r]),
               IsDivision(Parts(running[r].documentId), running[r].partId, parts),
               splitCandidates'.candidates[id] =
                 [ticket |-> TicketOf(running[r]), base |-> running[r].base, result |-> parts]
        PROVE  IsDivision(lineage'[d][rev], ticket.partId, splitCandidates'.candidates[id].result)
    <3>1. /\ d = running[r].documentId /\ rev = running[r].revision
          /\ ticket.partId = running[r].partId
          /\ splitCandidates'.candidates[id].result = parts
      BY <2>5 DEF TicketOf
    <3>2. d \in DOMAIN resident /\ rev = Revision(d)
      BY <1>u, <2>5, <3>1
    <3>3. rev \in DOMAIN lineage[d] /\ lineage[d][rev] = Parts(d)
      BY <1>r, <2>2, <2>5, <3>1, <3>2 DEF Describes, StoresInv, LineageIsResident
    <3> QED
      BY <2>3, <2>5, <3>1, <3>3
  <2> QED
    BY <2>4, <2>5, SplitCandidatesNext
<1> QED
  BY <1>1, <1>2, <1>6, <1>7 DEF CandidatesInv

LEMMA CandidatesInvariant ==
    Spec => [](StoresInv /\ SourcesInv /\ TicketsInv /\ CandidatesInv)
<1>1. Init => TicketsInv /\ CandidatesInv
  <2> SUFFICES ASSUME Init PROVE TicketsInv /\ CandidatesInv
    OBVIOUS
  <2>1. /\ DOMAIN running = {} /\ DOMAIN resident = {}
        /\ DOMAIN geometryEdits.candidates = {} /\ DOMAIN geometryEdits.active = {}
        /\ DOMAIN geometryEdits.current = {}
        /\ DOMAIN splitCandidates.candidates = {} /\ DOMAIN splitCandidates.active = {}
        /\ DOMAIN holeFillCandidates.active = {}
    BY DEF Init, NoEdits, NoSplits, EmptyStore, NoEntries
  <2> QED
    BY <2>1 DEF TicketsInv, CandidatesInv, EditSlots, OneTicketUpToDate, CandidatesDescribe,
                SplitsDivide, ActiveAreResident
<1>2. StoresInv /\ SourcesInv /\ TicketsInv /\ CandidatesInv /\ [Next]_vars
        => (StoresInv /\ SourcesInv /\ TicketsInv /\ CandidatesInv)'
  BY StoresNext, SourcesNext, TicketsNext, CandidatesNext
<1> QED
  BY <1>1, <1>2, StoresInit, SourcesInit, PTL DEF Spec

-----------------------------------------------------------------------------
(* What the invariant gives *)

(* The release handlers of the fill, texture and split stores and of the    *)
(* history: none of them holds geometry of a document that is not resident, *)
(* though engines that were started before the release answer after it.     *)
THEOREM NothingOutlivesItsDocument == Spec => []NoGeometryOfReleasedDocuments
<1>1. ASSUME StoresInv, SourcesInv, TicketsInv, CandidatesInv
      PROVE  NoGeometryOfReleasedDocuments
  <2>1. ASSUME NEW id \in DOMAIN holeFillCandidates.entries, IsLive(holeFillCandidates, id)
        PROVE  holeFillCandidates.entries[id].documentId \in DOMAIN resident
    BY <1>1, <2>1 DEF StoresInv, CandidateStoreInv, LiveIsActive, IsLive, CandidatesInv,
                      ActiveAreResident
  <2>2. ASSUME NEW id \in DOMAIN geometryEdits.candidates
        PROVE  geometryEdits.candidates[id].ticket.documentId \in DOMAIN resident
    BY <1>1 DEF TicketsInv, EditSlots, CandidatesInv, ActiveAreResident
  <2>3. ASSUME NEW id \in DOMAIN splitCandidates.candidates
        PROVE  splitCandidates.candidates[id].ticket.documentId \in DOMAIN resident
    BY <1>1 DEF TicketsInv, EditSlots, CandidatesInv, ActiveAreResident
  <2>4. ASSUME NEW key \in DOMAIN repairHistory.records,
               repairHistory.records[key].previousMesh # NoMesh
        PROVE  key.documentId \in DOMAIN resident
    BY <1>1, <2>4 DEF StoresInv, HistoryInv, IsUndoable, SourcesInv, Restores
  <2> QED
    BY <2>1, <2>2, <2>3, <2>4 DEF NoGeometryOfReleasedDocuments
<1> QED
  BY <1>1, CandidatesInvariant, PTL

(* Of the candidates of both tools, one document has one that may be applied. *)
LEMMA ReadyIsAlone ==
    ASSUME TicketsInv, NEW d
    PROVE  LET edits  == {i \in DOMAIN geometryEdits.candidates :
                            /\ IsReady(geometryEdits, i)
                            /\ geometryEdits.candidates[i].ticket.documentId = d}
               splits == {i \in DOMAIN splitCandidates.candidates :
                            /\ IsReady(splitCandidates, i)
                            /\ splitCandidates.candidates[i].ticket.documentId = d}
           IN  /\ \A i, j \in edits : i = j
               /\ \A i, j \in splits : i = j
               /\ edits = {} \/ splits = {}
<1>1. \A i, j \in DOMAIN geometryEdits.candidates :
        /\ geometryEdits.candidates[i].ticket.documentId = d
        /\ geometryEdits.candidates[j].ticket.documentId = d
        => i = j
  BY DEF TicketsInv, EditSlots
<1>2. \A i, j \in DOMAIN splitCandidates.candidates :
        /\ splitCandidates.candidates[i].ticket.documentId = d
        /\ splitCandidates.candidates[j].ticket.documentId = d
        => i = j
  BY DEF TicketsInv, EditSlots
<1>3. ASSUME NEW i \in DOMAIN geometryEdits.candidates, IsReady(geometryEdits, i),
             geometryEdits.candidates[i].ticket.documentId = d,
             NEW j \in DOMAIN splitCandidates.candidates, IsReady(splitCandidates, j),
             splitCandidates.candidates[j].ticket.documentId = d
      PROVE  FALSE
  <2>1. /\ d \in DOMAIN geometryEdits.active /\ geometryEdits.active[d] = i
        /\ d \in DOMAIN splitCandidates.active /\ splitCandidates.active[d] = j
    BY <1>3 DEF TicketsInv, EditSlots
  <2>2. /\ IsUpToDate(geometryEdits.candidates[i].ticket)
        /\ IsUpToDate(splitCandidates.candidates[j].ticket)
    BY <1>3 DEF IsReady, IsUpToDate
  <2> QED
    BY <2>1, <2>2 DEF TicketsInv, OneTicketUpToDate
<1> QED
  BY <1>1, <1>2, <1>3

(* GeometryEditStore and SplitCandidateStore share one slot per document:   *)
(* whatever was begun, finished, failed, discarded, committed or released   *)
(* in between, at most one candidate of both stores can be applied.         *)
THEOREM OneEditCanApply == Spec => []OneReadyEdit
<1>1. ASSUME TicketsInv PROVE OneReadyEdit
  <2> SUFFICES ASSUME NEW d \in DOMAIN resident
               PROVE  Cardinality({<<"texture", id>> :
                                      id \in {i \in DOMAIN geometryEdits.candidates :
                                 IsReady(geometryEdits, i)
                                 /\ geometryEdits.candidates[i].ticket.documentId = d}}
                        \cup {<<"split", id>> : id \in {i \in DOMAIN splitCandidates.candidates :
                                 IsReady(splitCandidates, i)
                                 /\ splitCandidates.candidates[i].ticket.documentId = d}}) <= 1
    BY DEF OneReadyEdit
  <2> DEFINE edits  == {i \in DOMAIN geometryEdits.candidates :
                          IsReady(geometryEdits, i)
                          /\ geometryEdits.candidates[i].ticket.documentId = d}
             splits == {i \in DOMAIN splitCandidates.candidates :
                          IsReady(splitCandidates, i)
                          /\ splitCandidates.candidates[i].ticket.documentId = d}
             ready  == {<<"texture", id>> : id \in edits} \cup {<<"split", id>> : id \in splits}
  <2>1. /\ \A i, j \in edits : i = j
        /\ \A i, j \in splits : i = j
        /\ edits = {} \/ splits = {}
    BY <1>1, ReadyIsAlone
  <2> HIDE DEF edits, splits
  <2>2. \A x, y \in ready : x = y
    BY <2>1
  <2> HIDE DEF ready
  <2>3. ready = {} \/ \E x : ready = {x}
    BY <2>2
  <2>4. Cardinality(ready) = 0 \/ Cardinality(ready) = 1
    <3>1. CASE ready = {}
      BY <3>1, FS_EmptySet
    <3>2. ASSUME NEW x, ready = {x} PROVE Cardinality(ready) = 1
      BY <3>2, FS_Singleton
    <3> QED
      BY <2>3, <3>1, <3>2
  <2>5. Cardinality(ready) <= 1
    BY <2>4
  <2> QED
    BY <2>5 DEF ready, edits, splits
<1> QED
  BY <1>1, CandidatesInvariant, PTL

TwoReplaceOne(before, partId, after) ==
    /\ partId \notin DOMAIN after
    /\ \E idA, idB \in DOMAIN after \ DOMAIN before :
         idA # idB /\ DOMAIN after = (DOMAIN before \ {partId}) \cup {idA, idB}
    /\ \A p \in DOMAIN before \ {partId} : p \in DOMAIN after /\ after[p] = before[p]

LEMMA DivisionReplaces ==
    ASSUME NEW before, NEW partId \in DOMAIN before, NEW after,
           IsDivision(before, partId, after)
    PROVE  TwoReplaceOne(before, partId, after)
<1>1. PICK idA, idB \in PartIds \ DOMAIN before, meshA, meshB \in Meshes :
        /\ idA # idB
        /\ after = WithPieces(before, partId, idA, meshA, idB, meshB)
  BY DEF IsDivision
<1>2. /\ DOMAIN after = (DOMAIN before \ {partId}) \cup {idA, idB}
      /\ \A p \in DOMAIN before \ {partId} : after[p] = before[p]
  BY <1>1 DEF WithPieces, Put, Remove, Restrict
<1>3. idA \in DOMAIN after \ DOMAIN before /\ idB \in DOMAIN after \ DOMAIN before
  BY <1>1, <1>2
<1>4. partId \notin DOMAIN after
  BY <1>1, <1>2
<1> QED
  <2>1. \A p \in DOMAIN before \ {partId} : p \in DOMAIN after /\ after[p] = before[p]
    BY <1>2
  <2>2. \E x, y \in DOMAIN after \ DOMAIN before :
          x # y /\ DOMAIN after = (DOMAIN before \ {partId}) \cup {x, y}
    <3> DEFINE new == DOMAIN after \ DOMAIN before
    <3>1. idA \in new /\ idB \in new /\ idA # idB
      BY <1>1, <1>3
    <3>2. DOMAIN after = (DOMAIN before \ {partId}) \cup {idA, idB}
      BY <1>2
    <3> HIDE DEF new
    <3>3. \E x, y \in new :
            x # y /\ DOMAIN after = (DOMAIN before \ {partId}) \cup {x, y}
      BY <3>1, <3>2, Zenon
    <3> QED
      BY <3>3 DEF new
  <2> QED
    BY <1>4, <2>1, <2>2 DEF TwoReplaceOne

(* A ready candidate's ticket names the resident revision. *)
LEMMA ReadyIsCurrent ==
    ASSUME StoresInv, NEW store, CandidatesDescribe(store, lineage, nextDocument),
           NEW id, IsReady(store, id)
    PROVE  LET ticket == store.candidates[id].ticket IN
           /\ ticket.documentId \in DOMAIN resident
           /\ ticket.revision = Revision(ticket.documentId)
           /\ lineage[ticket.documentId][ticket.revision] = Parts(ticket.documentId)
           /\ ticket.partId \in DOMAIN Parts(ticket.documentId)
           /\ store.candidates[id].base = Parts(ticket.documentId)[ticket.partId]
<1> DEFINE ticket == store.candidates[id].ticket
           d      == ticket.documentId
<1>1. /\ d \in DOMAIN resident /\ ticket.revision = Revision(d)
      /\ id \in DOMAIN store.candidates
  BY DEF IsReady, Has, SourceOf, Handle
<1>2. lineage[d][ticket.revision] = Parts(d) /\ d \in DOMAIN lineage
  BY <1>1 DEF StoresInv, LineageIsResident
<1>3. /\ ticket.partId \in DOMAIN lineage[d][ticket.revision]
      /\ lineage[d][ticket.revision][ticket.partId] = store.candidates[id].base
  BY <1>1, <1>2 DEF CandidatesDescribe, Describes
<1> QED
  BY <1>1, <1>2, <1>3

(* requireReady of both stores: a candidate that passes it was computed     *)
(* from the mesh its part holds now, and a split's document is the resident *)
(* one with two new parts in the place of that one.                         *)
THEOREM ReadyEditsAreCurrent == Spec => []ReadyEditsDescribeTheModel
<1>1. ASSUME StoresInv, CandidatesInv PROVE ReadyEditsDescribeTheModel
  <2>1. ASSUME NEW id \in DOMAIN geometryEdits.candidates, IsReady(geometryEdits, id)
        PROVE  LET ticket == geometryEdits.candidates[id].ticket IN
               /\ ticket.partId \in DOMAIN Parts(ticket.documentId)
               /\ geometryEdits.candidates[id].base = Parts(ticket.documentId)[ticket.partId]
    BY <1>1, <2>1, ReadyIsCurrent DEF CandidatesInv
  <2>2. ASSUME NEW id \in DOMAIN splitCandidates.candidates, IsReady(splitCandidates, id)
        PROVE  LET ticket == splitCandidates.candidates[id].ticket
                   before == Parts(ticket.documentId)
                   after  == splitCandidates.candidates[id].result
               IN  /\ ticket.partId \in DOMAIN before \ DOMAIN after
                   /\ splitCandidates.candidates[id].base = before[ticket.partId]
                   /\ \E idA, idB \in DOMAIN after \ DOMAIN before :
                        /\ idA # idB
                        /\ DOMAIN after = (DOMAIN before \ {ticket.partId}) \cup {idA, idB}
                   /\ \A p \in DOMAIN before \ {ticket.partId} :
                        p \in DOMAIN after /\ after[p] = before[p]
    <3> DEFINE ticket == splitCandidates.candidates[id].ticket
               before == Parts(ticket.documentId)
               partId == ticket.partId
               after  == splitCandidates.candidates[id].result
    <3>1. /\ lineage[ticket.documentId][ticket.revision] = before
          /\ partId \in DOMAIN before
          /\ splitCandidates.candidates[id].base = before[partId]
      BY <1>1, <2>2, ReadyIsCurrent DEF CandidatesInv
    <3>2. IsDivision(before, partId, after)
      BY <1>1, <3>1 DEF CandidatesInv, SplitsDivide
    <3> HIDE DEF partId, before, after, ticket
    <3>3. TwoReplaceOne(before, partId, after)
      BY <3>1, <3>2, DivisionReplaces
    <3> QED
      BY <3>1, <3>3 DEF TwoReplaceOne, partId, before, after, ticket
  <2> QED
    BY <2>1, <2>2 DEF ReadyEditsDescribeTheModel
<1> QED
  BY <1>1, CandidatesInvariant, PTL

-----------------------------------------------------------------------------
(* The worker implements AuthoritativeModel *)

(* What Undo would bring back of the documents nothing happened to. *)
LEMMA PreviousKept ==
    ASSUME KeepsUndo(repairHistory', repairHistory),
           \A d \in DOMAIN repairHistory'.undoable : Parts(d)' = Parts(d)
    PROVE  PreviousVersions' = [d \in DOMAIN repairHistory'.undoable |-> PreviousVersions[d]]
<1>1. \A d \in DOMAIN repairHistory'.undoable :
        /\ d \in DOMAIN repairHistory.undoable
        /\ repairHistory'.records[repairHistory'.undoable[d]]
             = repairHistory.records[repairHistory.undoable[d]]
  BY DEF KeepsUndo
<1> QED
  BY <1>1 DEF PreviousVersions

LEMMA ImportOpens ==
    ASSUME StoresInv, SourcesInv, NEW parts \in Imports, Import(parts)
    PROVE  Model!Open(parts)
<1>1. nextDocument \in Nat /\ (nextDocument - 1) + 1 = nextDocument
  BY DEF StoresInv, DocumentIds
<1>2. \A d \in DOMAIN repairHistory.undoable : Parts(d)' = Parts(d)
  <2>1. \A d \in DOMAIN repairHistory.undoable : d \in DOMAIN resident /\ d # nextDocument
    BY DEF SourcesInv, Restores, StoresInv, LineageIsResident, DocumentIds
  <2> QED
    BY <2>1 DEF Import, Put, Parts
<1>3. PreviousVersions' = PreviousVersions
  BY <1>2 DEF PreviousVersions, Import
<1>4. resident' = Model!Put(resident, nextDocument, [revision |-> 1, parts |-> parts])
  BY DEF Import, Put, Model!Put
<1>5. nextDocument' - 1 = (nextDocument - 1) + 1
  BY <1>1 DEF Import
<1> QED
  BY <1>1, <1>3, <1>4, <1>5 DEF Model!Open

LEMMA ReleaseCloses ==
    ASSUME StoresInv, SourcesInv, NEW d \in Documents, Release(d)
    PROVE  Model!Close(d)
<1>1. /\ KeepsUndo(repairHistory', repairHistory)
      /\ DOMAIN repairHistory'.undoable = DOMAIN repairHistory.undoable \ {d}
  BY ReleaseHistoryInv DEF Release, StoresInv
<1>2. \A x \in DOMAIN repairHistory'.undoable : Parts(x)' = Parts(x)
  BY <1>1 DEF Release, Remove, Restrict, Restores, SourcesInv, Parts
<1>3. PreviousVersions' = [x \in DOMAIN repairHistory'.undoable |-> PreviousVersions[x]]
  BY <1>1, <1>2, PreviousKept
<1>4. DOMAIN PreviousVersions = DOMAIN repairHistory.undoable
  BY DEF PreviousVersions
<1>5. PreviousVersions' = Model!Remove(PreviousVersions, d)
  BY <1>1, <1>3, <1>4 DEF Model!Remove, Model!Restrict
<1>6. resident' = Model!Remove(resident, d)
  BY DEF Release, Remove, Restrict, Model!Remove, Model!Restrict
<1> QED
  BY <1>5, <1>6 DEF Model!Close, Release

(* A commit files the version it replaces. *)
LEMMA CommitChanges ==
    ASSUME StoresInv, SourcesInv, NEW d \in DOMAIN resident, NEW p \in PartIds,
           NEW parts \in DocumentParts, NEW mesh \in Meshes, NEW previous \in DocumentParts,
           Replace(d, parts), nextDocument' = nextDocument,
           repairHistory' = Record(repairHistory, NextKey(d), p, Revision(d), mesh, previous),
           \A record : record.partId = p /\ record.previousMesh = mesh
                       /\ record.previousParts = previous => Restored(record, parts) = Parts(d)
    PROVE  Model!Change(d, parts)
<1> DEFINE key    == NextKey(d)
           rev    == Revision(d)
           record == [partId |-> p, parent |-> rev, previousMesh |-> mesh,
                      previousParts |-> previous, undone |-> FALSE, superseded |-> FALSE]
<1>1. /\ TypeOK /\ HistoryInv(repairHistory)
  BY StoresInvTypeOK DEF StoresInv
<1>2. key \in RecordKeys /\ rev \in Revisions /\ key.documentId = d
  BY <1>1, ResidentType DEF NextKey, Handle
<1>3. Restored(record, parts) = Parts(d)
  OBVIOUS
<1>4. /\ Parts(d)' = parts
      /\ \A x \in DOMAIN resident : x # d => Parts(x)' = Parts(x)
  BY DEF Replace, Parts
<1>5. /\ DOMAIN repairHistory'.undoable = DOMAIN repairHistory.undoable \cup {d}
      /\ repairHistory'.records[repairHistory'.undoable[d]] = record
      /\ \A x \in DOMAIN repairHistory.undoable \ {d} :
           repairHistory'.records[repairHistory'.undoable[x]]
             = repairHistory.records[repairHistory.undoable[x]]
  <2> HIDE DEF key, rev
  <2>1. repairHistory' = Record(repairHistory, key, p, rev, mesh, previous)
    BY DEF key, rev
  <2> QED
    BY <1>1, <1>2, <2>1, RecordInv
<1> HIDE DEF record
<1>6. /\ DOMAIN PreviousVersions' = DOMAIN PreviousVersions \cup {d}
      /\ PreviousVersions'[d] = Parts(d)
      /\ \A x \in DOMAIN PreviousVersions \ {d} : PreviousVersions'[x] = PreviousVersions[x]
  <2>1. \A x \in DOMAIN repairHistory.undoable : x \in DOMAIN resident
    BY DEF SourcesInv, Restores
  <2>2. /\ DOMAIN PreviousVersions = DOMAIN repairHistory.undoable
        /\ DOMAIN PreviousVersions' = DOMAIN repairHistory'.undoable
    BY DEF PreviousVersions
  <2>3. PreviousVersions'[d] = Parts(d)
    BY <1>3, <1>4, <1>5 DEF PreviousVersions
  <2>4. ASSUME NEW x \in DOMAIN repairHistory.undoable, x # d
        PROVE  PreviousVersions'[x] = PreviousVersions[x]
    BY <1>4, <1>5, <2>1, <2>4 DEF PreviousVersions
  <2> QED
    BY <1>5, <2>2, <2>3, <2>4
<1>7. PreviousVersions' = Model!Put(PreviousVersions, d, resident[d].parts)
  <2>1. PreviousVersions' = [x \in DOMAIN PreviousVersions' |-> PreviousVersions'[x]]
    BY DEF PreviousVersions
  <2> QED
    BY <1>6, <2>1 DEF Model!Put, Parts
<1>8. Model!NextRevision(d, parts)
  BY DEF Replace, Model!NextRevision
<1> QED
  BY <1>7, <1>8 DEF Model!Change

LEMMA UndoUndoes ==
    ASSUME StoresInv, SourcesInv, NEW key \in Handles, NEW source \in Handles,
           Undo(key, source)
    PROVE  Model!Undo(source.documentId)
<1> DEFINE d == source.documentId
<1>1. /\ repairHistory' = ReleaseRecord(repairHistory, key, "undone")
      /\ Replace(d, Restored(repairHistory.records[key], Parts(d)))
      /\ key \in DOMAIN repairHistory.records
      /\ repairHistory.records[key].previousMesh # NoMesh
      /\ key.documentId = d
      /\ nextDocument' = nextDocument
  BY DEF Undo, MayUndo
<1>2. HistoryInv(repairHistory)
  BY DEF StoresInv
<1>3. IsUndoable(repairHistory, key)
  BY <1>1, <1>2 DEF HistoryInv
<1>4. /\ d \in DOMAIN repairHistory.undoable /\ repairHistory.undoable[d] = key
      /\ d \in DOMAIN PreviousVersions
      /\ PreviousVersions[d] = Restored(repairHistory.records[key], Parts(d))
  BY <1>1, <1>3 DEF IsUndoable, PreviousVersions
<1>5. /\ KeepsUndo(repairHistory', repairHistory)
      /\ DOMAIN repairHistory'.undoable = DOMAIN repairHistory.undoable \ {d}
  BY <1>1, <1>2, <1>3, ReleaseRecordInv
<1>6. \A x \in DOMAIN repairHistory'.undoable : Parts(x)' = Parts(x)
  BY <1>1, <1>5 DEF Replace, Restores, SourcesInv, Parts
<1>7. PreviousVersions' = [x \in DOMAIN repairHistory'.undoable |-> PreviousVersions[x]]
  BY <1>5, <1>6, PreviousKept
<1>8. DOMAIN PreviousVersions = DOMAIN repairHistory.undoable
  BY DEF PreviousVersions
<1>9. PreviousVersions' = Model!Remove(PreviousVersions, d)
  BY <1>5, <1>7, <1>8 DEF Model!Remove, Model!Restrict
<1>10. Model!NextRevision(d, PreviousVersions[d])
  BY <1>1, <1>4 DEF Replace, Model!NextRevision
<1> QED
  BY <1>4, <1>9, <1>10 DEF Model!Undo

LEMMA MeshCommitRemeshes ==
    ASSUME StoresInv, SourcesInv, NEW d \in DOMAIN resident, NEW p \in DOMAIN Parts(d),
           NEW mesh \in Meshes, Replace(d, WithPartMesh(Parts(d), p, mesh)),
           nextDocument' = nextDocument,
           repairHistory' = Record(repairHistory, NextKey(d), p, Revision(d),
                                   Parts(d)[p], NoParts)
    PROVE  Model!Remesh(d, p)
<1>1. /\ TypeOK /\ p \in PartIds /\ Parts(d)[p] \in Meshes /\ Parts(d) \in DocumentParts
  BY StoresInvTypeOK, ResidentType
<1>2. WithPartMesh(Parts(d), p, mesh) \in DocumentParts
  BY <1>1, WithPartMeshType
<1>3. Model!Change(d, WithPartMesh(Parts(d), p, mesh))
  BY <1>1, <1>2, MeshIsPutBack, NoPartsType, CommitChanges
<1>4. WithPartMesh(Parts(d), p, mesh) = Model!WithPartMesh(resident[d].parts, p, mesh)
  BY DEF WithPartMesh, Model!WithPartMesh, Parts
<1> QED
  BY <1>3, <1>4 DEF Model!Remesh

LEMMA RepairRemeshes ==
    ASSUME StoresInv, SourcesInv, NEW id \in CandidateIds, NEW source \in Handles,
           NEW p \in PartIds, NEW tag \in Tags, RepairCommit(id, source, p, tag)
    PROVE  \E d \in DOMAIN resident : \E q \in DOMAIN Parts(d) : Model!Remesh(d, q)
<1> DEFINE d    == source.documentId
           q    == repairCandidates.entries[id].partId
           mesh == repairCandidates.entries[id].mesh
<1>1. /\ d \in DOMAIN resident /\ source.revision = Revision(d) /\ q \in DOMAIN Parts(d)
  BY DEF RepairCommit, Has
<1>2. mesh \in Meshes
  BY DEF RepairCommit, MayCommit, IsLive, StoresInv, CandidateStoreInv,
         IsCandidateStore, IsMap, CandidateEntry
<1>3. /\ Replace(d, WithPartMesh(Parts(d), q, mesh))
      /\ repairHistory' = Record(repairHistory, NextKey(d), q, Revision(d), Parts(d)[q], NoParts)
      /\ nextDocument' = nextDocument
  BY <1>1 DEF RepairCommit
<1> HIDE DEF d, q, mesh
<1> QED
  BY <1>1, <1>2, <1>3, MeshCommitRemeshes

LEMMA FillRemeshes ==
    ASSUME StoresInv, SourcesInv, NEW id \in CandidateIds, NEW source \in Handles,
           NEW p \in PartIds, NEW tag \in Tags, FillCommit(id, source, p, tag)
    PROVE  \E d \in DOMAIN resident : \E q \in DOMAIN Parts(d) : Model!Remesh(d, q)
<1> DEFINE d    == source.documentId
           q    == holeFillCandidates.entries[id].partId
           mesh == holeFillCandidates.entries[id].mesh
<1>1. /\ d \in DOMAIN resident /\ source.revision = Revision(d) /\ q \in DOMAIN Parts(d)
  BY DEF FillCommit, Has
<1>2. mesh \in Meshes
  BY DEF FillCommit, MayCommit, IsLive, StoresInv, CandidateStoreInv,
         IsCandidateStore, IsMap, CandidateEntry
<1>3. /\ Replace(d, WithPartMesh(Parts(d), q, mesh))
      /\ repairHistory' = Record(repairHistory, NextKey(d), q, Revision(d), Parts(d)[q], NoParts)
      /\ nextDocument' = nextDocument
  BY <1>1 DEF FillCommit
<1> HIDE DEF d, q, mesh
<1> QED
  BY <1>1, <1>2, <1>3, MeshCommitRemeshes

LEMMA EditRemeshes ==
    ASSUME StoresInv, SourcesInv, NEW id \in CandidateIds, NEW source \in Handles,
           NEW p \in PartIds, EditCommit(id, source, p)
    PROVE  \E d \in DOMAIN resident : \E q \in DOMAIN Parts(d) : Model!Remesh(d, q)
<1> DEFINE d    == source.documentId
           mesh == geometryEdits.candidates[id].result
<1>1. /\ d \in DOMAIN resident /\ source.revision = Revision(d) /\ p \in DOMAIN Parts(d)
  BY DEF EditCommit, Has, HasPart
<1>2. mesh \in Meshes
  BY DEF EditCommit, IsReady, StoresInv, IsEditStore, IsEditCandidateStore, IsMap
<1>3. /\ Replace(d, WithPartMesh(Parts(d), p, mesh))
      /\ repairHistory' = Record(repairHistory, NextKey(d), p, Revision(d), Parts(d)[p], NoParts)
      /\ nextDocument' = nextDocument
  BY <1>1 DEF EditCommit
<1> HIDE DEF d, mesh
<1> QED
  BY <1>1, <1>2, <1>3, MeshCommitRemeshes

LEMMA SplitDivides ==
    ASSUME StoresInv, SourcesInv, CandidatesInv, NEW id \in CandidateIds,
           NEW source \in Handles, NEW p \in PartIds, SplitCommit(id, source, p)
    PROVE  \E d \in DOMAIN resident : \E q \in DOMAIN Parts(d) : Model!Divide(d, q)
<1> DEFINE d     == source.documentId
           parts == splitCandidates.candidates[id].result
<1>1. /\ d \in DOMAIN resident /\ source.revision = Revision(d) /\ p \in DOMAIN Parts(d)
      /\ IsReady(splitCandidates, id) /\ id \in DOMAIN splitCandidates.candidates
      /\ d = splitCandidates.candidates[id].ticket.documentId
      /\ p = splitCandidates.candidates[id].ticket.partId
  BY DEF SplitCommit, Has, HasPart, SourceOf, Handle, IsReady
<1>2. Parts(d)[p] \in Meshes /\ Parts(d) \in DocumentParts
  BY <1>1, StoresInvTypeOK, ResidentType
<1>3. parts \in DocumentParts
  BY <1>1 DEF StoresInv, IsSplitStore, IsEditCandidateStore, IsMap
<1>4. /\ Replace(d, parts)
      /\ repairHistory' = Record(repairHistory, NextKey(d), p, Revision(d), Parts(d)[p], Parts(d))
      /\ nextDocument' = nextDocument
  BY <1>1 DEF SplitCommit
<1>5. Parts(d) # NoParts
  BY <1>1 DEF NoParts, NoEntries
<1>6. \A record : record.partId = p /\ record.previousMesh = Parts(d)[p]
                  /\ record.previousParts = Parts(d) => Restored(record, parts) = Parts(d)
  BY <1>5 DEF Restored
<1>7. IsDivision(Parts(d), p, parts)
  BY <1>1, ReadyIsCurrent DEF CandidatesInv, SplitsDivide
<1> HIDE DEF d, parts
<1>8. Model!Change(d, parts)
  BY <1>1, <1>2, <1>3, <1>4, <1>6, CommitChanges
<1>9. PICK idA, idB \in PartIds \ DOMAIN Parts(d), meshA, meshB \in Meshes :
        idA # idB /\ parts = WithPieces(Parts(d), p, idA, meshA, idB, meshB)
  BY <1>7 DEF IsDivision
<1>10. parts = Model!WithPieces(resident[d].parts, p, idA, meshA, idB, meshB)
  BY <1>9 DEF WithPieces, Put, Remove, Restrict, Parts,
              Model!WithPieces, Model!Put, Model!Remove, Model!Restrict
<1>11. Model!Divide(d, p)
  BY <1>8, <1>9, <1>10 DEF Model!Divide, Parts
<1> QED
  BY <1>1, <1>11

LEMMA ImplementsModel ==
    ASSUME StoresInv, SourcesInv, CandidatesInv, [Next]_vars
    PROVE  [Model!Next]_(Model!vars)
<1>1. CASE UNCHANGED <<resident, nextDocument, repairHistory>>
  BY <1>1 DEF Model!vars, PreviousVersions, Parts
<1>2. CASE \E parts \in Imports : Import(parts)
  BY <1>2, ImportOpens DEF Model!Next
<1>3. CASE \E d \in Documents : Release(d)
  BY <1>3, ReleaseCloses DEF Model!Next, Release
<1>4. CASE CommitStep
  <2>1. \E d \in DOMAIN resident : \E q \in DOMAIN Parts(d) :
          Model!Remesh(d, q) \/ Model!Divide(d, q)
    BY <1>4, RepairRemeshes, FillRemeshes, EditRemeshes, SplitDivides DEF CommitStep
  <2> QED
    BY <2>1 DEF Model!Next, Parts
<1>5. CASE \E key, source \in Handles : Undo(key, source)
  BY <1>5, UndoUndoes DEF Model!Next, Undo, Has
<1>6. \/ UNCHANGED <<resident, nextDocument, repairHistory>>
      \/ \E parts \in Imports : Import(parts)
      \/ \E d \in Documents : Release(d)
      \/ CommitStep
      \/ \E key, source \in Handles : Undo(key, source)
  <2>1. CASE BeginStep
    BY <2>1 DEF BeginStep, AnalyzeBegin, RepairBegin, FillBegin, TextureBegin, SplitBegin
  <2>2. CASE FinishStep
    BY <2>2 DEF FinishStep, AnalyzeFinish, RepairFinish, FillFinish, TextureFinish, SplitFinish
  <2>3. CASE FailStep
    BY <2>3 DEF FailStep, Fails, TextureFails, SplitFails
  <2>4. CASE DiscardStep
    BY <2>4 DEF DiscardStep, RepairDiscard, FillDiscard, EditDiscard, SplitDiscard
  <2>5. CASE \E d \in Documents, p \in PartIds : RepairPlan(d, p)
    BY <2>5 DEF RepairPlan
  <2>6. CASE UNCHANGED vars
    BY <2>6 DEF vars
  <2> QED
    BY <2>1, <2>2, <2>3, <2>4, <2>5, <2>6 DEF Next
<1> QED
  BY <1>1, <1>2, <1>3, <1>4, <1>5, <1>6

(* Every handler of the worker, whatever the stores hold and however late   *)
(* the engines answer, is a step of a versioned document with one exact     *)
(* step of undo, or changes nothing the page's model is about.              *)
THEOREM WorkerImplementsModel == Spec => RefinesAuthoritativeModel
<1>1. Init => Model!Init
  BY DEF Init, Model!Init, NoEntries, Model!NoEntries, PreviousVersions, NoHistory
<1>2. StoresInv /\ SourcesInv /\ TicketsInv /\ CandidatesInv /\ [Next]_vars
        => [Model!Next]_(Model!vars)
  BY ImplementsModel
<1> QED
  BY <1>1, <1>2, CandidatesInvariant, PTL DEF Spec, Model!Spec, RefinesAuthoritativeModel
=============================================================================
