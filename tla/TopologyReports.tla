--------------------------- MODULE TopologyReports ---------------------------
(***************************************************************************)
(* TopologyReportCache: the reports of one document's parts, in the order   *)
(* their parts were first stored.  A report is [partId, revision, mesh],    *)
(* where `mesh` is the mesh the analysis walked.                            *)
(***************************************************************************)
EXTENDS Geometry, Sequences

ReportsOf(cache, documentId) ==
    IF documentId \in DOMAIN cache THEN cache[documentId] ELSE <<>>

(* The mesh that the cached report for exactly this handle describes. *)
CachedReport(cache, source, partId) ==
    LET hits == {i \in DOMAIN ReportsOf(cache, source.documentId) :
                   /\ cache[source.documentId][i].partId = partId
                   /\ cache[source.documentId][i].revision = source.revision}
    IN  IF hits = {} THEN NoMesh
        ELSE cache[source.documentId][CHOOSE i \in hits : TRUE].mesh

(* Mutant of StoreReport: reports of an older revision stay. *)
StoreReportBeside(cache, source, partId, mesh) ==
    Put(cache, source.documentId,
        Append(SelectSeq(ReportsOf(cache, source.documentId),
                         LAMBDA report : report.partId # partId),
               [partId |-> partId, revision |-> source.revision, mesh |-> mesh]))

(* Only the first stored report is compared before they are all dropped. *)
StoreReport(cache, source, partId, mesh) ==
    LET stored == ReportsOf(cache, source.documentId)
        kept   == IF stored # <<>> /\ Head(stored).revision # source.revision
                  THEN <<>> ELSE stored
        report == [partId |-> partId, revision |-> source.revision, mesh |-> mesh]
        same   == {i \in DOMAIN kept : kept[i].partId = partId}
    IN  Put(cache, source.documentId,
            IF same = {} THEN Append(kept, report)
            ELSE [i \in DOMAIN kept |-> IF i \in same THEN report ELSE kept[i]])

DropReports(cache, documentId) == Remove(cache, documentId)
-----------------------------------------------------------------------------
Reports == [partId : PartIds, revision : Revisions, mesh : Meshes]

IsReportCache(cache) == IsMap(cache, DocumentIds, Seq(Reports))
=============================================================================
