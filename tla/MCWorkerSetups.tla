---------------------------- MODULE MCWorkerSetups ----------------------------
(* Three pages in one instance of GeometryWorker: the file that is imported  *)
(* says which tools are used on it, and whether a second one is imported.    *)
EXTENDS MCGeometryWorker

(* A part to texture and split, two to analyse and repair, and the part of   *)
(* either of two documents, to fill and texture one request at a time.       *)
OneOfTwo == {[p \in {body} |-> m2]}

EverySetup == OnePart \cup TwoParts \cup OneOfTwo

ToolsFor(file) == IF file \in TwoParts THEN {"analyze", "repair"}
                  ELSE IF file \in OneOfTwo THEN {"fill", "texture"}
                  ELSE {"texture", "split"}

(* Four revisions of one part are explored, three are enough of two parts,   *)
(* and two of each of two documents.                                         *)
RevisionsOf(file) == IF file \in TwoParts THEN 3
                     ELSE IF file \in OneOfTwo THEN 2 ELSE MaxRevision

GenerationsOf(file) == IF file \in OneOfTwo THEN 2 ELSE MaxGeneration

RequestsAtOnce(file) == IF file \in OneOfTwo THEN 1 ELSE Cardinality(Requests)

File(d) == lineage[d][1]

ToolsOfTheFile ==
    /\ \A r \in DOMAIN running' \ DOMAIN running :
          LET file == File(running'[r].documentId)
          IN /\ running'[r].op \in ToolsFor(file)
             /\ Cardinality(DOMAIN running') <= RequestsAtOnce(file)
    /\ topologyReports' # topologyReports =>
          \A d \in DOMAIN lineage : "repair" \in ToolsFor(File(d))
    /\ \A d \in DOMAIN resident' \cap DOMAIN resident :
          /\ resident'[d].revision <= RevisionsOf(File(d))
          /\ Generation(geometryEdits', d) <= GenerationsOf(File(d))
    /\ nextDocument' = 3 /\ nextDocument = 2 =>
          /\ 1 \in DOMAIN lineage
          /\ \A d \in DOMAIN lineage' : File(1) \in OneOfTwo /\ lineage'[d] = lineage[1]
=============================================================================
