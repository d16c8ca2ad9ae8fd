----------------------------- MODULE MCServices -----------------------------
(* DocumentExport, BooleanOperations and the eviction of undo records, which *)
(* share nothing, explored one at a time.                                   *)
EXTENDS DocumentExport, BooleanOperations, HistoryEviction, TLC

VARIABLE service    \* the one explored

Exporting ==
    /\ service = "export" /\ ExportNext
    /\ UNCHANGED <<service, booleanVars, evictionVars>>

Operating ==
    /\ service = "boolean" /\ BooleanNext
    /\ UNCHANGED <<service, exportVars, evictionVars>>

Evicting ==
    /\ service = "eviction" /\ EvictionNext
    /\ UNCHANGED <<service, exportVars, booleanVars>>

(* The others rest in one of their initial states.                          *)
Init ==
    /\ ExportInit /\ BooleanInit /\ EvictionInit
    /\ service \in {"export", "boolean", "eviction"}
    /\ service # "boolean" => owner = [r \in Requests |-> CHOOSE d \in Documents : TRUE]
    /\ service # "export" => disk = NoFile

Spec ==
    /\ Init
    /\ [][Exporting \/ Operating \/ Evicting]_
           <<service, exportVars, booleanVars, evictionVars>>
    /\ service = "export" => ExportFairness
=============================================================================
