-------------------------------- MODULE Places --------------------------------
(* Some of the places of a sequence, taken in their order.                   *)
EXTENDS Integers, FiniteSets

(* The places of a sequence, as a loop visits them.                          *)
Indices(s) == [i \in DOMAIN s |-> i]

(* The entries of a sequence at some of its places, in their order.          *)
EntriesAt(entries, places) ==
    [n \in 1..Cardinality(places) |->
        entries[CHOOSE i \in places : Cardinality({j \in places : j <= i}) = n]]
=============================================================================
