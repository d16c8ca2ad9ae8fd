-------------------------------- MODULE Maps --------------------------------
(***************************************************************************)
(* The JavaScript Map of the worker's stores, as a partial function: what   *)
(* `new Map()`, `set` and `delete` do, and the set of maps from some keys   *)
(* to some values.                                                          *)
(***************************************************************************)
EXTENDS Functions

NoEntries == [k \in {} |-> k]

Put(map, k, v) == [x \in DOMAIN map \cup {k} |-> IF x = k THEN v ELSE map[x]]

Remove(map, k) == Restrict(map, DOMAIN map \ {k})

IsMap(map, K, V) == DOMAIN map \subseteq K /\ map \in [DOMAIN map -> V]
=============================================================================
