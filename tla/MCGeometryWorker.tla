-------------------------- MODULE MCGeometryWorker --------------------------
(* Instances of GeometryWorker for TLC.                                      *)
EXTENDS GeometryWorker, TLC

CONSTANTS body, lid, rim, m1, m2

OnePart == {[p \in {body} |-> m1]}

TwoParts == {[p \in {body, lid} |-> m1]}

Symmetry == Permutations(Requests)
=============================================================================
