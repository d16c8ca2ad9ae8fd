------------------------------- MODULE MCPage -------------------------------
(* WorkspacePage, with the parts interchangeable: every tool on one part    *)
(* (two revisions, and three while nothing is upset), each tool beside      *)
(* textures on two parts, and repair beside filling on two parts while      *)
(* nothing is upset and one handler awaits at a time.                       *)
EXTENDS WorkspacePage, TLC

Setup(parts, openings, tools, revisions, serves, calm) ==
    [parts |-> parts, openings |-> openings, tools |-> tools,
     revisions |-> revisions, serving |-> serves, calm |-> calm]

PageSetups ==
    {Setup({part}, {1}, {"repair", "fill", "texture"}, 2, 2, FALSE) : part \in Parts} \cup
    {Setup({part}, {1}, {"repair", "fill", "texture"}, 3, 2, TRUE) : part \in Parts} \cup
    {Setup(Parts, {1}, {"repair", "texture"}, 2, 2, FALSE),
     Setup(Parts, {1, 2}, {"fill", "texture"}, 2, 2, FALSE),
     Setup(Parts, {1}, {"repair", "fill"}, 3, 1, TRUE)}

PartSymmetry == Permutations(Parts)
=============================================================================
