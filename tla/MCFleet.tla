------------------------------ MODULE MCFleet ------------------------------
(***************************************************************************)
(* Instances of Fleet for TLC.                                             *)
(***************************************************************************)
EXTENDS Fleet

CONSTANTS c1, c2

Nodes == <<<<"node1">>, <<"node2">>, <<"node3">>, <<"node4">>>>

\* "orbix-node1-1" and "orbix-node2-1"
ComposeFile == (<<"orbix", "node1", "1">> :> Nodes[1]) @@ (<<"orbix", "node2", "1">> :> Nodes[2])

ByHand == {Nodes[3]}
Ids == {Nodes[1], Nodes[4], <<"spare">>}

\* A name with a dash, "a-node1".
Dashed == {Nodes[1], <<"a", "node1">>}

Symmetry == Permutations(Client)
=============================================================================
