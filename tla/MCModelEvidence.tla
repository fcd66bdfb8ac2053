--------------------------- MODULE MCModelEvidence ---------------------------
(***************************************************************************)
(* An instance of ModelEvidence: one piece of evidence of two clusters, and  *)
(* one whose clusters share a source; answers that are right, that repeat a  *)
(* source and that are of other evidence, with one cluster only.  A lease is *)
(* as long as the deadline, which starts later: it may run out first.        *)
(***************************************************************************)
EXTENDS ModelEvidence, TLC

CONSTANTS w1, w2, c1, c2, s1, s2

Cluster(id, source) == [id |-> id, sources |-> <<source>>]
Item(id, sources) == [cluster |-> id, sources |-> sources, invalidation |-> None]

MCInputs == {<<Cluster(c1, s1), Cluster(c2, s2)>>, <<Cluster(c1, s1), Cluster(c2, s1)>>}
MCResponses == {<<Item(c1, <<s1>>), Item(c2, <<s2>>)>>,
                <<Item(c1, <<s1, s1>>), Item(c2, <<s2>>)>>,
                <<Item(c2, <<s2>>)>>}
MCDelays == <<1>>
Symmetry == Permutations({w1, w2})
=============================================================================
