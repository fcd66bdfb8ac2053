------------------------- MODULE MCAccountAuthority -------------------------
(***************************************************************************)
(* Instances of AccountAuthority: three intents of risk 1, 2 and 2 under a  *)
(* lifetime risk of 3, so that two entries may fit, the other two together  *)
(* do not, and the order of the claims decides which.                       *)
(***************************************************************************)
EXTENDS AccountAuthority, TLC

CONSTANTS i1, i2, i3

MCIntents == {i1, i2, i3}
MCRisk == [i \in MCIntents |-> IF i = i1 THEN 1 ELSE 2]
Symmetry == Permutations({i2, i3})
=============================================================================
