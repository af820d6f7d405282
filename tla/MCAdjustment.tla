-------------------------- MODULE MCAdjustment --------------------------
(***************************************************************************)
(* Two ranges of the board and one of a clamp; documents adjust a range,   *)
(* with a polynomial that was not computed from the nodes.                 *)
(***************************************************************************)
EXTENDS Adjustment, TLC

MCDocs == {[just |-> TRUE, nodes |-> 1, coeffs |-> 0]}

Symmetry ==
  {b @@ p @@ m @@ s : b \in Permutations(Board), p \in Permutations(Pcbs),
                      m \in Permutations(Minors), s \in Permutations(Serials)}
=============================================================================
