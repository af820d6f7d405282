---------------------------- MODULE MCJustData ----------------------------
(***************************************************************************)
(* Three nodes, in the field of three elements.  Clients write the gain of *)
(* the clamp range and the offset of the board's.                          *)
(***************************************************************************)
EXTENDS JustData

\* TLC has both tables then before the first state.
ASSUME MCTables ==
  /\ Polynomial \in [[Indices -> Numbers] -> [Numbers -> Numbers]]
  /\ Interpolation \in [DOMAIN Interpolation -> [Indices -> Numbers \cup {NaN}]]

MCEdited == {<<Clamp, "gain">>, <<Board, "offset">>}
=============================================================================
