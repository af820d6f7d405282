------------------------ MODULE MCClampHotplug ------------------------
(***************************************************************************)
(* Small instances of ClampHotplug for TLC.                                *)
(***************************************************************************)
EXTENDS ClampHotplug, TLC

CONSTANTS k1, k2

\* Physical clamps are interchangeable.
Symmetric == Permutations(Clamps)
=============================================================================
