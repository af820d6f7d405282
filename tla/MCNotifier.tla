--------------------------- MODULE MCNotifier ---------------------------
(***************************************************************************)
(* Small instances of Notifier for TLC.                                    *)
(***************************************************************************)
EXTENDS Notifier, TLC

CONSTANTS p1, p2, s1, s2

\* Connections are interchangeable.
Symmetric == Permutations(Peers)
=============================================================================
