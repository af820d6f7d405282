-------------------------- MODULE MCServerInit --------------------------
(***************************************************************************)
(* A small instance of ServerInit for TLC.                                 *)
(***************************************************************************)
EXTENDS ServerInit

\* Three interfaces, one of them without resources.
SomeItems == <<2, 0, 2>>
=============================================================================
