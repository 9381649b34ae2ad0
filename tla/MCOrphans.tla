----------------------------- MODULE MCOrphans ------------------------------
(***************************************************************************)
(* An instance of Orphans for TLC.                                         *)
(***************************************************************************)
EXTENDS Orphans, MCAgent

=============================================================================
