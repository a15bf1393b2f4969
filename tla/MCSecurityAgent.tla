------------------------- MODULE MCSecurityAgent -------------------------
(***************************************************************************)
(* Instances of SecurityAgent for TLC.                                     *)
(***************************************************************************)
EXTENDS SecurityAgent, TLC

Everything == AllOps

=============================================================================
