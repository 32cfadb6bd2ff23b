---------------------------- MODULE MCCodexToken ----------------------------
(***************************************************************************)
(* Instances of CodexToken for TLC.                                        *)
(***************************************************************************)
EXTENDS CodexToken, TLC

Symmetry == Permutations(Requests)

=============================================================================
