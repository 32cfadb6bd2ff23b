---------------------------- MODULE MCLifecycle -----------------------------
(***************************************************************************)
(* Instances of Lifecycle for TLC: the second of the updates has no text.  *)
(***************************************************************************)
EXTENDS Lifecycle

SecondIgnored == {2} \cap Updates

=============================================================================
