---------------------------- MODULE MCMessageBus ---------------------------
(***************************************************************************)
(* Instances of MessageBus for TLC: calls that publish inbound messages,   *)
(* named i1, i2, ..., and one that publishes an outbound message, o1.      *)
(***************************************************************************)
EXTENDS MessageBus

CONSTANTS Inbound

SplitQueues ==
    [p \in Publishers |-> IF p \in Inbound THEN "inbound" ELSE "outbound"]

Symmetry == Permutations(Inbound) \cup Permutations(Closers)

=============================================================================
