---------------------------- MODULE MCChatTurns ----------------------------
(***************************************************************************)
(* Instances of ChatTurns for TLC.                                         *)
(***************************************************************************)
EXTENDS ChatTurns

CONSTANTS a

\* Everyone talks in the same chat: an HTTP client may name a chat of the
\* channel, since chat ids may contain ':' (storage.go:54).
OneChat == [t \in Turns |-> a]

Symmetry == Permutations(HttpTurns) \cup Permutations(ChannelTurns)

=============================================================================
