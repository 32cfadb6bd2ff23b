------------------------- MODULE MCStreamsAndSkills -------------------------
(***************************************************************************)
(* Instances of ProviderStreams and Skills for TLC. The two share no state *)
(* and have their runs in one model: in a behaviour one of them moves.     *)
(***************************************************************************)
EXTENDS ProviderStreams, Skills

VARIABLE moving

AllProviders == {"anthropic", "compat", "codex"}

\* The last request has been answered, or the next one does not encode.
ConversationOver ==
    /\ phase = "idle"
    /\ rounds = MaxRounds \/ ~Encodes(provider, conversation)
    /\ UNCHANGED streamsVars

EitherInit ==
    /\ StreamsInit /\ Init
    /\ \/ moving = "streams"
       \/ moving = "skills" /\ provider = "codex"

EitherNext ==
    \/ moving = "streams" /\ (StreamsNext \/ ConversationOver) /\ UNCHANGED vars
    \/ moving = "skills" /\ Next /\ UNCHANGED streamsVars

EitherSpec ==
    EitherInit /\ [][EitherNext /\ UNCHANGED moving]_<<vars, streamsVars>>

=============================================================================
