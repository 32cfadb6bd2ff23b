-------------------------- MODULE MCEventsAndFiles --------------------------
(***************************************************************************)
(* Instances of ChatEvents (two turns on one chat) and SessionStore (two   *)
(* saves of chat a, one of chat b) for TLC. The two share no state and     *)
(* have their runs in one model: in a behaviour one of them moves.         *)
(***************************************************************************)
EXTENDS ChatEvents, SessionStore

CONSTANTS a, b, w3

VARIABLE moving

OneChat == [t \in Turns |-> a]

TwoOfOne == [w \in Saves |-> IF w = w3 THEN b ELSE a]

EitherInit == Init /\ StoreInit /\ moving \in {"events", "files"}

EitherNext ==
    \/ moving = "events" /\ Next /\ UNCHANGED storeVars
    \/ moving = "files" /\ StoreNext /\ UNCHANGED vars

EitherSpec ==
    /\ EitherInit
    /\ [][EitherNext /\ UNCHANGED moving]_<<vars, storeVars>>
    /\ Fairness

=============================================================================
