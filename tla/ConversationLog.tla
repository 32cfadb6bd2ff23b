-------------------------- MODULE ConversationLog --------------------------
(***************************************************************************)
(* What the agent promises about conversations, without handlers, slots,   *)
(* failing saves, cancels or an event bus: each chat has a log of turns,   *)
(* and a turn adds itself to the log once, at the end of the copy it read. *)
(* A copy may have become old meanwhile: the turns recorded since it was   *)
(* read then leave the log (storage.go:9-10 expects no concurrent writers, *)
(* and nothing prevents them). A user is told that a turn completed only   *)
(* after the turn has recorded its answer.                                 *)
(***************************************************************************)
EXTENDS Sequences

CONSTANTS Chats,    \* conversations
          Turns,    \* user turns, each belonging to one chat
          ChatOf    \* [Turns -> Chats]

VARIABLES log,      \* log[c]: the recorded turns of c, oldest first
          place,    \* place[t]: how far t has got
          copy      \* copy[t]: the log as t read it, while t works on it

vars == <<log, place, copy>>

Entry == [turn: Turns, answered: BOOLEAN]

Init == /\ log = [c \in Chats |-> <<>>]
        /\ place = [t \in Turns |-> "new"]
        /\ copy = [t \in Turns |-> <<>>]

\* A turn begins with the log of its chat as it is now.
Read(t) ==
    /\ place[t] = "new"
    /\ place' = [place EXCEPT ![t] = "reading"]
    /\ copy' = [copy EXCEPT ![t] = log[ChatOf[t]]]
    /\ UNCHANGED log

\* The turn makes its copy, extended by itself, the log of the chat. It is
\* kept if it brought an answer.
Record(t) ==
    /\ place[t] = "reading"
    /\ \E a \in BOOLEAN :
         /\ log' = [log EXCEPT ![ChatOf[t]] =
                       Append(copy[t], [turn |-> t, answered |-> a])]
         /\ place' = [place EXCEPT ![t] = IF a THEN "kept" ELSE "gone"]
    /\ copy' = [copy EXCEPT ![t] = <<>>]

\* The user is told that the turn completed: only when it was kept.
Tell(t) ==
    /\ place[t] = "kept"
    /\ place' = [place EXCEPT ![t] = "told"]
    /\ UNCHANGED <<log, copy>>

\* The users of turns are told nothing, or that they did not complete.
Leave(turns) ==
    /\ \A t \in turns : place[t] # "told"
    /\ place' = [t \in Turns |-> IF t \in turns THEN "gone" ELSE place[t]]
    /\ copy' = [t \in Turns |-> IF t \in turns THEN <<>> ELSE copy[t]]
    /\ UNCHANGED log

UnderWay == {t \in Turns : place[t] \in {"reading", "kept"}}

Next ==
    \/ \E t \in Turns : Read(t) \/ Record(t) \/ Tell(t) \/ Leave({t})
    \/ Leave(UnderWay)

Spec == Init /\ [][Next]_vars

=============================================================================
