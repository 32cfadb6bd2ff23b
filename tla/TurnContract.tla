---------------------------- MODULE TurnContract ---------------------------
(***************************************************************************)
(* What one conversation may expect of its turns, whatever nodes, tools    *)
(* and retries are behind them: a turn ends at most once, only an answered *)
(* turn changes the history the model is shown next, and it either extends *)
(* that history by itself or replaces what came before by a summary.       *)
(*                                                                         *)
(* These are the outcomes ChatTurns allows an agent run to have            *)
(* (HistoriesAfter, HttpExecute); AgentTurn implements them.               *)
(***************************************************************************)
EXTENDS Sequences

CONSTANTS Turns,    \* user turns of one conversation
          Summary   \* the memory dump that stands for compacted turns

VARIABLES history,  \* the turns the model is shown next, oldest first
          result,   \* result[t]: "none" until t ends
          stopped   \* turns whose context is done

vars == <<history, result, stopped>>

Init == /\ history = <<>>
        /\ result = [t \in Turns |-> "none"]
        /\ stopped = {}

EndTurn(t, r) == /\ result[t] = "none"
                 /\ result' = [result EXCEPT ![t] = r]

Answer(t) == /\ EndTurn(t, "answered")
             /\ history' \in {Append(history, t), <<Summary, t>>}
             /\ UNCHANGED stopped

Fail(t) == /\ \/ EndTurn(t, "failed")
              \/ EndTurn(t, "cancelled") /\ t \in stopped
           /\ UNCHANGED <<history, stopped>>

Stop(t) == /\ result[t] = "none"
           /\ stopped' = stopped \cup {t}
           /\ UNCHANGED <<history, result>>

Next == \E t \in Turns : Answer(t) \/ Fail(t) \/ Stop(t)

Spec == Init /\ [][Next]_vars

=============================================================================
