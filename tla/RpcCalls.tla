------------------------------ MODULE RpcCalls -----------------------------
(***************************************************************************)
(* What a JSON-RPC client promises its callers, without a pending table, a *)
(* reader goroutine or channels: a call ends once, as answered or failed,  *)
(* and it is answered only if the server replied to this very call.        *)
(* McpClient implements this module.                                       *)
(***************************************************************************)
CONSTANTS Calls     \* calls of Client.call

VARIABLES phase,    \* phase[k]: where the call k is
          replied   \* calls the server has replied to at least once

vars == <<phase, replied>>

Init == /\ phase = [k \in Calls |-> "idle"]
        /\ replied = {}

\* The caller issues the request.
Ask(k) ==
    /\ phase[k] = "idle"
    /\ phase' = [phase EXCEPT ![k] = "open"]
    /\ UNCHANGED replied

\* The server replies to a request it may have seen. It may do so for a call
\* that is over already.
Reply(k) ==
    /\ phase[k] # "idle"
    /\ replied' = replied \cup {k}
    /\ UNCHANGED phase

\* The caller gets the reply to its own call.
Answer(k) ==
    /\ phase[k] = "open"
    /\ k \in replied
    /\ phase' = [phase EXCEPT ![k] = "answered"]
    /\ UNCHANGED replied

\* The caller gets an error: refused, not sent, disconnected or cancelled.
Fail(k) ==
    /\ phase[k] \in {"idle", "open"}
    /\ phase' = [phase EXCEPT ![k] = "failed"]
    /\ UNCHANGED replied

Next == \E k \in Calls : Ask(k) \/ Reply(k) \/ Answer(k) \/ Fail(k)

Spec == Init /\ [][Next]_vars

=============================================================================
