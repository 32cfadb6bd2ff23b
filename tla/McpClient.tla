----------------------------- MODULE McpClient -----------------------------
(***************************************************************************)
(* The MCP client (pkg/mcp/client.go): concurrent JSON-RPC calls over one  *)
(* transport, the pump goroutine that routes responses to their callers    *)
(* through the pending table, and Close.                                   *)
(*                                                                         *)
(* A call is one execution of Client.call. Its request id is fresh         *)
(* (atomic.AddInt64), so the call stands for its id. The mailbox of a call *)
(* is the one-place channel its caller waits on. The server may reply to a *)
(* request late, more than once or never, in any order; the transport's    *)
(* read side may end at any time while its write side still accepts        *)
(* requests (the SSE transport posts each request on its own, sse.go:143). *)
(***************************************************************************)
EXTENDS Naturals, Sequences, FiniteSets, SequencesExt

CONSTANTS
    Calls,          \* executions of Client.call
    MaxReplies,     \* bound: replies the server sends to one request
    RecvCap,        \* buffer of the transport's receive channel (16)
    Nothing         \* the pump holds no mailbox

ASSUME McpAssumption ==
    /\ MaxReplies \in Nat
    /\ RecvCap \in Nat \ {0}
    /\ Nothing \notin Calls

VARIABLES
    call,       \* call[k]: where the call is
    expired,    \* calls whose ctx is done
    pending,    \* the table c.pending
    mailbox,    \* mailbox[k]: the channel ch of the call
    holding,    \* the call whose mailbox the pump took from the table
    pump,       \* "running" or "exited"
    inbox,      \* the transport's receive channel
    reading,    \* the transport's read side is up
    requests,   \* requests that reached the server
    replies,    \* replies[k]: how many replies the server sent
    closed,     \* the flag c.closed
    closing,    \* where Client.Close is
    panicked    \* a mailbox was closed twice or written after closing

vars == <<call, expired, pending, mailbox, holding, pump, inbox, reading,
          requests, replies, closed, closing, panicked>>

Outcomes == {"answered", "refused", "unsent", "disconnected", "cancelled"}
CallSteps == {"idle", "registered", "sent", "waiting"} \cup Outcomes

\* A mailbox is open and empty, closed and empty, or holds the response and
\* has been closed behind it.
Mailboxes == {"open", "shut", "delivered"}

Init ==
    /\ call = [k \in Calls |-> "idle"]
    /\ expired = {}
    /\ pending = {}
    /\ mailbox = [k \in Calls |-> "open"]
    /\ holding = Nothing
    /\ pump = "running"
    /\ inbox = <<>>
    /\ reading = TRUE
    /\ requests = {}
    /\ replies = [k \in Calls |-> 0]
    /\ closed = FALSE
    /\ closing = "idle"
    /\ panicked = FALSE

\* The process is alive and the call is at one of the given points.
At(k, steps) == ~panicked /\ call[k] \in steps

Goto(k, step) == call' = [call EXCEPT ![k] = step]

client == <<pending, mailbox, holding, pump, closed, closing, panicked>>
transport == <<inbox, reading, requests, replies>>

-----------------------------------------------------------------------------
(* Client.call                                                             *)

MayRegister == ~closed

\* Register a mailbox, unless the client is closed.
Register(k) ==
    /\ At(k, {"idle"})
    /\ \/ /\ ~MayRegister
          /\ Goto(k, "refused")
          /\ UNCHANGED pending
       \/ /\ MayRegister
          /\ pending' = pending \cup {k}
          /\ Goto(k, "registered")
    /\ UNCHANGED <<expired, mailbox, holding, pump, closed, closing, panicked,
                   transport>>

\* transport.Send: the request reaches the server ...
Transmit(k) ==
    /\ At(k, {"registered"})
    /\ requests' = requests \cup {k}
    /\ Goto(k, "sent")
    /\ UNCHANGED <<expired, client, inbox, reading, replies>>

\* ... and Send returns.
SendReturns(k) ==
    /\ At(k, {"sent"})
    /\ Goto(k, "waiting")
    /\ UNCHANGED <<expired, client, transport>>

\* Send fails, before or after the server got the request: the mailbox is
\* taken back.
SendFails(k) ==
    /\ At(k, {"registered", "sent"})
    /\ pending' = pending \ {k}
    /\ Goto(k, "unsent")
    /\ UNCHANGED <<expired, mailbox, holding, pump, closed, closing, panicked,
                   transport>>

\* The select picks the mailbox.
TakeMail(k) ==
    /\ At(k, {"waiting"})
    /\ \/ mailbox[k] = "delivered" /\ Goto(k, "answered")
       \/ mailbox[k] = "shut" /\ Goto(k, "disconnected")
    /\ UNCHANGED <<expired, client, transport>>

MutIgnoresContext(k) == FALSE /\ UNCHANGED vars

\* The select picks ctx.Done. The entry in the table stays.
GiveUp(k) ==
    /\ At(k, {"waiting"})
    /\ k \in expired
    /\ Goto(k, "cancelled")
    /\ UNCHANGED <<expired, client, transport>>

\* The caller's context is cancelled.
Expire(k) ==
    /\ ~panicked
    /\ k \notin expired
    /\ expired' = expired \cup {k}
    /\ UNCHANGED <<call, client, transport>>

-----------------------------------------------------------------------------
(* The server and the read side of the transport                           *)

\* The read loop blocks while the receive channel is full.
RecvHasRoom == Len(inbox) < RecvCap

\* The server replies to a request it has got, perhaps again.
Reply(k) ==
    /\ ~panicked
    /\ reading
    /\ k \in requests
    /\ replies[k] < MaxReplies
    /\ RecvHasRoom
    /\ inbox' = Append(inbox, k)
    /\ replies' = [replies EXCEPT ![k] = @ + 1]
    /\ UNCHANGED <<call, expired, client, reading, requests>>

\* The read side ends: the process exits, the connection drops, a line is too
\* long. What has been received can still be read.
ReadEnds ==
    /\ ~panicked
    /\ reading
    /\ reading' = FALSE
    /\ UNCHANGED <<call, expired, client, inbox, requests, replies>>

-----------------------------------------------------------------------------
(* The pump                                                                *)

MutAddressee(m) == pending

MutStillPending(k) == pending

\* The calls a received message answers: the pending call with its id.
Addressee(m) == {m} \cap pending

\* The table once the pump has taken k's entry out.
StillPending(k) == pending \ {k}

\* The pump is about to receive.
PumpIdle == ~panicked /\ pump = "running" /\ holding = Nothing

\* Read a message and, under the lock, take its mailbox out of the table. A
\* message nobody waits for is dropped.
PumpTake ==
    /\ PumpIdle
    /\ inbox # <<>>
    /\ inbox' = Tail(inbox)
    /\ \/ /\ Addressee(Head(inbox)) = {}
          /\ UNCHANGED <<pending, holding>>
       \/ \E k \in Addressee(Head(inbox)) :
             /\ pending' = StillPending(k)
             /\ holding' = k
    /\ UNCHANGED <<call, expired, mailbox, pump, reading, requests, replies,
                   closed, closing, panicked>>

\* Put the message into the mailbox and close it, after the unlock.
PumpDeliver ==
    /\ ~panicked
    /\ holding # Nothing
    /\ IF mailbox[holding] = "open"
         THEN /\ mailbox' = [mailbox EXCEPT ![holding] = "delivered"]
              /\ UNCHANGED panicked
         ELSE panicked' = TRUE /\ UNCHANGED mailbox
    /\ holding' = Nothing
    /\ UNCHANGED <<call, expired, pending, pump, transport, closed, closing>>

MutShutPending ==
    /\ UNCHANGED <<mailbox, panicked>>
    /\ pending' = {}

\* Close every mailbox in the table and empty it, in one locked section.
ShutPending ==
    /\ mailbox' = [k \in Calls |-> IF k \in pending /\ mailbox[k] = "open"
                                     THEN "shut" ELSE mailbox[k]]
    /\ panicked' = (\E k \in pending : mailbox[k] # "open")
    /\ pending' = {}

\* The receive channel is closed and empty: the pump shuts what is pending.
PumpExit ==
    /\ PumpIdle
    /\ ~reading
    /\ inbox = <<>>
    /\ ShutPending
    /\ pump' = "exited"
    /\ UNCHANGED <<call, expired, holding, transport, closed, closing>>

-----------------------------------------------------------------------------
(* Client.Close                                                            *)

CloseClient ==
    /\ ~panicked
    /\ closing = "idle"
    /\ closed' = TRUE
    /\ ShutPending
    /\ closing' = "shut"
    /\ UNCHANGED <<call, expired, holding, pump, transport>>

\* transport.Close ends the read side.
CloseTransport ==
    /\ ~panicked
    /\ closing = "shut"
    /\ reading' = FALSE
    /\ closing' = "returned"
    /\ UNCHANGED <<call, expired, pending, mailbox, holding, pump, inbox,
                   requests, replies, closed, panicked>>

-----------------------------------------------------------------------------
CallNext(k) ==
    \/ Register(k) \/ Transmit(k) \/ SendReturns(k) \/ SendFails(k)
    \/ TakeMail(k) \/ GiveUp(k)

\* No call is under way and the client is closed, or the process is dead.
Quiet ==
    /\ \/ panicked
       \/ closing = "returned" /\ pump = "exited" /\
            \A k \in Calls : call[k] \in Outcomes
    /\ UNCHANGED vars

Next ==
    \/ \E k \in Calls : CallNext(k) \/ Expire(k) \/ Reply(k)
    \/ ReadEnds
    \/ PumpTake \/ PumpDeliver \/ PumpExit
    \/ CloseClient \/ CloseTransport
    \/ Quiet

Spec == Init /\ [][Next]_vars

\* Every goroutine runs when it can; Send returns; the server owes nothing.
FairSpec ==
    /\ Spec
    /\ \A k \in Calls : WF_vars(CallNext(k) /\ call[k] # "idle")
    /\ WF_vars(PumpTake \/ PumpDeliver \/ PumpExit)
    /\ WF_vars(CloseTransport)

-----------------------------------------------------------------------------
(* Properties                                                              *)

\* Every variable stays within its type.
TypeOK ==
    /\ call \in [Calls -> CallSteps]
    /\ expired \subseteq Calls
    /\ pending \subseteq Calls
    /\ mailbox \in [Calls -> Mailboxes]
    /\ holding \in Calls \cup {Nothing}
    /\ pump \in {"running", "exited"}
    /\ inbox \in Seq(Calls)
    /\ Len(inbox) <= RecvCap
    /\ reading \in BOOLEAN
    /\ requests \subseteq Calls
    /\ replies \in [Calls -> 0..MaxReplies]
    /\ closed \in BOOLEAN
    /\ closing \in {"idle", "shut", "returned"}
    /\ panicked \in BOOLEAN

\* A mailbox is written and closed at most once although the pump, its exit
\* and Close all close mailboxes, and the pump does so without the lock
\* (client.go:44-47, 70-79, 84-87): duplicate replies and a Close between
\* taking a mailbox and delivering to it do not panic.
MailboxClosedOnce == ~panicked

\* Whose mailbox is still open is known to someone who will close it: a call
\* under way is in the table or in the pump's hands until its mailbox is
\* closed. Conversely, what stays in the table after its call has returned is
\* there because the caller's context ended (client.go:128).
NobodyIsForgotten ==
    \A k \in Calls :
        /\ call[k] \in {"registered", "sent", "waiting"} /\ mailbox[k] = "open"
              => k \in pending \/ holding = k
        /\ k \in pending /\ call[k] \in Outcomes => call[k] = "cancelled"

\* A closed client keeps no entry in its table, so that no caller can begin
\* to wait on a mailbox nobody will close (client.go:42-48, 100-105).
ClosedHasNoPending == closed => pending = {}

\* What a caller sees of its call.
Phase == [k \in Calls |->
            CASE call[k] \in {"registered", "sent", "waiting"} -> "open"
              [] call[k] \in {"idle", "answered"} -> call[k]
              [] OTHER -> "failed"]

RepliedTo == {k \in Calls : replies[k] > 0}

\* The client implements RpcCalls: a call ends once, and it is answered only
\* by a reply to its own request (client.go:70-79, 114-127).
Rpc == INSTANCE RpcCalls WITH phase <- Phase, replied <- RepliedTo

RpcSpec == Rpc!Spec

\* A caller stops waiting when its context ends, when the server has replied
\* to its request, when the connection ends while the call is in the table
\* and pump still runs (client.go:82), and when Close has been called, before
\* the call began or after (client.go:39-50, 91-130).
CallersAreReleased ==
    \A k \in Calls :
        /\ call[k] = "waiting" /\ k \in expired ~> call[k] \in Outcomes
        /\ call[k] = "waiting" /\ replies[k] > 0 ~> call[k] \in Outcomes
        /\ k \in pending /\ pump = "running" /\ ~reading
               ~> call[k] \in Outcomes
        /\ closed /\ call[k] # "idle" ~> call[k] \in Outcomes

=============================================================================
