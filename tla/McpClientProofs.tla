-------------------------- MODULE McpClientProofs --------------------------
(***************************************************************************)
(* Proofs about McpClient for any set of calls, any number of replies per  *)
(* request and any buffer of the transport.                                *)
(***************************************************************************)
EXTENDS McpClient, SequenceTheorems, TLAPS

-----------------------------------------------------------------------------
(* Mailboxes                                                               *)

\* A mailbox that someone may still close is open and has one owner: an entry
\* of the table, or the pump. A call that has not begun owns nothing.
OneOwner ==
    /\ \A k \in pending : mailbox[k] = "open" /\ holding # k
    /\ holding # Nothing => mailbox[holding] = "open"
    /\ \A k \in Calls :
         call[k] = "idle" => mailbox[k] = "open" /\ k \notin pending
                               /\ holding # k

MailInv ==
    /\ TypeOK
    /\ OneOwner
    /\ MailboxClosedOnce
    /\ NobodyIsForgotten
    /\ ClosedHasNoPending

\* Closing what is pending and emptying the table is safe, and forgets nobody
\* (client.go:42-48, 82-88).
LEMMA ShutPendingSafe ==
    ASSUME MailInv, ShutPending,
           UNCHANGED <<call, holding>>
    PROVE  /\ mailbox' \in [Calls -> Mailboxes]
           /\ OneOwner'
           /\ ~panicked' /\ panicked' \in BOOLEAN
           /\ NobodyIsForgotten'
           /\ pending' = {}
  <1> USE DEF MailInv, TypeOK
  <1>0. panicked' \in BOOLEAN
    BY Zenon DEF ShutPending
  <1>1. ~panicked'
    BY DEF ShutPending, OneOwner
  <1>2. mailbox' \in [Calls -> Mailboxes]
    BY DEF ShutPending, Mailboxes
  <1>3. OneOwner'
    BY McpAssumption DEF ShutPending, OneOwner
  <1>4. NobodyIsForgotten'
    BY DEF ShutPending, OneOwner, NobodyIsForgotten, Outcomes
  <1> QED BY <1>0, <1>1, <1>2, <1>3, <1>4 DEF ShutPending

\* The steps of Client.call.
LEMMA CallSafe ==
    ASSUME MailInv, NEW k \in Calls, CallNext(k) \/ Expire(k)
    PROVE  MailInv'
  <1> USE McpAssumption DEF MailInv, TypeOK, CallSteps, Outcomes, Goto, At,
          client, transport
  <1>1. CASE Register(k)
    <2>1. TypeOK' /\ MailboxClosedOnce' /\ ClosedHasNoPending'
      BY <1>1 DEF Register, MayRegister, MailboxClosedOnce, ClosedHasNoPending
    <2>2. OneOwner'
      BY <1>1 DEF Register, MayRegister, OneOwner
    <2>3. NobodyIsForgotten'
      BY <1>1 DEF Register, MayRegister, NobodyIsForgotten, OneOwner
    <2> QED BY <2>1, <2>2, <2>3
  <1>2. CASE Transmit(k)
    BY <1>2 DEF Transmit, OneOwner, NobodyIsForgotten, MailboxClosedOnce,
                ClosedHasNoPending
  <1>3. CASE SendReturns(k)
    BY <1>3 DEF SendReturns, OneOwner, NobodyIsForgotten, MailboxClosedOnce,
                ClosedHasNoPending
  <1>4. CASE SendFails(k)
    BY <1>4 DEF SendFails, OneOwner, NobodyIsForgotten, MailboxClosedOnce,
                ClosedHasNoPending
  <1>5. CASE TakeMail(k)
    BY <1>5 DEF TakeMail, OneOwner, NobodyIsForgotten, MailboxClosedOnce,
                ClosedHasNoPending
  <1>6. CASE GiveUp(k)
    BY <1>6 DEF GiveUp, OneOwner, NobodyIsForgotten, MailboxClosedOnce,
                ClosedHasNoPending
  <1>7. CASE Expire(k)
    BY <1>7 DEF Expire, OneOwner, NobodyIsForgotten, MailboxClosedOnce,
                ClosedHasNoPending
  <1> QED BY <1>1, <1>2, <1>3, <1>4, <1>5, <1>6, <1>7 DEF CallNext

\* The steps of the server, the transport, the pump and Close.
LEMMA PumpSafe ==
    ASSUME MailInv,
           \/ \E k \in Calls : Reply(k)
           \/ ReadEnds \/ PumpTake \/ PumpDeliver \/ PumpExit
           \/ CloseClient \/ CloseTransport
    PROVE  MailInv'
  <1> USE McpAssumption DEF MailInv, TypeOK, client, transport
  <1>1. CASE \E k \in Calls : Reply(k)
    <2> PICK k \in Calls : Reply(k)
      BY <1>1
    <2>1. inbox' \in Seq(Calls) /\ Len(inbox') <= RecvCap
      BY AppendProperties DEF Reply, RecvHasRoom
    <2>2. replies' \in [Calls -> 0..MaxReplies]
      BY DEF Reply
    <2> QED
      BY <2>1, <2>2 DEF Reply, OneOwner, NobodyIsForgotten, MailboxClosedOnce,
                        ClosedHasNoPending
  <1>2. CASE ReadEnds
    BY <1>2 DEF ReadEnds, OneOwner, NobodyIsForgotten, MailboxClosedOnce,
                ClosedHasNoPending
  <1>3. CASE PumpTake
    <2>1. inbox' \in Seq(Calls) /\ Len(inbox') <= RecvCap
      BY <1>3, HeadTailProperties DEF PumpTake
    <2>2. /\ pending' \subseteq pending
          /\ holding' \in Calls \cup {Nothing}
      BY <1>3 DEF PumpTake, Addressee, StillPending, PumpIdle
    <2>3. OneOwner'
      BY <1>3 DEF PumpTake, Addressee, StillPending, PumpIdle, OneOwner
    <2>4. NobodyIsForgotten'
      BY <1>3 DEF PumpTake, Addressee, StillPending, PumpIdle, OneOwner,
                  NobodyIsForgotten
    <2> QED
      BY <1>3, <2>1, <2>2, <2>3, <2>4
      DEF PumpTake, MailboxClosedOnce, ClosedHasNoPending
  <1>4. CASE PumpDeliver
    <2>1. mailbox' = [mailbox EXCEPT ![holding] = "delivered"] /\ ~panicked'
      BY <1>4 DEF PumpDeliver, OneOwner, MailboxClosedOnce
    <2>2. OneOwner'
      BY <1>4, <2>1 DEF PumpDeliver, OneOwner
    <2>3. NobodyIsForgotten'
      BY <1>4, <2>1 DEF PumpDeliver, NobodyIsForgotten
    <2> QED
      BY <1>4, <2>1, <2>2, <2>3
      DEF PumpDeliver, Mailboxes, MailboxClosedOnce, ClosedHasNoPending
  <1>5. CASE PumpExit
    <2>1. /\ mailbox' \in [Calls -> Mailboxes]
          /\ OneOwner' /\ ~panicked' /\ panicked' \in BOOLEAN
          /\ NobodyIsForgotten' /\ pending' = {}
      BY <1>5, ShutPendingSafe DEF PumpExit
    <2> QED
      BY <1>5, <2>1 DEF PumpExit, PumpIdle, MailboxClosedOnce, ClosedHasNoPending
  <1>6. CASE CloseClient
    <2>1. /\ mailbox' \in [Calls -> Mailboxes]
          /\ OneOwner' /\ ~panicked' /\ panicked' \in BOOLEAN
          /\ NobodyIsForgotten' /\ pending' = {}
      BY <1>6, ShutPendingSafe DEF CloseClient
    <2> QED
      BY <1>6, <2>1 DEF CloseClient, PumpIdle, MailboxClosedOnce, ClosedHasNoPending
  <1>7. CASE CloseTransport
    BY <1>7 DEF CloseTransport, OneOwner, NobodyIsForgotten,
                MailboxClosedOnce, ClosedHasNoPending
  <1> QED BY <1>1, <1>2, <1>3, <1>4, <1>5, <1>6, <1>7

\* The strengthened invariant behind the theorems of this section.
THEOREM MailInvariant == Spec => []MailInv
  <1>1. Init => MailInv
    <2> SUFFICES ASSUME Init PROVE MailInv
      OBVIOUS
    <2>1. TypeOK
      <3>1. inbox \in Seq(Calls) /\ Len(inbox) <= RecvCap
        BY McpAssumption DEF Init
      <3>2. replies \in [Calls -> 0..MaxReplies]
        BY McpAssumption DEF Init
      <3> QED BY <3>1, <3>2 DEF Init, TypeOK, CallSteps, Mailboxes
    <2>2. OneOwner /\ MailboxClosedOnce /\ ClosedHasNoPending
      BY McpAssumption DEF Init, OneOwner, MailboxClosedOnce, ClosedHasNoPending
    <2>3. NobodyIsForgotten
      BY DEF Init, NobodyIsForgotten, Outcomes
    <2> QED BY <2>1, <2>2, <2>3 DEF MailInv
  <1>2. MailInv /\ [Next]_vars => MailInv'
    <2> SUFFICES ASSUME MailInv, [Next]_vars PROVE MailInv'
      OBVIOUS
    <2>1. CASE UNCHANGED vars
      BY <2>1 DEF vars, MailInv, TypeOK, OneOwner, MailboxClosedOnce,
                  NobodyIsForgotten, ClosedHasNoPending
    <2> QED BY <2>1, CallSafe, PumpSafe DEF Next, Quiet
  <1> QED BY <1>1, <1>2, PTL DEF Spec

\* No interleaving of pump, Close, duplicate replies and callers that give up
\* closes a mailbox twice or writes to a closed one.
THEOREM NoDoubleClose == Spec => []MailboxClosedOnce
  BY MailInvariant, PTL DEF MailInv

\* A call under way is in the table or in the pump's hands until its mailbox
\* is closed, and only callers that gave up leave an entry behind.
THEOREM CallersAreKnown == Spec => []NobodyIsForgotten
  BY MailInvariant, PTL DEF MailInv

\* Nobody can begin to wait on a closed client.
THEOREM ClosedIsEmpty == Spec => []ClosedHasNoPending
  BY MailInvariant, PTL DEF MailInv

-----------------------------------------------------------------------------
(* The client implements RpcCalls                                          *)

\* What travels from the server to a mailbox is a reply to the request of the
\* call the mailbox belongs to, and only calls that were sent have replies.
RepliesAreGenuine ==
    /\ \A k \in Calls : mailbox[k] = "delivered" => replies[k] > 0
    /\ holding # Nothing => replies[holding] > 0
    /\ \A i \in 1..Len(inbox) : replies[inbox[i]] > 0
    /\ \A k \in Calls : replies[k] > 0 => k \in requests
    /\ \A k \in requests : call[k] \notin {"idle", "registered"}

\* The steps of callers keep replies genuine: none of them is a reply.
LEMMA CallsKeepReplies ==
    ASSUME TypeOK, RepliesAreGenuine, NEW k \in Calls, CallNext(k) \/ Expire(k)
    PROVE  RepliesAreGenuine'
  <1> USE DEF TypeOK, RepliesAreGenuine, Goto, At, client, transport
  <1>1. UNCHANGED <<mailbox, holding, inbox, replies>>
    BY DEF CallNext, Register, Transmit, SendReturns, SendFails, TakeMail,
           GiveUp, Expire
  <1>2. CASE UNCHANGED requests
    <2>1. \A j \in requests : call'[j] \notin {"idle", "registered"}
      BY <1>2 DEF CallNext, Register, SendReturns, SendFails, TakeMail,
                  GiveUp, Expire, Transmit
    <2> QED BY <1>1, <1>2, <2>1
  <1>3. CASE Transmit(k)
    BY <1>1, <1>3 DEF Transmit
  <1> QED
    BY <1>2, <1>3 DEF CallNext, Register, SendReturns, SendFails, TakeMail,
                      GiveUp, Expire

\* So do the server, the pump, which moves a reply to its own call only, and
\* Close.
LEMMA PumpKeepsReplies ==
    ASSUME TypeOK, RepliesAreGenuine,
           \/ \E k \in Calls : Reply(k)
           \/ ReadEnds \/ PumpTake \/ PumpDeliver \/ PumpExit
           \/ CloseClient \/ CloseTransport
    PROVE  RepliesAreGenuine'
  <1> USE DEF TypeOK, RepliesAreGenuine, client, transport
  <1>1. CASE \E k \in Calls : Reply(k)
    <2> PICK k \in Calls : Reply(k)
      BY <1>1
    <2>1. /\ replies' = [replies EXCEPT ![k] = @ + 1]
          /\ inbox' = Append(inbox, k)
          /\ k \in requests
          /\ UNCHANGED <<call, mailbox, holding, requests>>
      BY DEF Reply
    <2>2. \A j \in Calls : replies'[j] > 0 <=> replies[j] > 0 \/ j = k
      BY <2>1
    <2>3. \A i \in 1..Len(inbox') : inbox'[i] \in Calls /\ replies'[inbox'[i]] > 0
      BY <2>1, <2>2, AppendProperties
    <2> QED BY <2>1, <2>2, <2>3
  <1>2. CASE ReadEnds \/ CloseTransport
    BY <1>2 DEF ReadEnds, CloseTransport
  <1>3. CASE PumpTake
    <2>1. /\ inbox # <<>>
          /\ inbox' = Tail(inbox)
          /\ \/ holding' = holding
             \/ holding' = Head(inbox)
          /\ UNCHANGED <<call, mailbox, requests, replies>>
      BY <1>3 DEF PumpTake, Addressee, PumpIdle
    <2>2. Head(inbox) = inbox[1] /\ 1 \in 1..Len(inbox)
      BY <2>1
    <2>3. \A i \in 1..Len(inbox') : inbox'[i] = inbox[i + 1] /\ i + 1 \in 1..Len(inbox)
      BY <2>1
    <2> QED BY <2>1, <2>2, <2>3
  <1>4. CASE PumpDeliver
    BY <1>4 DEF PumpDeliver
  <1>5. CASE PumpExit
    BY <1>5 DEF PumpExit, ShutPending
  <1>6. CASE CloseClient
    BY <1>6 DEF CloseClient, ShutPending
  <1> QED BY <1>1, <1>2, <1>3, <1>4, <1>5, <1>6

\* Replies are genuine in every run.
LEMMA GenuineReplies == Spec => []RepliesAreGenuine
  <1>1. Init => RepliesAreGenuine
    BY DEF Init, RepliesAreGenuine
  <1>2. TypeOK /\ RepliesAreGenuine /\ [Next]_vars => RepliesAreGenuine'
    <2> SUFFICES ASSUME TypeOK, RepliesAreGenuine, [Next]_vars
                 PROVE  RepliesAreGenuine'
      OBVIOUS
    <2>1. CASE UNCHANGED vars
      BY <2>1 DEF vars, RepliesAreGenuine
    <2> QED BY <2>1, CallsKeepReplies, PumpKeepsReplies DEF Next, Quiet
  <1>3. MailInv => TypeOK
    BY DEF MailInv
  <1> QED BY <1>1, <1>2, <1>3, MailInvariant, PTL DEF Spec

\* Each step of a caller is a step of the abstract call or is invisible.
LEMMA CallRefines ==
    ASSUME TypeOK, RepliesAreGenuine, NEW k \in Calls, CallNext(k) \/ Expire(k)
    PROVE  [Rpc!Next]_Rpc!vars
  <1> USE DEF TypeOK, CallSteps, Outcomes, Goto, At, client, transport
  <1>1. UNCHANGED RepliedTo
    BY DEF CallNext, Register, Transmit, SendReturns, SendFails, TakeMail,
           GiveUp, Expire, RepliedTo
  <1>2. \A step \in CallSteps :
          call' = [call EXCEPT ![k] = step] =>
            Phase' = [Phase EXCEPT ![k] =
                        CASE step \in {"registered", "sent", "waiting"} -> "open"
                          [] step \in {"idle", "answered"} -> step
                          [] OTHER -> "failed"]
    BY DEF Phase
  <1>3. CASE Register(k)
    <2>1. Phase[k] = "idle"
      BY <1>3 DEF Register, Phase
    <2>2. CASE call' = [call EXCEPT ![k] = "refused"]
      <3>1. Phase' = [Phase EXCEPT ![k] = "failed"]
        BY <1>2, <2>2
      <3>2. Rpc!Fail(k)
        BY <1>1, <2>1, <3>1 DEF Rpc!Fail
      <3> QED BY <3>2 DEF Rpc!Next
    <2>3. CASE call' = [call EXCEPT ![k] = "registered"]
      <3>1. Phase' = [Phase EXCEPT ![k] = "open"]
        BY <1>2, <2>3
      <3>2. Rpc!Ask(k)
        BY <1>1, <2>1, <3>1 DEF Rpc!Ask
      <3> QED BY <3>2 DEF Rpc!Next
    <2> QED BY <1>3, <2>2, <2>3 DEF Register
  <1>4. CASE Transmit(k) \/ SendReturns(k)
    <2>1. UNCHANGED Phase
      BY <1>4 DEF Transmit, SendReturns, Phase
    <2> QED BY <1>1, <2>1 DEF Rpc!vars
  <1>5. CASE SendFails(k) \/ GiveUp(k)
    <2>1. Phase[k] = "open"
      BY <1>5 DEF SendFails, GiveUp, Phase
    <2>2. Phase' = [Phase EXCEPT ![k] = "failed"]
      BY <1>2, <1>5 DEF SendFails, GiveUp
    <2>3. Rpc!Fail(k)
      BY <1>1, <2>1, <2>2 DEF Rpc!Fail
    <2> QED BY <2>3 DEF Rpc!Next
  <1>6. CASE TakeMail(k)
    <2>1. Phase[k] = "open"
      BY <1>6 DEF TakeMail, Phase
    <2>2. CASE mailbox[k] = "delivered" /\ call' = [call EXCEPT ![k] = "answered"]
      <3>1. Phase' = [Phase EXCEPT ![k] = "answered"]
        BY <1>2, <2>2
      <3>2. k \in RepliedTo
        BY <2>2 DEF RepliesAreGenuine, RepliedTo
      <3>3. Rpc!Answer(k)
        BY <1>1, <2>1, <3>1, <3>2 DEF Rpc!Answer
      <3> QED BY <3>3 DEF Rpc!Next
    <2>3. CASE call' = [call EXCEPT ![k] = "disconnected"]
      <3>1. Phase' = [Phase EXCEPT ![k] = "failed"]
        BY <1>2, <2>3
      <3>2. Rpc!Fail(k)
        BY <1>1, <2>1, <3>1 DEF Rpc!Fail
      <3> QED BY <3>2 DEF Rpc!Next
    <2> QED BY <1>6, <2>2, <2>3 DEF TakeMail
  <1>7. CASE Expire(k)
    <2>1. UNCHANGED Phase
      BY <1>7 DEF Expire, Phase
    <2> QED BY <1>1, <2>1 DEF Rpc!vars
  <1> QED BY <1>3, <1>4, <1>5, <1>6, <1>7 DEF CallNext

\* The server's replies are abstract replies; the rest is invisible.
LEMMA PumpRefines ==
    ASSUME TypeOK, RepliesAreGenuine,
           \/ \E k \in Calls : Reply(k)
           \/ ReadEnds \/ PumpTake \/ PumpDeliver \/ PumpExit
           \/ CloseClient \/ CloseTransport
    PROVE  [Rpc!Next]_Rpc!vars
  <1> USE DEF TypeOK, client, transport
  <1>1. UNCHANGED Phase
    BY DEF Reply, ReadEnds, PumpTake, PumpDeliver, PumpExit, CloseClient,
           CloseTransport, Phase
  <1>2. CASE \E k \in Calls : Reply(k)
    <2> PICK k \in Calls : Reply(k)
      BY <1>2
    <2>1. RepliedTo' = RepliedTo \cup {k}
      BY DEF Reply, RepliedTo
    <2>2. Phase[k] # "idle"
      BY DEF Reply, RepliesAreGenuine, Phase, CallSteps, Outcomes
    <2>3. Rpc!Reply(k)
      BY <1>1, <2>1, <2>2 DEF Rpc!Reply
    <2> QED BY <2>3 DEF Rpc!Next
  <1>3. CASE UNCHANGED replies
    BY <1>1, <1>3 DEF RepliedTo, Rpc!vars
  <1> QED
    BY <1>2, <1>3 DEF ReadEnds, PumpTake, PumpDeliver, PumpExit, CloseClient,
                      CloseTransport

\* The client implements RpcCalls: a call ends once, and it is answered only
\* by a reply to its own request, whatever order, number and delay of replies.
THEOREM ClientImplementsRpc == Spec => RpcSpec
  <1>1. Init => Rpc!Init
    BY DEF Init, Phase, RepliedTo, Rpc!Init
  <1>2. TypeOK /\ RepliesAreGenuine /\ [Next]_vars => [Rpc!Next]_Rpc!vars
    <2> SUFFICES ASSUME TypeOK, RepliesAreGenuine, [Next]_vars
                 PROVE  [Rpc!Next]_Rpc!vars
      OBVIOUS
    <2>1. CASE UNCHANGED vars
      BY <2>1 DEF vars, Phase, RepliedTo, Rpc!vars
    <2> QED BY <2>1, CallRefines, PumpRefines DEF Next, Quiet
  <1>3. MailInv => TypeOK
    BY DEF MailInv
  <1> QED
    BY <1>1, <1>2, <1>3, MailInvariant, GenuineReplies, PTL
    DEF Spec, RpcSpec, Rpc!Spec

=============================================================================
