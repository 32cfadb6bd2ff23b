---------------------------- MODULE MessageBus -----------------------------
(***************************************************************************)
(* The bus between channels and the agent (pkg/bus/bus.go): two bounded Go *)
(* channels, publishers that check, register and then send, and a Close    *)
(* that closes done, waits for the registered publishers, closes both      *)
(* channels and drains them.                                               *)
(*                                                                         *)
(* A publisher here is one call of PublishInbound or PublishOutbound; the  *)
(* message it carries is named after it. The wait group counts exactly the *)
(* publishers at "sending", so it is not a variable of its own.            *)
(***************************************************************************)
EXTENDS Naturals, Sequences, FiniteSets, SequencesExt

CONSTANTS
    Publishers,     \* publish calls
    Closers,        \* Close calls
    QueueOf,        \* [Publishers -> Queues]: which channel a call sends on
    Cap,            \* buffer size of each channel (64 in the code)
    JoinFirst,      \* TRUE: Close is called when no publish is under way or
                    \* to come, as main.run does after wg.Wait()
    Nobody          \* no Close has entered closeOnce

Queues == {"inbound", "outbound"}

ASSUME BusAssumption ==
    /\ QueueOf \in [Publishers -> Queues]
    /\ Cap \in Nat \ {0}
    /\ JoinFirst \in BOOLEAN
    /\ Nobody \notin Closers

VARIABLES
    pub,        \* pub[p]: where the publish call p is
    cancelled,  \* publish calls whose ctx is done
    buffer,     \* buffer[q]: the messages in the Go channel q
    shut,       \* the Go channels that close() has been called on
    done,       \* mb.done is closed
    closed,     \* the atomic flag mb.closed
    once,       \* the Close call that runs the body of closeOnce
    closer,     \* closer[x]: where the Close call x is
    received,   \* messages the consumers took
    drained,    \* messages Close threw away
    panicked    \* the process died of a send on a closed channel

vars == <<pub, cancelled, buffer, shut, done, closed, once, closer, received,
          drained, panicked>>

\* Where a publish call is: before its first check, between its two checks,
\* between the checks and wg.Add, in the final select; and how it ended.
Results == {"accepted", "refused", "aborted"}
PubSteps == {"idle", "open", "checked", "sending"} \cup Results

\* How far a Close call is; the names say what has just been done.
CloseSteps == {"idle", "doneClosed", "flagged", "joined", "inboundShut",
               "outboundShut", "inboundDrained", "returned"}

Init ==
    /\ pub = [p \in Publishers |-> "idle"]
    /\ cancelled = {}
    /\ buffer = [q \in Queues |-> <<>>]
    /\ shut = {}
    /\ done = FALSE
    /\ closed = FALSE
    /\ once = Nobody
    /\ closer = [x \in Closers |-> "idle"]
    /\ received = {}
    /\ drained = {}
    /\ panicked = FALSE

busState == <<buffer, shut, done, closed, once, closer, received, drained>>

\* The process is alive and the call is at the given point.
At(p, step) == ~panicked /\ pub[p] = step
ClosingAt(x, step) == ~panicked /\ closer[x] = step

PubGoto(p, step) == pub' = [pub EXCEPT ![p] = step]

-----------------------------------------------------------------------------
(* PublishInbound and PublishOutbound                                      *)

\* In main.run every goroutine that publishes has returned before Close.
MayPublish == JoinFirst => \A x \in Closers : closer[x] = "idle"

\* First check: the closed flag.
CheckFlag(p) ==
    /\ At(p, "idle")
    /\ MayPublish
    /\ PubGoto(p, IF closed THEN "refused" ELSE "open")
    /\ UNCHANGED <<cancelled, busState, panicked>>

\* Second check: ctx and done, without waiting.
CheckDone(p) ==
    /\ At(p, "open")
    /\ \/ p \in cancelled /\ PubGoto(p, "aborted")
       \/ done /\ PubGoto(p, "refused")
       \/ p \notin cancelled /\ ~done /\ PubGoto(p, "checked")
    /\ UNCHANGED <<cancelled, busState, panicked>>

\* wg.Add(1).
Register(p) ==
    /\ At(p, "checked")
    /\ PubGoto(p, "sending")
    /\ UNCHANGED <<cancelled, busState, panicked>>

HasRoom(q) == Len(buffer[q]) < Cap

MutSendThenCheck(p) ==
    /\ At(p, "sending")
    /\ QueueOf[p] \notin shut
    /\ HasRoom(QueueOf[p])
    /\ buffer' = [buffer EXCEPT ![QueueOf[p]] = Append(@, p)]
    /\ PubGoto(p, IF p \in cancelled THEN "aborted" ELSE "accepted")
    /\ UNCHANGED <<cancelled, shut, done, closed, once, closer, received,
                   drained, panicked>>

\* The select sends: the buffer has room and nobody closed it.
Send(p) ==
    /\ At(p, "sending")
    /\ QueueOf[p] \notin shut
    /\ HasRoom(QueueOf[p])
    /\ buffer' = [buffer EXCEPT ![QueueOf[p]] = Append(@, p)]
    /\ PubGoto(p, "accepted")
    /\ UNCHANGED <<cancelled, shut, done, closed, once, closer, received,
                   drained, panicked>>

\* The select picks the send case of a closed channel: a Go panic.
SendOnClosed(p) ==
    /\ At(p, "sending")
    /\ QueueOf[p] \in shut
    /\ panicked' = TRUE
    /\ UNCHANGED <<pub, cancelled, busState>>

MutGiveUp(p) ==
    /\ At(p, "sending")
    /\ p \in cancelled /\ PubGoto(p, "aborted")
    /\ UNCHANGED <<cancelled, busState, panicked>>

\* The select finds ctx or done ready. Any ready case may be picked.
GiveUp(p) ==
    /\ At(p, "sending")
    /\ \/ p \in cancelled /\ PubGoto(p, "aborted")
       \/ done /\ PubGoto(p, "refused")
    /\ UNCHANGED <<cancelled, busState, panicked>>

\* The context of one caller is cancelled, or the parent of all of them, as
\* all of main.run's have one.
Cancel(callers) ==
    /\ ~panicked
    /\ ~ callers \subseteq cancelled
    /\ cancelled' = cancelled \cup callers
    /\ UNCHANGED <<pub, busState, panicked>>

-----------------------------------------------------------------------------
(* Consumers: runInboundLoop and runOutboundLoop                           *)

Receive(q) ==
    /\ ~panicked
    /\ buffer[q] # <<>>
    /\ received' = received \cup {Head(buffer[q])}
    /\ buffer' = [buffer EXCEPT ![q] = Tail(@)]
    /\ UNCHANGED <<pub, cancelled, shut, done, closed, once, closer, drained,
                   panicked>>

-----------------------------------------------------------------------------
(* Close                                                                   *)

CloseGoto(x, step) == closer' = [closer EXCEPT ![x] = step]

\* No publish call is past its first check without having returned.
NoPublishUnderWay == \A p \in Publishers : pub[p] \in {"idle"} \cup Results

\* Enter closeOnce and close done.
CloseDone(x) ==
    /\ ClosingAt(x, "idle")
    /\ once = Nobody
    /\ JoinFirst => NoPublishUnderWay
    /\ once' = x
    /\ done' = TRUE
    /\ CloseGoto(x, "doneClosed")
    /\ UNCHANGED <<pub, cancelled, buffer, shut, closed, received, drained,
                   panicked>>

\* closed.Store(true)
SetFlag(x) ==
    /\ ClosingAt(x, "doneClosed")
    /\ closed' = TRUE
    /\ CloseGoto(x, "flagged")
    /\ UNCHANGED <<pub, cancelled, buffer, shut, done, once, received,
                   drained, panicked>>

WaitGroupIsZero == \A p \in Publishers : pub[p] # "sending"

\* wg.Wait() returns.
JoinPublishers(x) ==
    /\ ClosingAt(x, "flagged")
    /\ WaitGroupIsZero
    /\ CloseGoto(x, "joined")
    /\ UNCHANGED <<pub, cancelled, buffer, shut, done, closed, once, received,
                   drained, panicked>>

\* close(mb.inbound), then close(mb.outbound)
ShutQueue(x) ==
    /\ \/ /\ ClosingAt(x, "joined")
          /\ shut' = shut \cup {"inbound"}
          /\ CloseGoto(x, "inboundShut")
       \/ /\ ClosingAt(x, "inboundShut")
          /\ shut' = shut \cup {"outbound"}
          /\ CloseGoto(x, "outboundShut")
    /\ UNCHANGED <<pub, cancelled, buffer, done, closed, once, received,
                   drained, panicked>>

\* The drain loops compete with the consumers for what is left.
Drain(x, q) ==
    /\ \/ ClosingAt(x, "outboundShut") /\ q = "inbound"
       \/ ClosingAt(x, "inboundDrained") /\ q = "outbound"
    /\ buffer[q] # <<>>
    /\ drained' = drained \cup {Head(buffer[q])}
    /\ buffer' = [buffer EXCEPT ![q] = Tail(@)]
    /\ UNCHANGED <<pub, cancelled, shut, done, closed, once, closer, received,
                   panicked>>

\* A drain loop ends when its channel is closed and empty; with the second
\* one the body of closeOnce returns.
EndDrain(x) ==
    /\ \/ /\ ClosingAt(x, "outboundShut")
          /\ buffer["inbound"] = <<>>
          /\ CloseGoto(x, "inboundDrained")
       \/ /\ ClosingAt(x, "inboundDrained")
          /\ buffer["outbound"] = <<>>
          /\ CloseGoto(x, "returned")
    /\ UNCHANGED <<pub, cancelled, buffer, shut, done, closed, once, received,
                   drained, panicked>>

MutOnceFinished == once # Nobody

OnceFinished == once # Nobody /\ closer[once] = "returned"

\* Any further Close waits in closeOnce.Do for the first one.
CloseAgain(x) ==
    /\ ClosingAt(x, "idle")
    /\ OnceFinished
    /\ CloseGoto(x, "returned")
    /\ UNCHANGED <<pub, cancelled, buffer, shut, done, closed, once, received,
                   drained, panicked>>

-----------------------------------------------------------------------------
PublishNext(p) ==
    \/ CheckFlag(p) \/ CheckDone(p) \/ Register(p)
    \/ Send(p) \/ SendOnClosed(p) \/ GiveUp(p)

CloseNext(x) ==
    \/ CloseDone(x) \/ SetFlag(x) \/ JoinPublishers(x) \/ ShutQueue(x)
    \/ EndDrain(x) \/ CloseAgain(x)
    \/ \E q \in Queues : Drain(x, q)

\* The process is dead, or every Close call has returned and no publish call
\* is under way.
Quiet ==
    /\ \/ panicked
       \/ NoPublishUnderWay /\ \A x \in Closers : closer[x] = "returned"
    /\ UNCHANGED vars

Next ==
    \/ \E p \in Publishers : PublishNext(p)
    \/ Cancel(Publishers) \/ \E p \in Publishers : Cancel({p})
    \/ \E q \in Queues : Receive(q)
    \/ \E x \in Closers : CloseNext(x)
    \/ Quiet

Spec == Init /\ [][Next]_vars

\* Every goroutine inside Publish or Close runs when it can. Consumers get no
\* fairness: a loop may be busy with a turn or gone.
FairSpec ==
    /\ Spec
    /\ \A p \in Publishers :
         WF_vars(CheckDone(p) \/ Register(p) \/ Send(p) \/ GiveUp(p))
    /\ \A x \in Closers :
         /\ WF_vars(CloseNext(x) /\ closer[x] # "idle")
         /\ WF_vars(CloseAgain(x))

-----------------------------------------------------------------------------
(* Properties                                                              *)

\* Every variable stays within its type, and a buffer within its capacity.
TypeOK ==
    /\ pub \in [Publishers -> PubSteps]
    /\ cancelled \subseteq Publishers
    /\ buffer \in [Queues -> Seq(Publishers)]
    /\ \A q \in Queues : Len(buffer[q]) <= Cap
    /\ shut \subseteq Queues
    /\ done \in BOOLEAN
    /\ closed \in BOOLEAN
    /\ once \in Closers \cup {Nobody}
    /\ closer \in [Closers -> CloseSteps]
    /\ received \subseteq Publishers
    /\ drained \subseteq Publishers
    /\ panicked \in BOOLEAN

\* "It is safe for concurrent use" and Close "waits for in-flight publishes
\* to finish before closing" (bus.go:16, 99-101): nobody sends on a closed
\* channel.
NoSendOnClosedChannel == ~panicked

\* Every message whose publish call returned nil is in exactly one place -
\* still buffered, taken by a consumer or thrown away by Close - and a message
\* whose call returned an error is nowhere (bus.go:53-60, 109-112).
AcceptedOnce ==
    LET buffered == UNION {ToSet(buffer[q]) : q \in Queues}
    IN  /\ {p \in Publishers : pub[p] = "accepted"}
              = buffered \cup received \cup drained
        /\ buffered \cap received = {}
        /\ buffered \cap drained = {}
        /\ received \cap drained = {}
        /\ \A q \in Queues : IsInjective(buffer[q])

\* Messages are thrown away only by Close, and whichever Close call has
\* returned, the first or a repeated one, nothing is left in the bus and
\* nothing can be accepted any more (bus.go:99-114).
ClosedMeansEmpty ==
    /\ drained # {} => done /\ closed
    /\ (\E x \in Closers : closer[x] = "returned") =>
          /\ shut = Queues
          /\ \A q \in Queues : buffer[q] = <<>>

\* Nobody blocks for ever on a full buffer that no one consumes: Close
\* releases the publishers it waits for and returns, and so does a publish
\* call once its context is done (bus.go:53-60, 102-114).
BlockedCallsReturn ==
    /\ \A x \in Closers :
         closer[x] # "idle" ~> closer[x] = "returned" \/ panicked
    /\ \A p \in Publishers :
         pub[p] = "sending" /\ (done \/ p \in cancelled)
             ~> pub[p] \in Results \/ panicked

=============================================================================
