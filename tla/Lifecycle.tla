----------------------------- MODULE Lifecycle ------------------------------
(***************************************************************************)
(* The life of the process (cmd/souz-agent/main.go run): start-up, the     *)
(* goroutines it starts - the Telegram channel, the inbound and the        *)
(* outbound loop, the HTTP server - the message bus between them, and the  *)
(* shutdown: signal, Shutdown of the HTTP server, wg.Wait, Close of the    *)
(* bus, Close of the MCP clients. A life ends in that way or by a crash;   *)
(* then another one may begin, with a new bus and a new poll offset.       *)
(*                                                                         *)
(* Telegram keeps the users' messages, numbered from 1 (update ids), until *)
(* a poll asks for a later one. The bus is an instance of MessageBus.      *)
(***************************************************************************)
EXTENDS Integers, Sequences, FiniteSets, SequencesExt

CONSTANTS
    MaxUpdates,     \* bound: updates users send
    Ignored,        \* updates without a text or from a stranger
    MaxLives,       \* bound: how often the process is started
    Cap             \* buffer size of the bus (64)

Updates == 1..MaxUpdates

ASSUME LifecycleAssumption ==
    /\ MaxUpdates \in Nat
    /\ Ignored \subseteq Updates
    /\ MaxLives \in Nat
    /\ Cap \in Nat \ {0}

VARIABLES
    life,       \* lives begun
    main,       \* where the goroutine of run is
    signalled,  \* its ctx is done
    listener,   \* where the goroutine of the HTTP server is
    closing,    \* Shutdown has been called on the net/http server
    poller,     \* where the goroutine of the Telegram channel is
    batch,      \* the updates it has got and not yet dispatched
    offset,     \* the offset of its next poll
    inLoop,     \* where the inbound loop is, and with which update
    outLoop,    \* where the outbound loop is
    sent,       \* Telegram: updates users had sent at the last poll
    confirmed,  \* Telegram: updates before this one are forgotten
    base,       \* confirmed when this life began (history variable)
    taken,      \* updates the inbound loop took in this life (history)
    accepted,   \* updates whose publish call returned nil (history)
    \* the variables of the bus
    pub, cancelled, buffer, shut, done, closed, once, closer, received,
    drained, panicked

bus == <<pub, cancelled, buffer, shut, done, closed, once, closer, received,
         drained, panicked>>
server == <<listener, closing>>
channel == <<poller, batch, offset>>
loops == <<inLoop, outLoop>>
telegram == <<sent, confirmed>>
history == <<base, taken, accepted>>

vars == <<life, main, signalled, server, channel, loops, telegram, history,
          bus>>

-----------------------------------------------------------------------------
(* The bus. A publish call is named by its queue, the update it is for and *)
(* a number, since nothing in the bus keeps the poller from publishing an  *)
(* update twice.                                                           *)

InCalls(u) == {"inbound"} \X {u} \X {1, 2}
Out(u) == <<"outbound", u, 1>>

Messages == ({"inbound"} \X Updates \X {1, 2}) \cup {Out(u) : u \in Updates}

Bus == INSTANCE MessageBus WITH
          Publishers <- Messages,
          Closers    <- {"main"},
          QueueOf    <- [m \in Messages |-> m[1]],
          JoinFirst  <- FALSE,
          Nobody     <- "nobody"

UnderWay(m) == pub[m] \in {"open", "checked", "sending"}
Returned(m) == pub[m] \in Bus!Results

\* The steps of a publish call after its first check.
Publishing(m) ==
    \/ Bus!CheckDone(m) \/ Bus!Register(m) \/ Bus!Send(m)
    \/ Bus!SendOnClosed(m) \/ Bus!GiveUp(m)

-----------------------------------------------------------------------------
Nobody == [at |-> "idle", update |-> 0]

Init ==
    /\ life = 0
    /\ main = "off"
    /\ signalled = FALSE
    /\ listener = "off"
    /\ closing = FALSE
    /\ poller = "off"
    /\ batch = <<>>
    /\ offset = 0
    /\ inLoop = Nobody
    /\ outLoop = "idle"
    /\ sent = 0
    /\ confirmed = 1
    /\ base = 1
    /\ taken = <<>>
    /\ accepted = {}
    /\ Bus!Init

Alive == main # "off" /\ ~panicked

\* The process is started.
Boot ==
    /\ main = "off"
    /\ life < MaxLives
    /\ life' = life + 1
    /\ main' = "building"
    /\ base' = confirmed
    /\ UNCHANGED <<signalled, server, channel, loops, telegram, taken, accepted,
                   bus>>

\* The process is gone: the next one begins with a new memory.
Die ==
    /\ main' = "off"
    /\ signalled' = FALSE
    /\ listener' = "off" /\ closing' = FALSE
    /\ poller' = "off" /\ batch' = <<>> /\ offset' = 0
    /\ inLoop' = Nobody /\ outLoop' = "idle"
    /\ taken' = <<>>
    /\ pub' = [m \in Messages |-> "idle"] /\ cancelled' = {}
    /\ buffer' = [q \in Bus!Queues |-> <<>>] /\ shut' = {}
    /\ done' = FALSE /\ closed' = FALSE
    /\ once' = "nobody" /\ closer' = [x \in {"main"} |-> "idle"]
    /\ received' = {} /\ drained' = {} /\ panicked' = FALSE
    /\ UNCHANGED <<life, telegram, base, accepted>>

Crash == Alive /\ life < MaxLives /\ Die

-----------------------------------------------------------------------------
(* run                                                                     *)

\* Provider, registries, MCP clients and channels are built; then the
\* goroutines are started.
StartGoroutines ==
    /\ Alive
    /\ main = "building"
    /\ main' = "running"
    /\ poller' = "poll"
    /\ UNCHANGED <<life, signalled, server, batch, offset, loops, telegram,
                   history, bus>>

\* SIGINT or SIGTERM, at any time: ctx, the parent of all contexts but those
\* of HTTP requests, is done.
Signal ==
    /\ Alive
    /\ ~signalled
    /\ signalled' = TRUE
    /\ Bus!Cancel(Messages)
    /\ UNCHANGED <<life, main, server, channel, loops, telegram, history>>

\* s.httpServer is set.
ShutdownTakesEffect == listener # "off"

\* run sees ctx done and calls Shutdown, which does nothing if there is no
\* server yet. It waits at most five seconds for open requests.
Shutdown ==
    /\ Alive
    /\ main = "running"
    /\ signalled
    /\ closing' = ShutdownTakesEffect
    /\ main' = "joining"
    /\ UNCHANGED <<life, signalled, listener, channel, loops, telegram,
                   history, bus>>

MutPollerNotJoined ==
    inLoop.at = "done" /\ outLoop = "done" /\ listener = "stopped"

\* The wait group of run: all four goroutines have returned.
AllJoined ==
    /\ poller = "done" /\ inLoop.at = "done" /\ outLoop = "done"
    /\ listener = "stopped"

Join ==
    /\ Alive
    /\ main = "joining"
    /\ AllJoined
    /\ main' = "closing"
    /\ UNCHANGED <<life, signalled, server, channel, loops, telegram, history,
                   bus>>

\* The deferred calls: Close of the bus ...
CloseBus ==
    /\ Alive
    /\ main = "closing"
    /\ Bus!CloseNext("main")
    /\ UNCHANGED <<life, main, signalled, server, channel, loops, telegram,
                   history>>

\* ... and of the MCP clients; the process exits.
Exit ==
    /\ Alive
    /\ main = "closing"
    /\ closer["main"] = "returned"
    /\ Die

-----------------------------------------------------------------------------
(* The HTTP server                                                         *)

\* ListenAndServe sets s.httpServer ...
SetServer ==
    /\ Alive
    /\ main # "building"
    /\ listener = "off"
    /\ listener' = "set"
    /\ UNCHANGED <<life, main, signalled, closing, channel,
                   loops, telegram, history, bus>>

\* ... and returns after Shutdown, at once if it comes first, or when the
\* address is taken or accepting fails.
StopServing ==
    /\ Alive
    /\ listener = "set"
    /\ listener' = "stopped"
    /\ UNCHANGED <<life, main, signalled, closing, channel, loops, telegram,
                   history, bus>>

-----------------------------------------------------------------------------
(* The Telegram channel                                                    *)

\* What Telegram knows to be confirmed once it has got the poll.
ConfirmedBy(o) == IF o > confirmed THEN o ELSE confirmed

\* The head of the loop: ctx is checked, and the poll returns the unconfirmed
\* updates, among them those users have sent since the last one.
Poll ==
    /\ Alive
    /\ poller = "poll"
    /\ ~signalled
    /\ sent' \in sent..MaxUpdates
    /\ confirmed' = ConfirmedBy(offset)
    /\ batch' = [i \in 1..(sent' + 1 - confirmed') |-> confirmed' + i - 1]
    /\ poller' = IF batch' = <<>> THEN "poll" ELSE "batch"
    /\ UNCHANGED <<life, main, signalled, server, offset, loops, history, bus>>

\* The poll fails, before or after Telegram got it, and is repeated.
PollFails ==
    /\ Alive
    /\ poller = "poll"
    /\ ~signalled
    /\ confirmed' \in {confirmed, ConfirmedBy(offset)}
    /\ UNCHANGED <<life, main, signalled, server, channel, loops, sent,
                   history, bus>>

\* The poll, or the pause after a failed one, ends with ctx.
StopPolling ==
    /\ Alive
    /\ poller = "poll"
    /\ signalled
    /\ poller' = "done"
    /\ UNCHANGED <<life, main, signalled, server, batch, offset, loops,
                   telegram, history, bus>>

MutOffsetOf(u) == u

MutOffsetBeyond(u) == u + 2

OffsetAfter(u) == u + 1

\* The loop over the batch goes on behind its first update.
NextUpdate ==
    /\ batch' = Tail(batch)
    /\ poller' = IF batch' = <<>> THEN "poll" ELSE "batch"

\* toInboundMessage and the allow-list; then PublishInbound begins.
Dispatch ==
    /\ Alive
    /\ poller = "batch"
    /\ LET u == Head(batch) IN
         /\ offset' = OffsetAfter(u)
         /\ \/ u \in Ignored /\ NextUpdate /\ UNCHANGED bus
            \/ /\ u \notin Ignored
               /\ \E m \in InCalls(u) :
                    /\ \A k \in 1..(m[3] - 1) : Returned([m EXCEPT ![3] = k])
                    /\ Bus!CheckFlag(m)
               /\ poller' = "publishing"
               /\ UNCHANGED batch
    /\ UNCHANGED <<life, main, signalled, server, loops, telegram, history>>

PublishUpdate ==
    /\ Alive
    /\ poller = "publishing"
    /\ \E m \in InCalls(Head(batch)) : Publishing(m)
    /\ UNCHANGED <<life, main, signalled, server, channel, loops, telegram,
                   history>>

\* PublishInbound has returned; an error ends the channel.
Published ==
    /\ Alive
    /\ poller = "publishing"
    /\ LET u == Head(batch) IN
         /\ \A m \in InCalls(u) : ~UnderWay(m)
         /\ IF \A m \in InCalls(u) : pub[m] \in {"idle", "accepted"}
              THEN accepted' = accepted \cup {u} /\ NextUpdate
              ELSE poller' = "done" /\ UNCHANGED <<accepted, batch>>
    /\ UNCHANGED <<life, main, signalled, server, offset, loops, telegram,
                   base, taken, bus>>

-----------------------------------------------------------------------------
(* The loops                                                               *)

\* A select between ctx and the bus; if both are ready either is picked.
TakeInbound ==
    /\ Alive
    /\ main # "building"
    /\ inLoop.at = "idle"
    /\ \/ /\ Bus!Receive("inbound")
          /\ LET u == Head(buffer["inbound"])[2] IN
               /\ inLoop' = [at |-> "turn", update |-> u]
               /\ taken' = Append(taken, u)
       \/ /\ signalled
          /\ inLoop' = [Nobody EXCEPT !.at = "done"]
          /\ UNCHANGED <<taken, bus>>
    /\ UNCHANGED <<life, main, signalled, server, channel, outLoop, telegram,
                   base, accepted>>

MutErrorEndsLoop ==
    /\ Alive
    /\ inLoop.at = "turn"
    /\ \/ inLoop' = [Nobody EXCEPT !.at = "done"] /\ UNCHANGED bus
       \/ /\ inLoop' = [inLoop EXCEPT !.at = "reply"]
          /\ Bus!CheckFlag(Out(inLoop.update))
    /\ UNCHANGED <<life, main, signalled, server, channel, outLoop, telegram,
                   history>>

\* The turn is dropped with its error, or PublishOutbound begins.
EndTurn ==
    /\ Alive
    /\ inLoop.at = "turn"
    /\ \/ inLoop' = Nobody /\ UNCHANGED bus
       \/ /\ inLoop' = [inLoop EXCEPT !.at = "reply"]
          /\ Bus!CheckFlag(Out(inLoop.update))
    /\ UNCHANGED <<life, main, signalled, server, channel, outLoop, telegram,
                   history>>

\* PublishOutbound; its error is ignored.
PublishReply ==
    /\ Alive
    /\ inLoop.at = "reply"
    /\ \/ Publishing(Out(inLoop.update)) /\ UNCHANGED inLoop
       \/ Returned(Out(inLoop.update)) /\ inLoop' = Nobody /\ UNCHANGED bus
    /\ UNCHANGED <<life, main, signalled, server, channel, outLoop, telegram,
                   history>>

MutTakeUntilClosed ==
    /\ Alive
    /\ main # "building"
    /\ outLoop = "idle"
    /\ Bus!Receive("outbound") /\ outLoop' = "sending"
    /\ UNCHANGED <<life, main, signalled, server, channel, inLoop, telegram,
                   history>>

TakeOutbound ==
    /\ Alive
    /\ main # "building"
    /\ outLoop = "idle"
    /\ \/ Bus!Receive("outbound") /\ outLoop' = "sending"
       \/ signalled /\ outLoop' = "done" /\ UNCHANGED bus
    /\ UNCHANGED <<life, main, signalled, server, channel, inLoop, telegram,
                   history>>

\* The channel's Send returns; its error is ignored.
SendReturns ==
    /\ Alive
    /\ outLoop = "sending"
    /\ outLoop' = "idle"
    /\ UNCHANGED <<life, main, signalled, server, channel, inLoop, telegram,
                   history, bus>>

-----------------------------------------------------------------------------
MainStep == Shutdown \/ Join \/ CloseBus \/ Exit

ChannelStep ==
    \/ Poll \/ PollFails \/ StopPolling
    \/ Dispatch \/ PublishUpdate \/ Published

InLoopStep == TakeInbound \/ EndTurn \/ PublishReply

OutLoopStep == TakeOutbound \/ SendReturns

\* The process has ended for good.
Quiet == main = "off" /\ life = MaxLives /\ UNCHANGED vars

Next ==
    \/ Boot \/ Crash \/ Signal
    \/ StartGoroutines \/ MainStep
    \/ SetServer \/ StopServing
    \/ ChannelStep \/ InLoopStep \/ OutLoopStep
    \/ Quiet

Spec == Init /\ [][Next]_vars

\* Every goroutine runs when it can; polls and sends return - Telegram calls
\* take at most 40 seconds. Telegram does not fail forever. Start-up waits for
\* MCP servers, which nothing bounds but ctx. A server that has been shut down
\* stops. Nothing here makes a turn return: see TurnsReturn.
FairSpec ==
    /\ Spec
    /\ WF_vars((signalled /\ StartGoroutines) \/ MainStep)
    /\ WF_vars(SetServer \/ (closing /\ StopServing))
    /\ WF_vars(ChannelStep) /\ SF_vars(Poll)
    /\ WF_vars(TakeInbound \/ PublishReply) /\ WF_vars(OutLoopStep)

-----------------------------------------------------------------------------
(* Properties                                                              *)

LoopSteps == {"idle", "turn", "reply", "done"}

\* Every variable stays within its type.
TypeOK ==
    /\ life \in 0..MaxLives
    /\ main \in {"off", "building", "running", "joining", "closing"}
    /\ signalled \in BOOLEAN
    /\ listener \in {"off", "set", "stopped"}
    /\ closing \in BOOLEAN
    /\ poller \in {"off", "poll", "batch", "publishing", "done"}
    /\ batch \in Seq(Updates)
    /\ offset \in 0..(MaxUpdates + 1)
    /\ inLoop \in [at: LoopSteps, update: 0..MaxUpdates]
    /\ outLoop \in {"idle", "sending", "done"}
    /\ sent \in 0..MaxUpdates
    /\ confirmed \in 1..(MaxUpdates + 1)
    /\ base \in 1..confirmed
    /\ taken \in Seq(Updates)
    /\ accepted \subseteq Updates
    /\ Bus!TypeOK

\* run uses the bus as MessageBus with JoinFirst: nobody publishes once Close
\* has begun, and every step is one of the bus (main.go:113, 116-166).
JoinedBus == INSTANCE MessageBus WITH
                Publishers <- Messages,
                Closers    <- {"main"},
                QueueOf    <- [m \in Messages |-> m[1]],
                JoinFirst  <- TRUE,
                Nobody     <- "nobody"

BusIsClosedLast ==
    JoinedBus!Init /\ [][JoinedBus!Next \/ Crash \/ Exit]_(JoinedBus!vars)

\* Therefore no send on a closed channel, whatever the order in which the
\* signal, the polls and the loops meet (bus.go:99-101).
NoSendOnClosedChannel == Bus!NoSendOnClosedChannel

\* s holds the messages from first up to, but not including, next in their
\* order, each once.
Enumerates(s, first, next) ==
    /\ ToSet(s) = {u \in first..(next - 1) : u \notin Ignored}
    /\ \A i, j \in DOMAIN s : i < j => s[i] < s[j]

\* Within a life the inbound loop takes the users' messages in the order they
\* were sent, each once, and skips none, in spite of failing polls and a
\* backed-up bus (telegram.go:93-123, main.go:173-185).
TakenInOrder ==
    \E next \in base..(sent + 1) : Enumerates(taken, base, next)

\* Telegram forgets a message only after it was put on the bus: one whose
\* publish call failed or was cut short by a crash comes again in the next
\* life (telegram.go:113-121).
ForgottenWasAccepted ==
    \A u \in Updates : u < confirmed => u \in accepted \cup Ignored

\* Messages Telegram has handed over and the inbound loop has not taken.
Backlog == {u \in base..sent : u \notin Ignored \cup ToSet(taken)}

\* Turns return. The code bounds neither the provider's answer nor, when ctx
\* is done, the wait for a token or for an MCP server's pipe (codex.go:51,
\* stdio.go:88-90), so what needs it says so.
TurnsReturn == WF_vars(EndTurn)

\* The channel, the inbound and the outbound loop do not wait for each other
\* in a circle when the buffers are full: every message is taken in the end,
\* if turns return, unless the process is told to stop or dies
\* (bus.go:53-60).
BacklogIsTaken ==
    TurnsReturn =>
        (main = "running" /\ Backlog # {}
           ~> Backlog = {} \/ signalled \/ main = "off")

\* "graceful shutdown" (README.md:35, docs/plan.md:62): if turns return, the
\* process ends after the signal (main.go:154-166). Not so if the signal comes
\* before the goroutine of the HTTP server has set s.httpServer.
ShutdownCompletes == TurnsReturn => (signalled ~> main = "off")

\* A signal whose Shutdown finds a server to shut down ends the process, with
\* full buffers, polls, publishers and a turn under way, if turns return
\* (main.go:154-166, http.go:92-107).
ServedShutdownCompletes ==
    TurnsReturn =>
        (main = "running" /\ signalled /\ ShutdownTakesEffect ~> main = "off")

=============================================================================
