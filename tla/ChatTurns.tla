----------------------------- MODULE ChatTurns -----------------------------
(***************************************************************************)
(* The life of user turns in one souz-agent process: the HTTP handler      *)
(* handleSendMessage (pkg/http/http.go), which runs one goroutine per      *)
(* request, the inbound loop (cmd/souz-agent/main.go), which handles one   *)
(* channel message at a time, the per-chat session store they both         *)
(* read and rewrite, and the single-flight table s.active with its         *)
(* cancel-active endpoint.                                                 *)
(*                                                                         *)
(* A step is one stretch of a handler between two points where another     *)
(* goroutine can observe or change something: a file read or write, a      *)
(* locked section, a published event, the agent run itself.                *)
(***************************************************************************)
EXTENDS Naturals, Sequences, FiniteSets, SequencesExt

CONSTANTS
    Chats,          \* chat ids, the names of the session files
    HttpTurns,      \* POST /v1/chats/{chatId}/messages requests
    ChannelTurns,   \* inbound messages of a channel (Telegram)
    ChatOf,         \* [HttpTurns \cup ChannelTurns -> Chats]
    MaxCrashes,     \* bound: how often the process dies and restarts
    None,           \* no turn holds the slot
    Summary         \* the compacted memory dump at the head of a history

Turns == HttpTurns \cup ChannelTurns

ASSUME TurnsAssumption ==
    /\ ChatOf \in [Turns -> Chats]
    /\ HttpTurns \cap ChannelTurns = {}
    /\ None \notin Turns
    /\ Summary \notin Turns
    /\ MaxCrashes \in Nat

VARIABLES
    stored,     \* stored[c]: the ChatState in c's session file
    active,     \* active[c]: the turn whose cancel func is in s.active, or None
    pc,         \* pc[t]: how far the handler of t has got
    local,      \* local[t]: the handler's own copy of the ChatState (cs)
    outcome,    \* outcome[t]: what became of the turn
    stopped,    \* turns whose context is cancelled
    cancels,    \* cancel funcs looked up by cancelActive and not yet called
    asked,      \* turns some user asked to stop (history variable)
    overtaken,  \* overtaken[t]: turns saved in t's chat since t read its copy
                \* (history variable)
    erased,     \* turns that a save from an overtaken copy may have erased
                \* (history variable)
    events,     \* events[c]: what c's broadcaster has published
    crashes     \* how often the process has died

vars == <<stored, active, pc, local, outcome, stopped, cancels, asked,
          overtaken, erased, events, crashes>>

-----------------------------------------------------------------------------
(* Session state                                                           *)

\* A turn leaves one user message, plus one assistant message when answered.
Exchange == [turn: Turns, answered: BOOLEAN]

\* Messages is what the user sees, history what the model is shown next.
ChatState == [messages: Seq(Exchange), history: Seq(Turns \cup {Summary})]

NewChat == [messages |-> <<>>, history |-> <<>>]

Steps == {"unsent", "loaded", "begun", "running", "executed", "saved",
          "replied", "ended"}

Outcomes == {"none", "answered", "unsaved", "failed", "cancelled", "busy",
             "invalid", "lost"}

Kinds == {"started", "delta", "finished", "failed"}

Event == [kind: Kinds, turn: HttpTurns]

\* The handler of t is between its first and its last statement.
InProgress(t) == pc[t] \notin {"unsent", "ended"}

\* The handler of t holds a copy of the session that it has not saved yet.
HasCopy(t) == pc[t] \in {"loaded", "begun", "running", "executed"}

\* t is past tryBeginExecution and has not run its deferred endExecution.
InFlight(t) == pc[t] \in {"begun", "running", "executed", "saved", "replied"}

-----------------------------------------------------------------------------
(* What a turn does to its copy of the session                             *)

MutFailedKeepsHistory(cs, t) ==
    [messages |-> Append(cs.messages, [turn |-> t, answered |-> FALSE]),
     history  |-> Append(cs.history, t)]

MutForgetsThread(cs, t) ==
    [cs EXCEPT !.messages = <<[turn |-> t, answered |-> FALSE]>>]

\* A failed turn keeps the user's message and leaves the history alone.
WithQuestion(cs, t) ==
    [cs EXCEPT !.messages = Append(@, [turn |-> t, answered |-> FALSE])]

\* The history a finished graph run hands back: the old one extended by the
\* turn, or, when the summarize node found it too big, a summary and the last
\* message.
HistoriesAfter(cs, t) == {Append(cs.history, t), <<Summary, t>>}

WithAnswer(cs, t, h) ==
    [messages |-> Append(cs.messages, [turn |-> t, answered |-> TRUE]),
     history  |-> h]

-----------------------------------------------------------------------------
Init ==
    /\ stored  = [c \in Chats |-> NewChat]
    /\ active  = [c \in Chats |-> None]
    /\ pc      = [t \in Turns |-> "unsent"]
    /\ local   = [t \in Turns |-> NewChat]
    /\ outcome = [t \in Turns |-> "none"]
    /\ stopped = {}
    /\ cancels = {}
    /\ asked   = {}
    /\ overtaken = [t \in Turns |-> {}]
    /\ erased  = {}
    /\ events  = [c \in Chats |-> <<>>]
    /\ crashes = 0

Goto(t, step) == pc' = [pc EXCEPT ![t] = step]

Becomes(t, o) == outcome' = [outcome EXCEPT ![t] = o]

Publish(t, kind) ==
    events' = [events EXCEPT ![ChatOf[t]] =
                  Append(@, [kind |-> kind, turn |-> t])]

-----------------------------------------------------------------------------
(* POST /v1/chats/{chatId}/messages                                        *)

\* Decode the body and read the session file. Nothing is locked yet.
HttpLoad(t) ==
    /\ pc[t] = "unsent"
    /\ \/ /\ Goto(t, "loaded")
          /\ local' = [local EXCEPT ![t] = stored[ChatOf[t]]]
          /\ UNCHANGED outcome
       \/ /\ Goto(t, "ended")
          /\ Becomes(t, "invalid")
          /\ UNCHANGED local
    /\ UNCHANGED <<stored, active, stopped, cancels, asked, overtaken, erased,
                   events, crashes>>

MutSlotFree(c) == TRUE

SlotFree(c) == active[c] = None

\* tryBeginExecution takes the chat's slot.
HttpBegin(t) ==
    /\ pc[t] = "loaded"
    /\ SlotFree(ChatOf[t])
    /\ active' = [active EXCEPT ![ChatOf[t]] = t]
    /\ Goto(t, "begun")
    /\ UNCHANGED <<stored, local, outcome, stopped, cancels, asked,
                   overtaken, erased, events, crashes>>

MutRefuseAnnounced(t) ==
    /\ pc[t] = "loaded"
    /\ ~SlotFree(ChatOf[t])
    /\ Becomes(t, "busy")
    /\ Goto(t, "ended")
    /\ Publish(t, "failed")
    /\ local' = [local EXCEPT ![t] = NewChat]
    /\ overtaken' = [overtaken EXCEPT ![t] = {}]
    /\ UNCHANGED <<stored, active, stopped, cancels, asked, erased,
                   crashes>>

\* tryBeginExecution finds the slot taken: 409, nothing else happens.
HttpRefuse(t) ==
    /\ pc[t] = "loaded"
    /\ ~SlotFree(ChatOf[t])
    /\ Becomes(t, "busy")
    /\ Goto(t, "ended")
    /\ local' = [local EXCEPT ![t] = NewChat]
    /\ overtaken' = [overtaken EXCEPT ![t] = {}]
    /\ UNCHANGED <<stored, active, stopped, cancels, asked, erased,
                   events, crashes>>

\* Publish execution.started.
HttpAnnounce(t) ==
    /\ pc[t] = "begun"
    /\ Publish(t, "started")
    /\ Goto(t, "running")
    /\ UNCHANGED <<stored, active, local, outcome, stopped, cancels, asked,
                   overtaken, erased, crashes>>

\* The running graph streams through the event sink. One delta per turn
\* stands for all message.delta and tool.call.* events.
HttpEmit(t) ==
    /\ pc[t] = "running"
    /\ [kind |-> "delta", turn |-> t] \notin ToSet(events[ChatOf[t]])
    /\ Publish(t, "delta")
    /\ UNCHANGED <<stored, active, pc, local, outcome, stopped, cancels,
                   asked, overtaken, erased, crashes>>

\* Executor.Execute returns, and the handler updates its copy of the session.
\* Only a cancelled context makes the error match context.Canceled.
HttpExecute(t) ==
    /\ pc[t] = "running"
    /\ \/ /\ Becomes(t, "answered")
          /\ \E h \in HistoriesAfter(local[t], t) :
                local' = [local EXCEPT ![t] = WithAnswer(@, t, h)]
       \/ /\ \/ Becomes(t, "failed")
             \/ t \in stopped /\ Becomes(t, "cancelled")
          /\ local' = [local EXCEPT ![t] = WithQuestion(@, t)]
    /\ Goto(t, "executed")
    /\ UNCHANGED <<stored, active, stopped, cancels, asked, overtaken, erased,
                   events, crashes>>

\* A save of t's copy overtakes the other copies of its chat, and erases what
\* overtook its own (bookkeeping of the history variables).
Overtakes(t) ==
    /\ overtaken' = [u \in Turns |->
                       CASE u = t -> {}
                         [] u # t /\ HasCopy(u) /\ ChatOf[u] = ChatOf[t] ->
                              overtaken[u] \cup {t}
                         [] OTHER -> overtaken[u]]
    /\ erased' = erased \cup overtaken[t]

MutSaveErrorIgnored(t) ==
    /\ \/ stored' = [stored EXCEPT ![ChatOf[t]] = local[t]] /\ Overtakes(t)
       \/ /\ overtaken' = [overtaken EXCEPT ![t] = {}]
          /\ UNCHANGED <<stored, erased>>
    /\ UNCHANGED outcome

\* Store.Save rewrites the whole session file with the handler's copy, or
\* fails and leaves the old file. Only a completed turn notices the failure.
Save(t) ==
    \/ /\ stored' = [stored EXCEPT ![ChatOf[t]] = local[t]]
       /\ Overtakes(t)
       /\ UNCHANGED outcome
    \/ /\ outcome' = [outcome EXCEPT
                         ![t] = IF @ = "answered" THEN "unsaved" ELSE @]
       /\ overtaken' = [overtaken EXCEPT ![t] = {}]
       /\ UNCHANGED <<stored, erased>>

HttpSave(t) ==
    /\ pc[t] = "executed"
    /\ Save(t)
    /\ Goto(t, "saved")
    /\ local' = [local EXCEPT ![t] = NewChat]
    /\ UNCHANGED <<active, stopped, cancels, asked, events, crashes>>

TerminalKind(t) == IF outcome[t] = "answered" THEN "finished" ELSE "failed"

\* Publish the terminal event, unless saving failed, and write the reply.
HttpReply(t) ==
    /\ pc[t] = "saved"
    /\ IF outcome[t] = "unsaved" THEN UNCHANGED events
                                 ELSE Publish(t, TerminalKind(t))
    /\ Goto(t, "replied")
    /\ UNCHANGED <<stored, active, local, outcome, stopped, cancels, asked,
                   overtaken, erased, crashes>>

MutNeverFreed(t) == active

\* The table after endExecution deletes the chat's entry.
SlotsWithout(t) == [active EXCEPT ![ChatOf[t]] = None]

\* The deferred cancel and endExecution.
HttpRelease(t) ==
    /\ pc[t] = "replied"
    /\ active' = SlotsWithout(t)
    /\ Goto(t, "ended")
    /\ UNCHANGED <<stored, local, outcome, stopped, cancels, asked,
                   overtaken, erased, events, crashes>>

\* The client goes away: r.Context() and everything derived from it is
\* cancelled, the handler keeps running.
Disconnect(t) ==
    /\ InProgress(t)
    /\ t \notin stopped
    /\ stopped' = stopped \cup {t}
    /\ asked' = asked \cup {t}
    /\ UNCHANGED <<stored, active, pc, local, outcome, cancels,
                   overtaken, erased, events, crashes>>

-----------------------------------------------------------------------------
(* POST /v1/chats/{chatId}/cancel-active                                   *)

\* cancelActive reads the cancel func under the lock ...
CancelLookup(c) ==
    /\ active[c] # None
    /\ cancels' = cancels \cup {active[c]}
    /\ asked' = asked \cup {active[c]}
    /\ UNCHANGED <<stored, active, pc, local, outcome, stopped,
                   overtaken, erased, events, crashes>>

MutStoppedNow(t) == {active[ChatOf[t]]}

\* The turns stopped by calling the cancel func looked up for t.
StoppedBy(t) == {t}

\* ... and calls it after the lock is released.
CancelFire(t) ==
    /\ t \in cancels
    /\ cancels' = cancels \ {t}
    /\ stopped' = stopped \cup StoppedBy(t)
    /\ UNCHANGED <<stored, active, pc, local, outcome, asked, overtaken, erased,
                   events, crashes>>

-----------------------------------------------------------------------------
(* The inbound loop and handleInbound                                      *)

\* runInboundLoop takes the next message only when handleInbound returned.
LoopIsFree == \A u \in ChannelTurns : ~InProgress(u)

\* Take a message and read the session file; an unreadable file drops it.
ChannelTake(t) ==
    /\ pc[t] = "unsent"
    /\ LoopIsFree
    /\ \/ /\ Goto(t, "loaded")
          /\ local' = [local EXCEPT ![t] = stored[ChatOf[t]]]
          /\ UNCHANGED outcome
       \/ /\ Goto(t, "ended")
          /\ Becomes(t, "invalid")
          /\ UNCHANGED local
    /\ UNCHANGED <<stored, active, stopped, cancels, asked, overtaken, erased,
                   events, crashes>>

\* Execute returns. A failed turn is dropped: nothing is saved or sent.
ChannelExecute(t) ==
    /\ pc[t] = "loaded"
    /\ \/ /\ Becomes(t, "answered")
          /\ Goto(t, "executed")
          /\ UNCHANGED overtaken
          /\ \E h \in HistoriesAfter(local[t], t) :
                local' = [local EXCEPT ![t] = WithAnswer(@, t, h)]
       \/ /\ Becomes(t, "failed")
          /\ Goto(t, "ended")
          /\ local' = [local EXCEPT ![t] = NewChat]
          /\ overtaken' = [overtaken EXCEPT ![t] = {}]
    /\ UNCHANGED <<stored, active, stopped, cancels, asked, erased,
                   events, crashes>>

\* A save error is logged and otherwise ignored.
ChannelSave(t) ==
    /\ pc[t] = "executed"
    /\ Save(t)
    /\ Goto(t, "saved")
    /\ local' = [local EXCEPT ![t] = NewChat]
    /\ UNCHANGED <<active, stopped, cancels, asked, events, crashes>>

\* PublishOutbound, saved or not.
ChannelReply(t) ==
    /\ pc[t] = "saved"
    /\ Goto(t, "ended")
    /\ UNCHANGED <<stored, active, local, outcome, stopped, cancels, asked,
                   overtaken, erased, events, crashes>>

-----------------------------------------------------------------------------
(* The process                                                             *)

\* The process dies and a new one starts: the session files survive, the
\* handlers, the slots and the broadcasters do not.
Crash ==
    /\ crashes < MaxCrashes
    /\ crashes' = crashes + 1
    /\ pc' = [t \in Turns |-> IF InProgress(t) THEN "ended" ELSE pc[t]]
    /\ outcome' = [t \in Turns |->
                     IF InProgress(t) /\ pc[t] # "replied"
                       THEN "lost" ELSE outcome[t]]
    /\ active' = [c \in Chats |-> None]
    /\ local' = [t \in Turns |-> NewChat]
    /\ overtaken' = [t \in Turns |-> {}]
    /\ cancels' = {}
    /\ events' = [c \in Chats |-> <<>>]
    /\ UNCHANGED <<stored, stopped, asked, erased>>

\* Every turn has been handled: the process idles.
Idle ==
    /\ \A t \in Turns : pc[t] = "ended"
    /\ cancels = {}
    /\ UNCHANGED vars

HttpNext(t) ==
    \/ HttpLoad(t)     \/ HttpBegin(t) \/ HttpRefuse(t) \/ HttpAnnounce(t)
    \/ HttpEmit(t)     \/ HttpExecute(t)
    \/ HttpSave(t)     \/ HttpReply(t) \/ HttpRelease(t)
    \/ Disconnect(t)   \/ CancelFire(t)

ChannelNext(t) ==
    \/ ChannelTake(t) \/ ChannelExecute(t) \/ ChannelSave(t) \/ ChannelReply(t)

Next ==
    \/ \E t \in HttpTurns : HttpNext(t)
    \/ \E t \in ChannelTurns : ChannelNext(t)
    \/ \E c \in Chats : CancelLookup(c)
    \/ Crash
    \/ Idle

Spec == Init /\ [][Next]_vars

\* The scheduler runs every goroutine that can run. Nothing makes an agent run
\* end: the provider clients have no timeout, and a cancelled context does not
\* wake a call that waits for the token mutex (codex.go:51) or that writes to
\* an MCP subprocess (stdio.go:88).
HandlerFairness ==
    /\ \A t \in HttpTurns :
         /\ WF_vars(HttpBegin(t) \/ HttpRefuse(t) \/ HttpAnnounce(t))
         /\ WF_vars(HttpSave(t) \/ HttpReply(t) \/ HttpRelease(t))
         /\ WF_vars(CancelFire(t))
    /\ \A t \in ChannelTurns :
         WF_vars(ChannelTake(t) \/ ChannelSave(t) \/ ChannelReply(t))

FairSpec == Spec /\ HandlerFairness

-----------------------------------------------------------------------------
(* Properties                                                              *)

\* Every variable stays within its type; a turn's steps are those of its
\* own handler (handleSendMessage or handleInbound).
TypeOK ==
    /\ stored \in [Chats -> ChatState]
    /\ active \in [Chats -> HttpTurns \cup {None}]
    /\ pc \in [Turns -> Steps]
    /\ local \in [Turns -> ChatState]
    /\ outcome \in [Turns -> Outcomes]
    /\ stopped \subseteq HttpTurns
    /\ cancels \subseteq HttpTurns
    /\ asked \subseteq HttpTurns
    /\ overtaken \in [Turns -> SUBSET Turns]
    /\ erased \subseteq Turns
    /\ events \in [Chats -> Seq(Event)]
    /\ crashes \in 0..MaxCrashes
    /\ \A t \in ChannelTurns : pc[t] \notin {"begun", "running", "replied"}

\* "Each chat's turns are still serialized (see tryBeginExecution)"
\* (http.go:42-45): two HTTP turns of one chat are never past
\* tryBeginExecution at the same time, whatever clients do.
SingleFlight ==
    \A t, u \in HttpTurns :
        InFlight(t) /\ InFlight(u) /\ ChatOf[t] = ChatOf[u] => t = u

\* The table s.active and the handlers agree: the chat's entry is the cancel
\* func of exactly the turn that is in flight, so cancel-active reaches the
\* running turn, and a slot is never leaked or freed by another turn.
SlotOwnedByTurn ==
    \A t \in HttpTurns : InFlight(t) <=> active[ChatOf[t]] = t

\* A compacted history starts with the summary.
Summarized(history) == history # <<>> /\ history[1] = Summary

HistoryTurns(history) ==
    IF Summarized(history) THEN Tail(history) ELSE history

\* Messages and history are in step: the turns of the history are answered
\* turns of the messages, in the same order, and an answered turn that the
\* history leaves out precedes them and was summarized.
InStep(messages, history) ==
    LET turns == HistoryTurns(history)
    IN  \E at \in [DOMAIN turns -> DOMAIN messages] :
          /\ \A i, j \in DOMAIN turns : i < j => at[i] < at[j]
          /\ \A i \in DOMAIN turns :
               messages[at[i]] = [turn |-> turns[i], answered |-> TRUE]
          /\ \A m \in DOMAIN messages : messages[m].answered =>
               \/ \E i \in DOMAIN turns : at[i] = m
               \/ Summarized(history) /\ \A i \in DOMAIN turns : m < at[i]

\* The model is shown what the user sees: a stored history, its summary
\* aside, is the tail of the answered turns of the stored messages, and all of
\* them if nothing was summarized (cs.Messages and cs.History are appended
\* separately, http.go:315-330 and main.go:228-232).
HistoryIsAnsweredTail ==
    \A c \in Chats : InStep(stored[c].messages, stored[c].history)

\* A chat's event stream is a concatenation of turns: a turn's events are
\* contiguous, execution.started comes first and only once, and nothing
\* follows execution.finished or execution.failed (http.go:298-336).
EventsBracketed ==
    \A c \in Chats : LET ev == events[c] IN
        /\ \A i \in 1..Len(ev) :
             /\ ev[i].kind = "started" <=>
                    i = 1 \/ ev[i-1].turn # ev[i].turn
             /\ ev[i].kind \in {"finished", "failed"} =>
                    i = Len(ev) \/ ev[i+1].turn # ev[i].turn
        /\ \A i, j \in 1..Len(ev) :
             ev[i].kind = "started" /\ ev[i] = ev[j] => i = j

\* cancel-active stops the turn it found and no later one, although the
\* cancel func is called after the lock is released (http.go:376-382): a
\* turn is stopped or ends as cancelled only if someone asked for it.
StopOnlyWhenAsked ==
    \A t \in HttpTurns :
        t \in stopped \/ outcome[t] = "cancelled" => t \in asked

\* The user of t has been told that the turn completed.
Told(t) ==
    outcome[t] = "answered" /\ pc[t] \in {"replied", "ended"}

\* t's answer is in the session file of its chat.
AnswerStored(t) ==
    [turn |-> t, answered |-> TRUE] \in ToSet(stored[ChatOf[t]].messages)

\* A turn reported completed (execution.finished, 200 with both messages,
\* http.go:336-343) is in the session file and stays there (see http.go:42-45
\* and storage.go:9-10).
CompletedTurnsAreStored == \A t \in HttpTurns : Told(t) => AnswerStored(t)

\* What erases a completed turn is a handler of its chat that read the session
\* before the turn was saved and saved its own copy after it, and nothing
\* else: no failed save, cancel, refused request or crash, and no handler that
\* read the session after the save (http.go:276-335, main.go:200-235).
OnlyStaleCopiesErase ==
    \A t \in HttpTurns : Told(t) => AnswerStored(t) \/ t \in erased

\* The slot keeps the other requests of its chat out of the session file:
\* while a HTTP turn holds it, only a channel turn can overtake the copy the
\* turn works on, so what makes that copy stale among HTTP turns is the read
\* before tryBeginExecution and nothing later (http.go:276, 286).
SlotKeepsWritersOut ==
    [][\A t \in HttpTurns :
          InFlight(t) /\ InFlight(t)' =>
             overtaken'[t] \subseteq overtaken[t] \cup ChannelTurns]_vars

\* How far a turn has got in ConversationLog.
PlaceOf(t) ==
    CASE pc[t] = "unsent" -> "new"
      [] HasCopy(t) -> "reading"
      [] pc[t] = "saved" /\ outcome[t] = "answered" -> "kept"
      [] t \in HttpTurns /\ Told(t) -> "told"
      [] OTHER -> "gone"

\* The messages the handler of t read.
ReadBy(t) ==
    CASE pc[t] \in {"loaded", "begun", "running"} -> local[t].messages
      [] pc[t] = "executed" -> Front(local[t].messages)
      [] OTHER -> <<>>

\* The session files implement the logs of ConversationLog, whoever else works
\* on the same chat (http.go:262-344, main.go:187-244, storage.go:94-118).
Log == INSTANCE ConversationLog WITH
          log   <- [c \in Chats |-> stored[c].messages],
          place <- [t \in Turns |-> PlaceOf(t)],
          copy  <- [t \in Turns |-> ReadBy(t)]

LogSpec == Log!Spec

\* If cancelled agent runs end, a turn in flight that cancel-active found, or
\* whose client went away, leaves the chat's slot in the end, so that the chat
\* accepts messages again (http.go:285-292, 348-384).
CancelFreesTheChat ==
    \A t \in HttpTurns :
        WF_vars(t \in stopped /\ HttpExecute(t)) =>
           (active[ChatOf[t]] = t /\ t \in cancels \cup stopped
              ~> active[ChatOf[t]] # t)

=============================================================================
