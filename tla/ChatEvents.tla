----------------------------- MODULE ChatEvents -----------------------------
(***************************************************************************)
(* What the clients of the HTTP API see of a chat while turns run: the     *)
(* event streams (pkg/http/sse.go) and the messages of the chat            *)
(* (pkg/http/http.go).                                                     *)
(*                                                                         *)
(* A turn is reduced to what it publishes and saves, and the turns of a    *)
(* chat are sent one after the other: ChatTurns has the rest of the        *)
(* handler and the overlapping turns, SessionStore the steps of a save. An *)
(* event is its position in the log of what was published on its chat.     *)
(***************************************************************************)
EXTENDS Naturals, Sequences, FiniteSets, SequencesExt

CONSTANTS
    Chats,
    Turns,          \* messages sent over POST .../messages, numbered in order
    ChatOf,         \* the chat each turn belongs to
    Subscribers,    \* requests GET .../events
    BufferSize,     \* subscriberBufferSize (64)
    MaxDeltas,      \* bound: progress events of all turns
    None            \* no file, no chat

\* The questions of a chat, with or without an answer.
Messages == [turn : Turns, answered : BOOLEAN]

ASSUME EventsAssumption ==
    /\ Turns \subseteq Nat
    /\ ChatOf \in [Turns -> Chats]
    /\ BufferSize \in Nat \ {0}
    /\ MaxDeltas \in Nat
    /\ None \notin Chats
    /\ \A S \in SUBSET Messages : S # None

VARIABLES
    files,      \* files[c]: the session file of c
    pc,         \* pc[t]: where the turn is
    deltas,     \* progress events so far
    draft,      \* draft[t]: the state the turn saves
    log,        \* log[c]: events published on c
    watching,   \* watching[s]: the chat whose broadcaster has s's channel
    since,      \* since[s]: length of the log when s subscribed
    buffer,     \* buffer[s]: the channel
    received,   \* received[s]: how many events the client of s got
    last,       \* last[s]: the last of them
    missed,     \* missed[s]: how many events were dropped for s
    gone        \* subscribers whose client has disconnected

vars == <<files, pc, deltas, draft, log, watching, since, buffer,
          received, last, missed, gone>>
turnVars == <<pc, deltas, draft>>
subVars == <<watching, since, buffer, received, last, missed, gone>>

Init ==
    /\ files = [c \in Chats |-> None]
    /\ pc = [t \in Turns |-> "unsent"]
    /\ deltas = 0
    /\ draft = [t \in Turns |-> None]
    /\ log = [c \in Chats |-> <<>>]
    /\ watching = [s \in Subscribers |-> None]
    /\ since = [s \in Subscribers |-> 0]
    /\ buffer = [s \in Subscribers |-> <<>>]
    /\ received = [s \in Subscribers |-> 0]
    /\ last = [s \in Subscribers |-> 0]
    /\ missed = [s \in Subscribers |-> 0]
    /\ gone = {}

-----------------------------------------------------------------------------
(* The broadcaster of a chat.                                              *)

SubscribersOf(c) == {s \in Subscribers : watching[s] = c}
HasRoom(s) == Len(buffer[s]) < BufferSize

\* publish waits until every subscriber has room instead of dropping.
MutMayPublish(c) == \A s \in SubscribersOf(c) : HasRoom(s)

\* publish does not wait for room.
MayPublish(c) == TRUE

\* publish gives up at the first subscriber that is full.
MutPublish(c, kind, t) ==
    LET i == Len(log[c]) + 1
        ready == {s \in SubscribersOf(c) : HasRoom(s)}
        full == SubscribersOf(c) \ ready
    IN  /\ MayPublish(c)
        /\ log' = [log EXCEPT ![c] = Append(@, [kind |-> kind, turn |-> t])]
        /\ buffer' = [s \in Subscribers |->
                        IF s \in ready /\ full = {} THEN Append(buffer[s], i)
                        ELSE buffer[s]]
        /\ missed' = [s \in Subscribers |->
                        IF s \in full THEN missed[s] + 1 ELSE missed[s]]
    /\ UNCHANGED <<watching, since, received, last, gone>>

\* Every subscriber with room gets the event, the others lose it.
Publish(c, kind, t) ==
    LET i == Len(log[c]) + 1
        ready == {s \in SubscribersOf(c) : HasRoom(s)}
        full == SubscribersOf(c) \ ready
    IN  /\ MayPublish(c)
        /\ log' = [log EXCEPT ![c] = Append(@, [kind |-> kind, turn |-> t])]
        /\ buffer' = [s \in Subscribers |->
                        IF s \in ready THEN Append(buffer[s], i)
                        ELSE buffer[s]]
        /\ missed' = [s \in Subscribers |->
                        IF s \in full THEN missed[s] + 1 ELSE missed[s]]
    /\ UNCHANGED <<watching, since, received, last, gone>>

\* handleEvents on a chat that has a file: subscribe.
Subscribe(s, c) ==
    /\ watching[s] = None
    /\ files[c] # None
    /\ watching' = [watching EXCEPT ![s] = c]
    /\ since' = [since EXCEPT ![s] = Len(log[c])]
    /\ UNCHANGED <<files, turnVars, log, buffer, received, last, missed, gone>>

\* The handler writes one event to the client.
Deliver(s) ==
    /\ watching[s] # None
    /\ buffer[s] # <<>>
    /\ received' = [received EXCEPT ![s] = @ + 1]
    /\ last' = [last EXCEPT ![s] = Head(buffer[s])]
    /\ buffer' = [buffer EXCEPT ![s] = Tail(@)]
    /\ UNCHANGED <<files, turnVars, log, watching, since, missed, gone>>

\* The client goes away.
Disconnect(s) ==
    /\ watching[s] # None
    /\ gone' = gone \cup {s}
    /\ UNCHANGED <<files, turnVars, log, watching, since, buffer, received,
                   last, missed>>

\* The streams of S end.
Cut(S) ==
    /\ watching' = [s \in Subscribers |-> IF s \in S THEN None ELSE watching[s]]
    /\ buffer' = [s \in Subscribers |-> IF s \in S THEN <<>> ELSE buffer[s]]
    /\ since' = [s \in Subscribers |-> IF s \in S THEN 0 ELSE since[s]]
    /\ received' = [s \in Subscribers |-> IF s \in S THEN 0 ELSE received[s]]
    /\ last' = [s \in Subscribers |-> IF s \in S THEN 0 ELSE last[s]]
    /\ missed' = [s \in Subscribers |-> IF s \in S THEN 0 ELSE missed[s]]
    /\ gone' = gone \ S

\* The handler sees it - it may deliver before, since its select is not
\* ordered - and unsubscribes: the channel leaves the table and is closed.
\* The client may come back with another request.
Unsubscribe(s) ==
    /\ s \in gone
    /\ Cut({s})
    /\ UNCHANGED <<files, turnVars, log>>

-----------------------------------------------------------------------------
(* Chats and turns: handleCreateChat, handleSendMessage.                   *)

CreateChat(c) ==
    /\ files[c] = None
    /\ \A t \in Turns : ChatOf[t] = c => pc[t] = "unsent"
    /\ files' = [files EXCEPT ![c] = {}]
    /\ UNCHANGED <<turnVars, log, subVars>>

\* A chat without a file is a new one.
Loaded(c) == IF files[c] = None THEN {} ELSE files[c]

Start(t) ==
    /\ pc[t] = "unsent"
    /\ \A u \in Turns : ChatOf[u] = ChatOf[t] /\ u < t => pc[u] = "ended"
    /\ draft' = [draft EXCEPT ![t] = Loaded(ChatOf[t])]
    /\ pc' = [pc EXCEPT ![t] = "running"]
    /\ Publish(ChatOf[t], "started", t)
    /\ UNCHANGED <<files, deltas>>

\* EmitDelta, EmitToolCall, EmitToolResult.
Emit(t) ==
    /\ pc[t] = "running"
    /\ deltas < MaxDeltas
    /\ deltas' = deltas + 1
    /\ Publish(ChatOf[t], "delta", t)
    /\ UNCHANGED <<files, pc, draft>>

\* The agent answers, fails or is cancelled; the question is kept, with the
\* answer if there is one.
Execute(t) ==
    /\ pc[t] = "running"
    /\ \E ok \in BOOLEAN :
         draft' = [draft EXCEPT ![t] = @ \cup {[turn |-> t, answered |-> ok]}]
    /\ pc' = [pc EXCEPT ![t] = "executed"]
    /\ UNCHANGED <<files, deltas, log, subVars>>

Answered(t) == [turn |-> t, answered |-> TRUE] \in draft[t]

Save(t) ==
    /\ pc[t] = "executed"
    /\ files' = [files EXCEPT ![ChatOf[t]] = draft[t]]
    /\ pc' = [pc EXCEPT ![t] = "saved"]
    /\ UNCHANGED <<deltas, draft, log, subVars>>

\* The error of a save is ignored after an answer too.
MutSaveFails(t) ==
    /\ pc[t] = "executed"
    /\ pc' = [pc EXCEPT ![t] = "saved"]
    /\ UNCHANGED <<files, deltas, draft, log, subVars>>

\* A turn that failed ignores the error of the save; one that was answered
\* replies 500 and tells the subscribers nothing.
SaveFails(t) ==
    /\ pc[t] = "executed"
    /\ \/ /\ Answered(t)
          /\ pc' = [pc EXCEPT ![t] = "ended"]
          /\ draft' = [draft EXCEPT ![t] = None]
       \/ /\ ~Answered(t)
          /\ pc' = [pc EXCEPT ![t] = "saved"]
          /\ draft' = draft
    /\ UNCHANGED <<files, deltas, log, subVars>>

\* Done or EmitError.
Finish(t) ==
    /\ pc[t] = "saved"
    /\ pc' = [pc EXCEPT ![t] = "ended"]
    /\ Publish(ChatOf[t], IF Answered(t) THEN "finished" ELSE "failed", t)
    /\ draft' = [draft EXCEPT ![t] = None]
    /\ UNCHANGED <<files, deltas>>

Turn(t) ==
    \/ Start(t) \/ Emit(t) \/ Execute(t)
    \/ Save(t) \/ SaveFails(t) \/ Finish(t)

-----------------------------------------------------------------------------
(* Readers.                                                                *)

\* handleListMessages answers 404 or with the messages of the file.
ListMessages(c) == IF files[c] = None THEN {} ELSE files[c]

-----------------------------------------------------------------------------
\* The process dies and starts again: streams and turns are cut.
Crash ==
    /\ pc' = [t \in Turns |-> IF pc[t] = "unsent" THEN "unsent" ELSE "ended"]
    /\ draft' = [t \in Turns |-> None]
    /\ Cut(Subscribers)
    /\ UNCHANGED <<files, deltas, log>>

Next ==
    \/ \E t \in Turns : Turn(t)
    \/ \E c \in Chats : CreateChat(c)
    \/ \E s \in Subscribers :
         \/ \E c \in Chats : Subscribe(s, c)
         \/ Deliver(s) \/ Disconnect(s) \/ Unsubscribe(s)
    \/ Crash

Spec == Init /\ [][Next]_vars

\* A turn goes on once it is sent, and a stream ends once its client is
\* gone. Nothing makes a client read.
Fairness ==
    /\ \A t \in Turns : WF_vars(pc[t] # "unsent" /\ Turn(t))
    /\ \A s \in Subscribers : WF_vars(Unsubscribe(s))

FairSpec == Spec /\ Fairness

-----------------------------------------------------------------------------
\* A subscriber gets the events published since it subscribed, each once and
\* in order, except those published while its own buffer was full: another
\* subscriber that lags costs it nothing (sse.go:49).
SubscribersSeeTheLog ==
    \A s \in Subscribers : watching[s] # None =>
        LET pending == <<last[s]>> \o buffer[s] IN
        /\ \A i \in 1..Len(buffer[s]) : pending[i] < pending[i + 1]
        /\ \A i \in 1..Len(buffer[s]) :
             buffer[s][i] \in since[s] + 1 .. Len(log[watching[s]])
        /\ received[s] + Len(buffer[s]) + missed[s]
             = Len(log[watching[s]]) - since[s]

\* A client that was told execution.finished finds the question and its
\* answer in the messages of the chat (http.go:332, 336).
FinishedIsReadable ==
    \A c \in Chats : \A i \in 1..Len(log[c]) :
        log[c][i].kind = "finished" =>
            [turn |-> log[c][i].turn, answered |-> TRUE] \in ListMessages(c)

\* A turn ends whatever its subscribers do, and a client that is gone leaves
\* no subscription behind (sse.go:38, 53).
NobodyIsHeldUp ==
    /\ \A t \in Turns : (pc[t] # "unsent") ~> (pc[t] = "ended")
    /\ \A s \in Subscribers : (s \in gone) ~> (watching[s] = None)

=============================================================================
