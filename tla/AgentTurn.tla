----------------------------- MODULE AgentTurn -----------------------------
(***************************************************************************)
(* The agent run behind one user turn: Executor.Execute, the graph runner  *)
(* (pkg/graph) with its work queue, step limit, retries and cancellation   *)
(* checks, and the graph the nodes package builds:                         *)
(*                                                                         *)
(*   classify -> mcp -> skills -> enrich -> llm -> [toolloop -> llm]*      *)
(*            -> summarize                                                 *)
(*                                                                         *)
(* The turns of one chat follow each other; each starts from the History   *)
(* the last answered one left. Of the AgentContext that travels through    *)
(* the graph only History is kept.                                         *)
(***************************************************************************)
EXTENDS Naturals, Sequences, SequencesExt

CONSTANTS
    MaxTurns,       \* bound: turns of the chat
    StepLimit,      \* nodes run per turn (64 in main.go)
    MaxAttempts,    \* attempts per node (main.go's empty policy means 1)
    ContextSize,    \* Settings.ContextSize, 0 is unlimited
    MaxCalls,       \* bound: tool calls one answer may request
    ContentSizes,   \* estimated tokens of a model answer, 0 is an empty one
    PromptSize      \* estimated tokens of the system prompt

ASSUME AgentAssumption ==
    /\ MaxTurns \in Nat /\ StepLimit \in Nat \ {0} /\ MaxAttempts \in Nat \ {0}
    /\ ContextSize \in Nat /\ MaxCalls \in Nat /\ ContentSizes \subseteq Nat
    /\ PromptSize \in Nat

VARIABLES
    turn,       \* the current or last turn
    tagged,     \* the turns whose text contains the context marker
    at,         \* where the runner is: no run, loop head, retry loop, in a node
    queue,      \* the runner's work queue: frames of a node and its input
    running,    \* the frame taken from the queue, if any
    attempt,    \* attempts begun at that frame
    results,    \* tool results collected so far by the running toolloop
    steps,      \* nodes completed in this run
    lastOut,    \* output of the last completed node
    ran,        \* tool calls executed in this turn, in order (history variable)
    stopped,    \* turns whose ctx is done
    history,    \* the chat's History, as the caller keeps it
    result      \* result[t]: how turn t ended

vars == <<turn, tagged, at, queue, running, attempt, results, steps, lastOut,
          ran, stopped, history, result>>

Turns == 1..MaxTurns

-----------------------------------------------------------------------------
(* Messages                                                                *)

Dump == 0   \* the turn of a memory dump

\* size is the estimated token count, marked whether the content contains
\* "<context>"; calls are the ids of requested tool calls, call is the id a
\* tool result answers.
Message(role, t, size, marked, calls, call) ==
    [role |-> role, turn |-> t, size |-> size, marked |-> marked,
     calls |-> calls, call |-> call]

Question(t, marked) == Message("user", t, 1, marked, <<>>, <<>>)
ContextBlock == Message("user", Dump, 1, TRUE, <<>>, <<>>)
Answer(t, size, calls) == Message("assistant", t, size, FALSE, calls, <<>>)
ToolResult(t, call) == Message("tool", t, 1, FALSE, <<>>, call)
MemoryDump == Message("assistant", Dump, 1, FALSE, <<>>, <<>>)

-----------------------------------------------------------------------------
(* What the nodes do to the history                                        *)

MutStripUser(h) ==
    FlattenSeq([i \in DOMAIN h |->
        IF h[i].role = "user" THEN <<>> ELSE <<h[i]>>])

\* stripContextMessages goes by the marker alone.
StripContext(h) ==
    FlattenSeq([i \in DOMAIN h |->
        IF h[i].role = "user" /\ h[i].marked THEN <<>> ELSE <<h[i]>>])

Enriched(h) ==
    StripContext(h) \o <<ContextBlock, Question(turn, turn \in tagged)>>

\* The messages of a request: the last ContextSize ones.
Request(h) ==
    IF ContextSize > 0 /\ Len(h) > ContextSize
      THEN SubSeq(h, Len(h) - ContextSize + 1, Len(h)) ELSE h

\* The calls of the last assistant message.
LastToolCalls(h) ==
    LET last == SelectLastInSeq(h, LAMBDA m : m.role = "assistant")
    IN  IF last = 0 THEN <<>> ELSE h[last].calls

HasPendingToolCalls(h) ==
    h # <<>> /\ Last(h).role = "assistant" /\ Last(h).calls # <<>>

\* The estimate for the system prompt and h reaches 80% of ContextSize.
HistoryIsTooBig(h) ==
    /\ ContextSize > 0
    /\ 5 * FoldSeq(LAMBDA m, sum : m.size + sum, PromptSize, h)
         >= 4 * ContextSize

MutDumpOnly(h) == <<MemoryDump>>

Compacted(h) == <<MemoryDump, Last(h)>>

-----------------------------------------------------------------------------
(* The graph                                                               *)

Edges == << <<"classify", "mcp">>, <<"mcp", "skills">>, <<"skills", "enrich">>,
            <<"enrich", "llm">>, <<"llm", "toolloop">>, <<"llm", "summarize">>,
            <<"toolloop", "llm">> >>

\* The conditions of the two edges out of llm; other edges have none.
Follows(edge, h) ==
    /\ edge = <<"llm", "toolloop">> => HasPendingToolCalls(h)
    /\ edge = <<"llm", "summarize">> => ~HasPendingToolCalls(h)

\* The frames queued after node produced h: one for each edge to follow.
NextFrames(node, h) ==
    FlattenSeq([i \in DOMAIN Edges |->
        IF Edges[i][1] = node /\ Follows(Edges[i], h)
        THEN <<[node |-> Edges[i][2], history |-> h]>> ELSE <<>>])

NoFrame == [node |-> "none", history |-> <<>>]

Init ==
    /\ turn = 0
    /\ tagged = {}
    /\ at = "idle"
    /\ queue = <<>>
    /\ running = NoFrame
    /\ attempt = 0
    /\ results = <<>>
    /\ steps = 0
    /\ lastOut = <<>>
    /\ ran = <<>>
    /\ stopped = {}
    /\ history = <<>>
    /\ result = [t \in Turns |-> "none"]

\* Execute is called with the next message of the chat, never a blank one.
StartTurn(marked) ==
    /\ at = "idle"
    /\ turn < MaxTurns
    /\ turn' = turn + 1
    /\ tagged' = IF marked THEN tagged \cup {turn + 1} ELSE tagged
    /\ at' = "loop"
    /\ queue' = <<[node |-> "classify", history |-> history]>>
    /\ ran' = <<>>
    /\ UNCHANGED <<running, attempt, results, steps, lastOut, stopped, history,
                   result>>

Cancelled == turn \in stopped

\* The run is over; everything it held is garbage.
End(r) ==
    /\ at' = "idle"
    /\ result' = [result EXCEPT ![turn] = r]
    /\ queue' = <<>> /\ running' = NoFrame /\ attempt' = 0
    /\ results' = <<>> /\ steps' = 0 /\ lastOut' = <<>>
    /\ UNCHANGED <<turn, tagged, ran, stopped>>

-----------------------------------------------------------------------------
(* Runner.Run                                                              *)

WithinLimit == steps < StepLimit

\* The loop head finds ctx done or the limit reached.
Abort ==
    /\ at = "loop"
    /\ queue # <<>>
    /\ \/ Cancelled /\ End("cancelled")
       \/ ~Cancelled /\ ~WithinLimit /\ End("failed")
    /\ UNCHANGED history

Dequeue ==
    /\ at = "loop"
    /\ queue # <<>>
    /\ ~Cancelled
    /\ WithinLimit
    /\ running' = Head(queue)
    /\ queue' = Tail(queue)
    /\ attempt' = 0
    /\ at' = "try"
    /\ UNCHANGED <<turn, tagged, results, steps, lastOut, ran, stopped,
                   history, result>>

MutNextAttempt == attempt

NextAttempt == attempt + 1

\* executeWithRetry checks ctx before every attempt.
Try ==
    /\ at = "try"
    /\ \/ Cancelled /\ End("cancelled")
       \/ /\ ~Cancelled
          /\ at' = "node"
          /\ attempt' = NextAttempt
          /\ UNCHANGED <<turn, tagged, queue, running, results, steps, lastOut,
                         ran, stopped, result>>
    /\ UNCHANGED history

\* The queue is empty: the caller keeps the History of the last output.
Finish ==
    /\ at = "loop"
    /\ queue = <<>>
    /\ history' = lastOut
    /\ End("answered")

NodeReturns(out) ==
    /\ lastOut' = out
    /\ steps' = steps + 1
    /\ queue' = queue \o NextFrames(running.node, out)
    /\ at' = "loop"
    /\ running' = NoFrame
    /\ attempt' = 0
    /\ results' = <<>>
    /\ UNCHANGED <<turn, tagged, ran, stopped, history, result>>

In(node) == at = "node" /\ running.node = node

\* The nodes that return errors; the others turn them into skipped
\* enrichments or tool results.
CanFail ==
    In("llm") \/ (In("summarize") /\ HistoryIsTooBig(running.history))

\* The policy may ask for another attempt. Otherwise the error ends the run;
\* it wraps ctx's error only if ctx is done.
NodeFails ==
    /\ CanFail
    /\ \/ /\ attempt < MaxAttempts
          /\ at' = "try"
          /\ results' = <<>>
          /\ UNCHANGED <<turn, tagged, queue, running, attempt, steps, lastOut,
                         ran, stopped, result>>
       \/ End("failed")
       \/ Cancelled /\ End("cancelled")
    /\ UNCHANGED history

-----------------------------------------------------------------------------
(* The nodes                                                               *)

\* classify, mcp and skills set tools, system prompt and skill ids only.
Prepare ==
    /\ In("classify") \/ In("mcp") \/ In("skills")
    /\ NodeReturns(running.history)

Enrich == In("enrich") /\ NodeReturns(Enriched(running.history))

\* The provider answers with text, tool calls, both or neither.
CallLLM ==
    /\ In("llm")
    /\ \E size \in ContentSizes, n \in 0..MaxCalls :
         NodeReturns(Append(running.history,
             Answer(turn, size, [k \in 1..n |-> <<turn, steps, k>>])))

MutToolsDone(calls) == Len(results) + 1 >= Len(calls)

ToolsDone(calls) == Len(results) = Len(calls)

\* executeTool: a missing tool or a failing one yields a result like any other.
RunTool ==
    LET calls == LastToolCalls(running.history)
        call  == calls[Len(results) + 1]
    IN  /\ In("toolloop")
        /\ ~ToolsDone(calls)
        /\ results' = Append(results, ToolResult(turn, call))
        /\ ran' = Append(ran, call)
        /\ UNCHANGED <<turn, tagged, at, queue, running, attempt, steps,
                       lastOut, stopped, history, result>>

ReturnResults ==
    /\ In("toolloop")
    /\ ToolsDone(LastToolCalls(running.history))
    /\ NodeReturns(running.history \o results)

Summarize ==
    /\ In("summarize")
    /\ NodeReturns(IF HistoryIsTooBig(running.history)
                     THEN Compacted(running.history) ELSE running.history)

-----------------------------------------------------------------------------
\* The user cancels the turn or disconnects, at any time.
Cancel ==
    /\ at # "idle"
    /\ ~Cancelled
    /\ stopped' = stopped \cup {turn}
    /\ UNCHANGED <<turn, tagged, at, queue, running, attempt, results, steps,
                   lastOut, ran, history, result>>

RunnerStep == Abort \/ Dequeue \/ Try \/ Finish

NodeStep ==
    \/ Prepare \/ Enrich \/ CallLLM \/ RunTool \/ ReturnResults \/ Summarize
    \/ NodeFails

\* No more turns.
Quiet == at = "idle" /\ turn = MaxTurns /\ UNCHANGED vars

Next ==
    \/ \E marked \in BOOLEAN : StartTurn(marked)
    \/ RunnerStep \/ NodeStep \/ Cancel \/ Quiet

\* The runner's own goroutine runs.
Spec == Init /\ [][Next]_vars /\ WF_vars(RunnerStep)

-----------------------------------------------------------------------------
(* Properties                                                              *)

Histories == {history, lastOut, running.history}
                \cup {queue[i].history : i \in DOMAIN queue}

CallId == Turns \X Nat \X Nat

\* Every variable stays within its type; a run completes at most StepLimit
\* nodes and begins at most MaxAttempts attempts at each.
TypeOK ==
    /\ turn \in 0..MaxTurns
    /\ tagged \subseteq 1..turn
    /\ at \in {"idle", "loop", "try", "node"}
    /\ attempt \in 0..MaxAttempts
    /\ steps \in 0..StepLimit
    /\ stopped \subseteq Turns
    /\ result \in [Turns -> {"none", "answered", "failed", "cancelled"}]
    /\ ToSet(ran) \subseteq CallId
    /\ \A h \in Histories : \A m \in ToSet(h) :
         /\ m.role \in {"user", "assistant", "tool"}
         /\ m.turn \in 0..MaxTurns
         /\ m.size \in ContentSizes \cup {1}
         /\ ToSet(m.calls) \subseteq CallId

\* The provider can match tool results to requests (toolloop.go:16-19): in
\* every history it is sent untruncated, the results of a message's tool calls
\* follow it at once, in order and complete, and no result stands anywhere
\* else, in spite of failed turns, stripped blocks and compaction.
Paired(h) ==
    /\ \A i \in DOMAIN h : \A k \in DOMAIN h[i].calls :
         /\ i + k \in DOMAIN h
         /\ h[i+k].role = "tool"
         /\ h[i+k].call = h[i].calls[k]
    /\ \A j \in DOMAIN h : h[j].role = "tool" =>
         \E i \in 1..(j-1) : j - i \in DOMAIN h[i].calls

Asked ==
    {queue[i].history : i \in {i \in DOMAIN queue :
                                 queue[i].node \in {"llm", "summarize"}}}

ProviderSeesPairedCalls ==
    /\ Paired(history)
    /\ \A h \in Asked : Request(h) = h => Paired(h)

\* The tool calls executed in a turn are exactly those the model requested in
\* it, each once and in the requested order, in spite of retries and failing
\* tools (toolloop.go:41-48, runner.go:98-114).
CallsRunOnce ==
    \A h \in Asked :
        ran = FlattenSeq([i \in DOMAIN h |->
                  IF h[i].role = "assistant" /\ h[i].turn = turn
                  THEN h[i].calls ELSE <<>>])

\* The answers of turns in ts that were not compacted have their question
\* before them.
Questioned(h, ts) ==
    \A j \in DOMAIN h :
        LET compacted == j = 2 /\ h[1] = MemoryDump
        IN  h[j].role = "assistant" /\ h[j].turn \in ts /\ ~compacted =>
              \E i \in 1..(j-1) : h[i].role = "user" /\ h[i].turn = h[j].turn

\* enrich strips "any stale <context> block left over from a previous turn"
\* (enrich.go:16-18), so what the user wrote stays before its answer. The code
\* recognises a block by its marker alone: not so for a text that has it.
AnswersHaveQuestions == Questioned(history, Turns)

\* What the user wrote without the marker stays before its answer, in spite
\* of the texts with it, failed turns and compaction (enrich.go:40-49,
\* summarize.go:50-56).
PlainQuestionsStay == Questioned(history, Turns \ tagged)

\* The run implements TurnContract: a history is read as its final answers
\* and memory dumps.
FinalAnswers(h) ==
    FlattenSeq([i \in DOMAIN h |->
        IF h[i].role = "assistant" /\ h[i].calls = <<>>
        THEN <<h[i].turn>> ELSE <<>>])

Contract == INSTANCE TurnContract WITH
               Summary <- Dump,
               history <- FinalAnswers(history)

ContractSpec == Contract!Spec

\* A model that requests tools forever, errors and retries do not keep a turn
\* from ending, if every node returns (runner.go:68-74, 98-114).
TurnsEnd == WF_vars(NodeStep) => (at # "idle" ~> at = "idle")

=============================================================================
