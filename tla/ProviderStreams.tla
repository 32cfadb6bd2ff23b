-------------------------- MODULE ProviderStreams ---------------------------
(***************************************************************************)
(* The answers of the model as the providers read them: the event streams  *)
(* of anthropic.go and openai_compat.go, the item stream of the Codex      *)
(* Responses API (codex/stream.go), and the replies without streaming they *)
(* stand for. The conversation grows by what was read, tools answer, and   *)
(* the next request is built from it (ProviderRequests).                   *)
(*                                                                         *)
(* The server makes up its answer event by event; the reader handles each  *)
(* event at once. An event may arrive as JSON that does not decode: it is  *)
(* skipped. The stream may end at any point, in order (scanner.Scan is     *)
(* false) or with a read error. Texts and arguments are sequences of       *)
(* numbered pieces; the arguments <<>> stand for "{}". Arguments that are  *)
(* not all the model had to say may be JSON or not.                        *)
(***************************************************************************)
EXTENDS ProviderRequests

CONSTANTS
    Providers,      \* of "anthropic", "compat", "codex"
    MaxTexts,       \* bound: pieces of a text
    MaxPieces,      \* bound: pieces of one call's arguments
    MaxToolCalls,   \* bound: tool calls of one answer
    MaxRounds,      \* bound: requests
    NoName          \* the id and name of a call that never got them

ASSUME StreamsAssumption ==
    /\ Providers \subseteq {"anthropic", "compat", "codex"}
    /\ {MaxTexts, MaxPieces, MaxToolCalls, MaxRounds} \subseteq Nat
    /\ NoName \notin Nat /\ NoCall \notin Nat \X Nat

VARIABLES
    provider,      \* the configured provider
    conversation,  \* what the next request sends
    rounds,        \* requests so far
    phase,         \* "idle", "streaming", "ended" or "broken"
    sent,          \* the answer as far as the server has sent it
    reader,        \* what readStream has accumulated
    lost,          \* an event did not decode
    \* history
    damaged        \* an answer that was taken may not be what was meant

streamsVars == <<provider, conversation, rounds, phase, sent, reader, lost,
                 damaged>>

Pieces(n) == [i \in 1..n |-> i]

NothingSent == [text |-> 0, calls |-> <<>>, stop |-> "none", failed |-> FALSE]

NewReader ==
    [text |-> <<>>, open |-> <<>>, order |-> <<>>, calls |-> <<>>,
     other |-> FALSE, finish |-> "stop", failed |-> FALSE]

StreamsInit ==
    /\ provider \in Providers
    /\ conversation = <<ChatMessage("user", TRUE, <<>>, TRUE, NoCall)>>
    /\ rounds = 0
    /\ phase = "idle"
    /\ sent = NothingSent
    /\ reader = NewReader
    /\ lost = FALSE /\ damaged = FALSE

-----------------------------------------------------------------------------
(* The readers, one operator per event.                                    *)

\* The accumulator of index i is made or replaced.
Put(accs, i, acc) ==
    [j \in DOMAIN accs \cup {i} |-> IF j = i THEN acc ELSE accs[j]]

OnText(r, piece) == [r EXCEPT !.text = Append(@, piece)]

\* Anthropic: a tool_use block is open from its start to its stop; deltas
\* and stops of blocks that are not open are ignored.
OnBlockStart(r, i) ==
    [r EXCEPT !.open = Put(@, i, [id |-> i, args |-> <<>>])]

\* A delta of a block that is not open opens one.
MutOnInputDelta(r, i, piece) ==
    LET acc == IF i \in DOMAIN r.open THEN r.open[i]
               ELSE [id |-> NoName, args |-> <<>>]
    IN  [r EXCEPT !.open = Put(@, i, [acc EXCEPT !.args = Append(@, piece)])]

OnInputDelta(r, i, piece) ==
    IF i \in DOMAIN r.open
    THEN [r EXCEPT !.open[i].args = Append(@, piece)]
    ELSE r

OnBlockStop(r, i) ==
    IF i \in DOMAIN r.open
    THEN [r EXCEPT !.calls = Append(@, r.open[i]),
                   !.open = [j \in DOMAIN r.open \ {i} |-> r.open[j]]]
    ELSE r

\* Every delta is a call of its own.
MutOnToolDelta(r, i, named, pieces) ==
    LET n == Len(r.order) + 1
    IN  [r EXCEPT
           !.open = Put(@, n, [id |-> IF named THEN i ELSE NoName,
                               args |-> pieces]),
           !.order = Append(@, n)]

\* Compatible APIs: the first delta of an index makes its accumulator; the
\* id and the name come with one of the deltas.
OnToolDelta(r, i, named, pieces) ==
    LET known == i \in DOMAIN r.open
        acc == IF known THEN r.open[i] ELSE [id |-> NoName, args |-> <<>>]
    IN  [r EXCEPT
           !.open = Put(@, i, [id |-> IF named THEN i ELSE acc.id,
                               args |-> acc.args \o pieces]),
           !.order = IF known THEN @ ELSE Append(@, i)]

\* Codex: whole items. One that is neither text nor call, or that does not
\* decode, counts as output.
OnOtherItem(r) == [r EXCEPT !.other = TRUE]

OnCallItem(r, i, args) ==
    [r EXCEPT !.calls = Append(@, [id |-> i, args |-> args])]

OnFailed(r) == [r EXCEPT !.failed = TRUE]

ToFinishReason(stop) == IF stop \in {"tool", "length"} THEN stop ELSE "stop"

OnStop(r, stop) == [r EXCEPT !.finish = ToFinishReason(stop)]

\* What ChatStream returns when the stream has ended in order.
Error == [content |-> <<>>, calls |-> <<>>, finish |-> "error"]

\* What is open when the body ends is handed over too.
MutAnthropicResult(r) ==
    [content |-> r.text,
     calls |-> r.calls \o SetToSeq({r.open[i] : i \in DOMAIN r.open}),
     finish |-> IF r.calls # <<>> THEN "tool" ELSE r.finish]

AnthropicResult(r) ==
    [content |-> r.text, calls |-> r.calls,
     finish |-> IF r.calls # <<>> THEN "tool" ELSE r.finish]

CompatResult(r) ==
    [content |-> r.text,
     calls |-> [k \in DOMAIN r.order |-> r.open[r.order[k]]],
     finish |-> r.finish]

CodexResult(r) ==
    IF r.failed \/ (r.text = <<>> /\ r.calls = <<>> /\ ~r.other) THEN Error
    ELSE [content |-> r.text, calls |-> r.calls,
          finish |-> IF r.calls # <<>> THEN "tool" ELSE "stop"]

Result ==
    IF phase = "broken" THEN Error
    ELSE CASE provider = "anthropic" -> AnthropicResult(reader)
           [] provider = "compat"    -> CompatResult(reader)
           [] provider = "codex"     -> CodexResult(reader)

\* The same answer without streaming: toChatResponse.
ReplyCalls(s) ==
    [i \in DOMAIN s.calls |-> [id |-> i, args |-> Pieces(s.calls[i].args)]]

ToChatResponse(s) ==
    [content |-> Pieces(s.text), calls |-> ReplyCalls(s),
     finish |-> ToFinishReason(s.stop)]

-----------------------------------------------------------------------------
(* The server.                                                             *)

\* An event decodes and is handled, or it does not and is skipped.
Deliver(r) ==
    \/ reader' = r /\ lost' = lost
    \/ reader' = reader /\ lost' = TRUE

\* The event of a Codex item may decode, and the item in it not.
DeliverItem(r) ==
    \/ Deliver(r)
    \/ /\ provider = "codex"
       /\ reader' = OnOtherItem(reader) /\ lost' = TRUE

Sending ==
    /\ phase = "streaming"
    /\ sent.stop = "none" /\ ~sent.failed
    /\ UNCHANGED <<provider, conversation, rounds, phase, damaged>>

\* Anthropic sends one block after the other.
OpenCalls == {i \in DOMAIN sent.calls : ~sent.calls[i].closed}

SendText ==
    /\ Sending
    /\ provider = "anthropic" => OpenCalls = {}
    /\ sent.text < MaxTexts
    /\ sent' = [sent EXCEPT !.text = @ + 1]
    /\ DeliverItem(OnText(reader, sent.text + 1))

NewCall(args, closed) == [args |-> args, closed |-> closed]
NextCall == Len(sent.calls) + 1

SendBlockStart ==
    /\ Sending
    /\ provider = "anthropic"
    /\ OpenCalls = {}
    /\ NextCall <= MaxToolCalls
    /\ sent' = [sent EXCEPT !.calls = Append(@, NewCall(0, FALSE))]
    /\ Deliver(OnBlockStart(reader, NextCall))

SendInputDelta(i) ==
    /\ Sending
    /\ provider = "anthropic"
    /\ i \in OpenCalls
    /\ sent.calls[i].args < MaxPieces
    /\ sent' = [sent EXCEPT !.calls[i].args = @ + 1]
    /\ Deliver(OnInputDelta(reader, i, sent.calls[i].args + 1))

SendBlockStop(i) ==
    /\ Sending
    /\ provider = "anthropic"
    /\ i \in OpenCalls
    /\ sent' = [sent EXCEPT !.calls[i].closed = TRUE]
    /\ Deliver(OnBlockStop(reader, i))

\* The first delta of a call names it, with or without arguments; the
\* deltas of several calls may alternate.
SendFirstToolDelta ==
    /\ Sending
    /\ provider = "compat"
    /\ NextCall <= MaxToolCalls
    /\ \E n \in 0..1 :
         /\ sent' = [sent EXCEPT !.calls = Append(@, NewCall(n, FALSE))]
         /\ Deliver(OnToolDelta(reader, NextCall, TRUE, Pieces(n)))

SendToolDelta(i) ==
    /\ Sending
    /\ provider = "compat"
    /\ i \in DOMAIN sent.calls
    /\ sent.calls[i].args < MaxPieces
    /\ sent' = [sent EXCEPT !.calls[i].args = @ + 1]
    /\ Deliver(OnToolDelta(reader, i, FALSE, <<sent.calls[i].args + 1>>))

SendCallItem ==
    /\ Sending
    /\ provider = "codex"
    /\ NextCall <= MaxToolCalls
    /\ \E n \in 0..MaxPieces :
         /\ sent' = [sent EXCEPT !.calls = Append(@, NewCall(n, TRUE))]
         /\ DeliverItem(OnCallItem(reader, NextCall, Pieces(n)))

\* An item of another type, or a message without text.
SendOtherItem ==
    /\ Sending
    /\ provider = "codex"
    /\ Deliver(OnOtherItem(reader))
    /\ UNCHANGED sent

\* The stop reason; response.completed of Codex has none and changes nothing.
SendStop ==
    /\ Sending
    /\ provider = "anthropic" => OpenCalls = {}
    /\ \E stop \in IF provider = "codex" THEN {"end"}
                  ELSE {"end", "tool", "length"} :
         /\ sent' = [sent EXCEPT !.stop = stop]
         /\ Deliver(IF provider = "codex" THEN reader ELSE OnStop(reader, stop))

\* response.failed or response.incomplete.
SendFailed ==
    /\ Sending
    /\ provider = "codex"
    /\ sent' = [sent EXCEPT !.failed = TRUE]
    /\ Deliver(OnFailed(reader))

-----------------------------------------------------------------------------
(* The agent.                                                              *)

\* ChatStream: the request was built and accepted. One that does not encode
\* is an error and changes nothing.
BeginStream ==
    /\ phase = "idle"
    /\ rounds < MaxRounds
    /\ Encodes(provider, conversation)
    /\ rounds' = rounds + 1
    /\ phase' = "streaming"
    /\ UNCHANGED <<provider, conversation, sent, reader, lost, damaged>>

\* The body ends, or reading it fails.
EndStream ==
    /\ phase = "streaming"
    /\ phase' \in {"ended", "broken"}
    /\ UNCHANGED <<provider, conversation, rounds, sent, reader, lost,
                   damaged>>

\* The arguments are all the model had to say: a reply at its token limit may
\* end within those of a call.
WholeArgs(c) ==
    /\ c.id \in DOMAIN sent.calls
    /\ c.args = Pieces(sent.calls[c.id].args)
    /\ sent.calls[c.id].closed \/ sent.stop # "none"
    /\ sent.stop # "length"

\* Pieces that are missing may leave no JSON behind.
MaybeJson(calls) ==
    IF \A k \in DOMAIN calls : calls[k].args = <<>> \/ WholeArgs(calls[k])
    THEN {TRUE} ELSE BOOLEAN

IdOfCall(c) == IF c.id = NoName THEN NoCall ELSE <<rounds, c.id>>

\* Events were skipped, the reply ended at its token limit, or the stream of
\* a compatible API ended before its finish reason.
Doubtful ==
    \/ lost \/ sent.stop = "length"
    \/ provider = "compat" /\ sent.stop = "none"

\* The answer joins the conversation with an answer to each of its calls;
\* an error leaves the conversation as it was.
Take ==
    /\ phase \in {"ended", "broken"}
    /\ phase' = "idle"
    /\ LET ids == [k \in DOMAIN Result.calls |-> IdOfCall(Result.calls[k])]
           results == [k \in DOMAIN ids |->
                         ChatMessage("tool", TRUE, <<>>, TRUE, ids[k])]
       IN  \E json \in MaybeJson(Result.calls) :
             conversation' =
               IF Result = Error THEN conversation
               ELSE Append(conversation,
                           ChatMessage("assistant", Result.content # <<>>,
                                       ids, json, NoCall)) \o results
    /\ damaged' = (damaged \/ (Result # Error /\ Doubtful))
    /\ sent' = NothingSent /\ reader' = NewReader /\ lost' = FALSE
    /\ UNCHANGED <<provider, rounds>>

StreamsNext ==
    \/ BeginStream \/ EndStream \/ Take
    \/ SendText \/ SendStop
    \/ SendBlockStart
    \/ \E i \in 1..MaxToolCalls :
         SendInputDelta(i) \/ SendBlockStop(i) \/ SendToolDelta(i)
    \/ SendFirstToolDelta
    \/ SendCallItem \/ SendOtherItem \/ SendFailed

StreamsSpec == StreamsInit /\ [][StreamsNext]_streamsVars

-----------------------------------------------------------------------------
\* A stream that was read to its end without a skipped event gives what the
\* reply without streaming would have given, for any cut into pieces and any
\* alternation of calls. Only the finish reason of an answer with calls may
\* differ: Anthropic's reader and Codex's derive it (anthropic.go:389,
\* stream.go:175). A failed Codex response is an error even after items.
StreamIsTheResponse ==
    phase = "ended" /\ ~lost =>
        /\ sent.stop # "none" /\ Result # Error =>
             LET whole == ToChatResponse(sent) IN
             /\ Result.content = whole.content
             /\ Result.calls = whole.calls
             /\ \/ Result.finish = whole.finish
                \/ provider = "anthropic" /\ whole.calls # <<>>
                \/ provider = "codex"
        /\ provider # "codex" => Result # Error
        /\ sent.failed => Result = Error

\* A stream that ends early in good order counts as an answer. Its text is
\* what had been sent. Anthropic's and Codex's readers leave out a call that
\* was not complete; the compatible one hands over the arguments as far as
\* they got (openai_compat.go:380).
CutStreamIsPrefix ==
    phase = "ended" /\ ~lost /\ Result # Error =>
        LET whole == ToChatResponse(sent) IN
        /\ Result.content = whole.content
        /\ IF provider = "compat" THEN Result.calls = whole.calls
           ELSE Result.calls = IF OpenCalls = {} THEN whole.calls
                               ELSE Front(whole.calls)

\* Whatever is skipped, a reader reports no call twice and no call the model
\* did not make, and the pieces it reports are in order. The compatible one
\* may report a call without id and name.
CallsAreReal ==
    phase = "ended" =>
        /\ \A k \in DOMAIN Result.calls :
             LET c == Result.calls[k] IN
             /\ c.id \in DOMAIN sent.calls \/ (provider = "compat" /\ c.id = NoName)
             /\ \A i \in 1..Len(c.args) - 1 : c.args[i] < c.args[i + 1]
        /\ \A j, k \in DOMAIN Result.calls :
             Result.calls[j].id = Result.calls[k].id =>
                j = k \/ Result.calls[j].id = NoName

\* What blocks say of calls and answers.
Links(blocks) ==
    FlattenSeq([i \in DOMAIN blocks |->
        IF blocks[i].type = "text" THEN <<>> ELSE <<blocks[i]>>])

\* Unless an answer may not be what was meant, the request of every provider
\* can be built and no call in it is without its id. Whatever was skipped or
\* cut, a request that can be built has every call and every answer of the
\* conversation, in their order, each answer after its call, and no message
\* of Anthropic's is without a block (anthropic.go:48-51, 198, 200).
RequestsAreWhole ==
    \A p \in Providers :
        LET request == BuildRequest(p, conversation)
            blocks == FlattenSeq([i \in DOMAIN request |-> request[i].blocks])
            ids == FlattenSeq([i \in DOMAIN conversation |->
                       conversation[i].calls \o
                       IF conversation[i].role = "tool"
                       THEN <<conversation[i].answers>> ELSE <<>>])
            kept == Links(blocks)
        IN  /\ ~damaged => /\ Encodes(p, conversation)
                           /\ \A i \in DOMAIN ids : ids[i] # NoCall
            /\ Encodes(p, conversation) =>
                 /\ [i \in DOMAIN kept |-> kept[i].id] = ids
                 /\ \A i \in DOMAIN kept : kept[i].type = "result" =>
                      \E j \in 1..i - 1 : kept[j] = Block("call", kept[i].id)
                 /\ p = "anthropic" =>
                      \A i \in DOMAIN request : request[i].blocks # <<>>

=============================================================================
