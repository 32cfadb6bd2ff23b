-------------------------- MODULE ProviderRequests --------------------------
(***************************************************************************)
(* How each provider (pkg/providers) puts a conversation into its request: *)
(* a sequence of wire messages, each with a role and its blocks. The tools *)
(* and settings of a request do not depend on the conversation and are     *)
(* left out.                                                               *)
(*                                                                         *)
(* A message of the conversation has a role, a text or none, the ids of    *)
(* the tool calls it makes, whether their arguments are JSON, and the id   *)
(* of the call it answers. The agent never sets Message.Parts. An id that  *)
(* is empty is left out of the request (omitempty) or sent as "".          *)
(***************************************************************************)
EXTENDS Naturals, Sequences, SequencesExt

CONSTANT NoCall     \* no id: of no call, or of a call that never got one

ChatMessage(role, text, calls, json, answers) ==
    [role |-> role, text |-> text, calls |-> calls, json |-> json,
     answers |-> answers]

Block(type, id) == [type |-> type, id |-> id]
TextBlock == Block("text", NoCall)
Wire(role, blocks) == [role |-> role, blocks |-> blocks]

CallBlocks(m) == [i \in DOMAIN m.calls |-> Block("call", m.calls[i])]
TextBlocks(m) == IF m.text THEN <<TextBlock>> ELSE <<>>

-----------------------------------------------------------------------------
(* anthropic.go: the system prompt travels apart, a tool's answer is a     *)
(* user message, and no message may be without a block.                    *)

\* A message with a text goes without its calls.
MutAnthropicAssistantBlocks(m) ==
    IF m.text THEN <<TextBlock>> ELSE CallBlocks(m)

AnthropicAssistantBlocks(m) ==
    LET blocks == TextBlocks(m) \o CallBlocks(m)
    IN  IF blocks = <<>> THEN <<TextBlock>> ELSE blocks

AnthropicContentBlocks(m) ==
    IF m.role = "tool" THEN <<Block("result", m.answers)>> ELSE <<TextBlock>>

AnthropicMessage(m) ==
    CASE m.role = "system"    -> <<>>
      [] m.role = "assistant" -> <<Wire("assistant", AnthropicAssistantBlocks(m))>>
      [] OTHER                -> <<Wire("user", AnthropicContentBlocks(m))>>

-----------------------------------------------------------------------------
(* openai_compat.go: message by message; the system prompt comes first.    *)

CompatMessage(m) ==
    CASE m.role = "tool"      -> <<Wire("tool", <<Block("result", m.answers)>>)>>
      [] m.role = "assistant" -> <<Wire("assistant", TextBlocks(m) \o CallBlocks(m))>>
      [] OTHER                -> <<Wire(m.role, TextBlocks(m))>>

-----------------------------------------------------------------------------
(* codex/request.go: an item for each text, call and answer.               *)

CodexItems(m) ==
    CASE m.role = "system"    -> <<>>
      [] m.role = "user"      -> <<Wire("user", <<TextBlock>>)>>
      [] m.role = "tool"      -> <<Wire("tool", <<Block("result", m.answers)>>)>>
      [] m.role = "assistant" ->
            LET blocks == TextBlocks(m) \o CallBlocks(m)
            IN  [i \in DOMAIN blocks |-> Wire("assistant", <<blocks[i]>>)]

-----------------------------------------------------------------------------
\* Anthropic's request holds the arguments as they are, so that json.Marshal
\* fails on a call whose arguments are no JSON; the others send them as a
\* string.
Encodes(provider, history) ==
    provider = "anthropic" => \A i \in DOMAIN history : history[i].json

BuildMessage(provider, m) ==
    CASE provider = "anthropic" -> AnthropicMessage(m)
      [] provider = "compat"    -> CompatMessage(m)
      [] provider = "codex"     -> CodexItems(m)

\* The system prompt: a field of its own, or the first message.
BuildRequest(provider, history) ==
    LET messages == [i \in DOMAIN history |-> BuildMessage(provider, history[i])]
    IN  IF provider = "compat"
        THEN <<Wire("system", <<TextBlock>>)>> \o FlattenSeq(messages)
        ELSE FlattenSeq(messages)

=============================================================================
