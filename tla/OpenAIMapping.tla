---------------------------- MODULE OpenAIMapping ----------------------------
(***************************************************************************)
(* llm/_openai_mapping.py: the pure functions both watsonx transports use  *)
(* to turn the message history of pydantic_ai into an OpenAI-shaped        *)
(* payload, and a completion back into a response.                         *)
(*                                                                         *)
(* A text is the place of the part that said it, <<message, part>> in the  *)
(* history, so that a message of the payload tells which parts it carries. *)
(* Rendered instructions are numbered; instruction k is the text <<0, k>>. *)
(***************************************************************************)
EXTENDS Integers, Sequences, SequencesExt

CONSTANTS FunctionTools, OutputTools \* the tools the agent registers, in order

NoInstructions == 0
NoTool         == "none" \* tool_name is None
MissingId      == <<0, 0>> \* the empty string that stands for an absent id

ASSUME ToolsAssumption ==
    /\ FunctionTools \in Seq(STRING) /\ OutputTools \in Seq(STRING)
    /\ NoTool \notin Range(FunctionTools) \cup Range(OutputTools)

\* Parts of a request and of a response that no branch maps: an image in a
\* user prompt, a part only the pipeline should see, a server-side tool.
Unsupported == {"image", "speech", "delta", "builtin"}

Supported(history) ==
    \A m \in DOMAIN history :
        \A i \in DOMAIN history[m].parts :
            history[m].parts[i].kind \notin Unsupported

-----------------------------------------------------------------------------
\* Request parts.

Says(role, text)  == [role |-> role, says |-> <<text>>, calls |-> <<>>, call |-> MissingId]
ToolResult(p)     == [Says("tool", p.at) EXCEPT !.call = p.call]
MapUserPrompt(p)  == Says("user", p.at)

MapRequestPart_RetryIsTool(p) ==
    CASE p.kind = "system" -> Says("system", p.at)
      [] p.kind = "user"   -> MapUserPrompt(p)
      [] OTHER             -> ToolResult(p)

\* A retry that names no tool is feedback on the answer itself.
MapRequestPart(p) ==
    CASE p.kind = "system"                     -> Says("system", p.at)
      [] p.kind = "user"                       -> MapUserPrompt(p)
      [] p.kind = "return"                     -> ToolResult(p)
      [] p.kind = "retry" /\ p.tool # NoTool   -> ToolResult(p)
      [] p.kind = "retry" /\ p.tool = NoTool   -> Says("user", p.at)

\* Response parts: the texts are joined, the calls follow them, thinking is
\* left out on purpose.
OfKind(parts, kind) ==
    FlattenSeq([i \in DOMAIN parts |-> IF parts[i].kind = kind THEN <<parts[i]>> ELSE <<>>])

TextsOf(parts) == OfKind(parts, "text")
CallsOf(parts) == OfKind(parts, "call")
Places(parts)  == [i \in DOMAIN parts |-> parts[i].at]

Assistant(texts, calls) ==
    [role |-> "assistant", says |-> Places(texts), call |-> MissingId,
     calls |-> [i \in DOMAIN calls |-> [id |-> calls[i].call, at |-> calls[i].at]]]

MapAssistantMessage_FirstCallOnly(response) ==
    LET calls == CallsOf(response.parts)
    IN  Assistant(TextsOf(response.parts), SubSeq(calls, 1, IF calls = <<>> THEN 0 ELSE 1))

MapAssistantMessage(response) == Assistant(TextsOf(response.parts), CallsOf(response.parts))

-----------------------------------------------------------------------------
\* The history: parts in order, with the newest instructions as a system
\* message after the system prompts the history begins with.

MapMessage(m) == IF m.kind = "request"
                 THEN [i \in DOMAIN m.parts |-> MapRequestPart(m.parts[i])]
                 ELSE <<MapAssistantMessage(m)>>

Mapped(history) == FlattenSeq([i \in DOMAIN history |-> MapMessage(history[i])])

\* The requests that brought instructions; those of the last one are sent.
Instructed(history) ==
    {m \in DOMAIN history : history[m].kind = "request" /\ history[m].instructions # NoInstructions}

\* next((i for i, m in ... if role != "system"), len(...)), counted from 1.
InsertionPoint_LastSystem(messages) == Len(messages) + 1
InsertionPoint(messages) ==
    LET others == {i \in DOMAIN messages : messages[i].role # "system"}
    IN  IF others = {} THEN Len(messages) + 1 ELSE Min(others)

MapMessages(history) ==
    LET mapped == Mapped(history)
        given  == Instructed(history)
    IN  IF given = {}
        THEN mapped
        ELSE InsertAt(mapped, InsertionPoint(mapped),
                      Says("system", <<0, history[Max(given)].instructions>>))

\* Function tools and output tools are advertised alike; no tools, no argument.
MapTools == FunctionTools \o OutputTools

-----------------------------------------------------------------------------
\* build_response: the text, if there is any, then the calls as they came.
\* at is the number the new message has in the history.

BuildResponse(raw, at) ==
    LET texts == IF raw.content THEN 1 ELSE 0
    IN  [kind |-> "response",
         parts |-> [i \in 1..(texts + Len(raw.calls)) |->
            IF i <= texts
            THEN [kind |-> "text", tool |-> NoTool, call |-> MissingId, at |-> <<at, i>>]
            ELSE [kind |-> "call", tool |-> raw.calls[i - texts].tool,
                  call |-> raw.calls[i - texts].id, at |-> <<at, i>>]]]
=============================================================================
