----------------------------- MODULE ModelClient -----------------------------
(***************************************************************************)
(* One agent run that talks to a watsonx model through the SDK transport   *)
(* (llm/providers/watsonx.py) or the LiteLLM transport                     *)
(* (llm/providers/litellm.py).  Every model request maps the whole history *)
(* anew; what the model answers and what the agent makes of it goes back   *)
(* into the history.  The agent loop is pydantic_ai: after a response it   *)
(* answers every tool call with a return or a retry, asks again when the   *)
(* answer itself was not good enough, and stops at its request limit.      *)
(* When a call fails so that the fallback chain goes on, the answer of     *)
(* another member enters the same history.                                 *)
(***************************************************************************)
EXTENDS OpenAIMapping, FiniteSets

CONSTANTS Instruction,  \* the rendered instructions a request may carry
          MaxCalls,     \* the most tool calls of a run: a bound of the model
          RequestLimit  \* the model requests of a run

ASSUME ClientAssumption ==
    /\ Instruction \subseteq Nat \ {0}
    /\ MaxCalls \in Nat /\ RequestLimit \in Nat \ {0}

VARIABLES transport, \* which of the two models the run uses
          history,   \* the messages of the run
          payload,   \* the last request body
          phase,     \* ask, calling, answered, failed, raised, done
          outcome,   \* what the last model request ended in
          fault      \* what befell it

vars == <<transport, history, payload, phase, outcome, fault>>

NoPayload == [messages |-> <<>>, tools |-> <<>>]

Part(kind, tool, call, at) == [kind |-> kind, tool |-> tool, call |-> call, at |-> at]

Request(parts, instructions) ==
    [kind |-> "request", instructions |-> instructions, parts |-> parts]

Instructions == Instruction \cup {NoInstructions}

\* A run begins with the prompt, perhaps after system prompts of its own.
Init ==
    /\ transport \in {"sdk", "litellm"}
    /\ \E lead \in {0, 2}, prompt \in {"user", "image"}, given \in Instructions :
          history = <<Request([i \in 1..(lead + 1) |->
                Part(IF i <= lead THEN "system" ELSE prompt, NoTool, <<1, i>>, <<1, i>>)], given)>>
    /\ payload = NoPayload
    /\ phase = "ask" /\ outcome = "none" /\ fault = "none"

-----------------------------------------------------------------------------
\* Model.request of either transport.

Raise(name) == phase' = "raised" /\ outcome' = name

\* The mapping runs before the guarded call: what it raises is nobody's fault
\* but the caller's, and reaches the caller as it is.
Map_Guarded ==
    IF Supported(history)
    THEN /\ payload' = [messages |-> MapMessages(history), tools |-> MapTools]
         /\ phase' = "calling" /\ UNCHANGED outcome
    ELSE phase' = "failed" /\ outcome' = "ModelAPIError" /\ UNCHANGED payload

Map ==
    IF Supported(history)
    THEN /\ payload' = [messages |-> MapMessages(history), tools |-> MapTools]
         /\ phase' = "calling" /\ UNCHANGED outcome
    ELSE Raise("NotImplementedError") /\ UNCHANGED payload

Ask ==
    /\ phase = "ask"
    /\ Map
    /\ UNCHANGED <<transport, history, fault>>

\* request_stream: both transports refuse before anything is sent.
Stream ==
    /\ phase = "ask"
    /\ Raise("NotImplementedError")
    /\ UNCHANGED <<transport, history, payload, fault>>

\* The SDK transport knows the exceptions it turns into a ModelAPIError: those
\* of the SDK and of httpx.  LiteLLM has no common base, so all are turned.
Recoverable(kind) == transport = "litellm" \/ kind \in {"sdk_error", "http_error"}

CallFails(kind) ==
    /\ phase = "calling"
    /\ fault' = kind
    /\ IF Recoverable(kind)
       THEN phase' = "failed" /\ outcome' = "ModelAPIError"
       ELSE Raise(kind)
    /\ UNCHANGED <<transport, history, payload>>

\* A completion without choices is malformed; it is built outside the guard.
Choiceless ==
    /\ phase = "calling"
    /\ fault' = "choiceless"
    /\ Raise("UnexpectedModelBehavior")
    /\ UNCHANGED <<transport, history, payload>>

\* How many more calls the bound leaves.
CallsLeft ==
    MaxCalls - Len(FlattenSeq([m \in DOMAIN history |-> CallsOf(history[m].parts)]))

\* The model answers with text, calls of advertised tools, both or neither.
Here == Len(history) + 1

Replies(n) ==
    {[content |-> content,
      calls |-> [i \in 1..n |-> [tool |-> tools[i], id |-> IF named THEN <<Here, i>> ELSE MissingId]]] :
        content \in BOOLEAN, tools \in [1..n -> Range(payload.tools)], named \in BOOLEAN}

Reply ==
    /\ phase = "calling"
    /\ \E n \in 0..CallsLeft : \E raw \in Replies(n) :
          history' = Append(history, BuildResponse(raw, Here))
    /\ phase' = "answered" /\ outcome' = "response" /\ fault' = "none"
    /\ UNCHANGED <<transport, payload>>

-----------------------------------------------------------------------------
\* The fallback chain around the model, and the agent around the chain.

\* Another member answers: it may think aloud, and call before it speaks.
OtherMemberAnswers ==
    /\ phase = "failed"
    /\ \E kinds \in {<<"thinking", "text">>, <<"thinking", "call">>, <<"call", "text">>} :
       \E tool \in Range(MapTools) :
          /\ CallsLeft = 0 => "call" \notin Range(kinds)
          /\ history' = Append(history,
            [kind |-> "response",
             parts |-> [i \in DOMAIN kinds |-> Part(kinds[i], tool, <<Here, i>>, <<Here, i>>)]])
    /\ phase' = "answered" /\ outcome' = "response" /\ fault' = "none"
    /\ UNCHANGED <<transport, payload>>

ChainExhausted ==
    /\ phase = "failed"
    /\ phase' = "raised"
    /\ UNCHANGED <<transport, history, payload, outcome, fault>>

LastParts == history[Len(history)].parts
Pending   == CallsOf(LastParts)

\* Every pending call gets its result, in whatever order the tools and the
\* output validation give them.
Results(order, kinds) ==
    [i \in DOMAIN order |->
        Part(kinds[i], Pending[order[i]].tool, Pending[order[i]].call, <<Here, i>>)]

AnswerCalls ==
    \E order \in {f \in [1..Len(Pending) -> 1..Len(Pending)] : IsInjective(f)} :
    \E kinds \in [1..Len(Pending) -> {"return", "retry"}] :
    \E given \in Instructions :
       history' = Append(history, Request(Results(order, kinds), given))

\* The answer is no good: the agent says so, naming no tool.
AnswerText ==
    \E given \in Instructions :
       history' = Append(history,
            Request(<<Part("retry", NoTool, <<Here, 1>>, <<Here, 1>>)>>, given))

Requests == Cardinality({m \in DOMAIN history : history[m].kind = "request"})

NextTurn ==
    /\ phase = "answered" /\ Requests < RequestLimit
    /\ IF Pending # <<>> THEN AnswerCalls ELSE AnswerText
    /\ phase' = "ask" /\ payload' = NoPayload /\ outcome' = "none"
    /\ UNCHANGED <<transport, fault>>

LimitReached ==
    /\ phase = "answered" /\ Requests = RequestLimit
    /\ Raise("UsageLimitExceeded")
    /\ UNCHANGED <<transport, history, payload, fault>>

\* A text, or a call of an output tool, ends the run.
Accept ==
    /\ phase = "answered"
    /\ \/ Pending = <<>> /\ TextsOf(LastParts) # <<>>
       \/ \E i \in DOMAIN Pending : Pending[i].tool \in Range(OutputTools)
    /\ phase' = "done"
    /\ UNCHANGED <<transport, history, payload, outcome, fault>>

Next ==
    \/ Ask \/ Stream \/ Choiceless \/ Reply
    \/ \E kind \in {"sdk_error", "http_error", "other_error"} : CallFails(kind)
    \/ OtherMemberAnswers \/ ChainExhausted
    \/ NextTurn \/ LimitReached \/ Accept

Spec == Init /\ [][Next]_vars

-----------------------------------------------------------------------------
\* Properties of every request body that is sent.

Sent     == payload.messages
IsGiven(m) == \E k \in Instruction : m.says = <<<<0, k>>>>
Givens   == {i \in DOMAIN Sent : IsGiven(Sent[i])}
Body     == IF Givens = {} THEN Sent ELSE RemoveAt(Sent, Min(Givens))
PlacesOf(m) == m.says \o [i \in DOMAIN m.calls |-> m.calls[i].at]
Heard    == FlattenSeq([i \in DOMAIN Body |-> PlacesOf(Body[i])])

SayableIn(msgs) ==
    UNION {{msgs[m].parts[i].at :
              i \in {j \in DOMAIN msgs[m].parts : msgs[m].parts[j].kind # "thinking"}} :
            m \in DOMAIN msgs}

SayablePlaces == SayableIn(history)

\* "So no part is silently dropped" (Req 2.7): the body carries every part of
\* the history but the reasoning of other members, each of them once, message
\* by message, and the parts of a request in their order, however the run got
\* there; and every tool of the agent is advertised with it.
NothingDropped ==
    phase = "calling" =>
        /\ LET heard == Heard
           IN  /\ Len(heard) = Cardinality(SayablePlaces) /\ Range(heard) = SayablePlaces
               /\ \A i \in 2..Len(heard) :
                     \/ heard[i - 1][1] < heard[i][1]
                     \/ /\ heard[i - 1][1] = heard[i][1]
                        /\ history[heard[i][1]].kind = "request" => heard[i - 1][2] < heard[i][2]
        /\ Range(payload.tools) = Range(FunctionTools) \cup Range(OutputTools)

\* Newest instructions of the history, by its requests.
Newest(k) == \E m \in DOMAIN history :
                /\ history[m].kind = "request" /\ history[m].instructions = k
                /\ \A later \in (m + 1)..Len(history) :
                      history[later].kind = "request" => history[later].instructions = NoInstructions

\* The rendered instructions lead: when a request of the run had some, the
\* newest are sent, once, after the system prompts and before anything a user,
\* a tool or the model said - also when the last request brought none.
InstructionsLead ==
    phase = "calling" =>
        /\ Cardinality(Givens) <= 1
        /\ \A k \in Instruction : Newest(k) =>
              \E i \in Givens :
                 /\ Sent[i].says = <<<<0, k>>>> /\ Sent[i].role = "system"
                 /\ \A j \in DOMAIN Sent : j < i <=> (Sent[j].role = "system" /\ j # i)

\* Occurrences of an id in a sequence of ids.
Times(id, ids) == Cardinality({i \in DOMAIN ids : ids[i] = id})

\* The contract of the chat completions endpoint: the calls of an assistant
\* message are answered by the tool messages right after it, each id as often
\* as it was called - also after retries, with ids the backend left out, and
\* with the instructions moved to the front - and no tool message stands
\* anywhere else.
ResultsFollowCalls ==
    phase = "calling" =>
        LET Block(i) == (i + 1)..(i + Len(Sent[i].calls))
            Asked(i) == [c \in DOMAIN Sent[i].calls |-> Sent[i].calls[c].id]
            Given(i) == [c \in DOMAIN Sent[i].calls |-> Sent[i + c].call]
        IN  /\ \A i \in DOMAIN Sent :
                  /\ \A j \in Block(i) : j \in DOMAIN Sent /\ Sent[j].role = "tool"
                  /\ \A id \in Range(Asked(i)) : Times(id, Asked(i)) = Times(id, Given(i))
            /\ \A j \in DOMAIN Sent : Sent[j].role = "tool" => \E i \in DOMAIN Sent : j \in Block(i)

\* A ModelAPIError, which makes the fallback chain try another member, means
\* that the transport was called and failed; a history that cannot be mapped
\* and a malformed completion are never passed on as one.
FallsBackOnFaultsOnly ==
    outcome = "ModelAPIError" =>
        /\ payload # NoPayload
        /\ fault \in {"sdk_error", "http_error", "other_error"}
        /\ Supported(history)

-----------------------------------------------------------------------------
\* The inductive invariant behind the four.  First the history: requests and
\* responses take turns, every part knows its place, system prompts lead, and
\* a call names a tool of the agent.
Place == Nat \X Nat
RequestKinds  == {"system", "user", "image", "return", "retry"}
ResponseKinds == {"text", "call", "thinking"}
NamedTool == Range(MapTools) \cup {NoTool}
PartOf(kinds) == [kind : kinds, tool : NamedTool, call : Place, at : Place]
Message == [kind : {"request"}, instructions : Instructions, parts : Seq(PartOf(RequestKinds))]
             \cup [kind : {"response"}, parts : Seq(PartOf(ResponseKinds))]

PartsInv(m, parts) ==
    \A i \in DOMAIN parts :
        /\ parts[i].at = <<m, i>>
        /\ parts[i].kind = "system" => m = 1 /\ \A j \in 1..i : parts[j].kind = "system"
        /\ parts[i].kind = "image" => m = 1
        /\ parts[i].kind = "call" => parts[i].tool \in Range(MapTools)

HistoryInv(msgs) ==
    /\ msgs \in Seq(Message) /\ msgs # <<>>
    /\ \A m \in DOMAIN msgs :
          /\ msgs[m].kind = IF m % 2 = 1 THEN "request" ELSE "response"
          /\ msgs[m].kind = "request" => msgs[m].parts # <<>>
          /\ PartsInv(m, msgs[m].parts)

\* What the body of the next request is made of, before the instructions.
Line == [role : {"system", "user", "tool", "assistant"}, says : Seq(Place),
         calls : Seq([id : Place, at : Place]), call : Place]

LineInv(lines) ==
    /\ lines \in Seq(Line) /\ lines # <<>>
    /\ \A i \in DOMAIN lines :
          /\ \A j \in DOMAIN lines[i].says : lines[i].says[j][1] # 0
          /\ lines[i].calls # <<>> => lines[i].role = "assistant"
          /\ lines[i].role = "system" => \A j \in 1..i : lines[j].role = "system"

HeardIn(lines) == FlattenSeq([i \in DOMAIN lines |-> PlacesOf(lines[i])])

HeardInv(msgs, heard) ==
    /\ heard \in Seq(Place) /\ IsInjective(heard) /\ Range(heard) = SayableIn(msgs)
    /\ \A i \in 2..Len(heard) :
          \/ heard[i - 1][1] < heard[i][1]
          \/ /\ heard[i - 1][1] = heard[i][1]
             /\ msgs[heard[i][1]].kind = "request" => heard[i - 1][2] < heard[i][2]

\* The first n lines: each call is answered right after the line that made it.
BlockOf(lines, i)  == (i + 1)..(i + Len(lines[i].calls))
AskedBy(lines, i)  == [c \in DOMAIN lines[i].calls |-> lines[i].calls[c].id]
GivenTo(lines, i)  == [c \in DOMAIN lines[i].calls |-> lines[i + c].call]

PairedUpTo(lines, n) ==
    /\ \A i \in 1..n :
          /\ \A j \in BlockOf(lines, i) : j \in 1..n /\ lines[j].role = "tool"
          /\ \A id \in Range(AskedBy(lines, i)) :
                Times(id, AskedBy(lines, i)) = Times(id, GivenTo(lines, i))
    /\ \A j \in 1..n : lines[j].role = "tool" => \E i \in 1..n : j \in BlockOf(lines, i)

\* After a response its own line is the last, and nothing answers it yet.
PairedInv(msgs, lines) ==
    IF Len(msgs) % 2 = 1 THEN PairedUpTo(lines, Len(lines))
    ELSE /\ PairedUpTo(lines, Len(lines) - 1)
         /\ lines[Len(lines)] = MapAssistantMessage(msgs[Len(msgs)])

MappedInv(msgs) ==
    Supported(msgs) =>
        /\ LineInv(Mapped(msgs)) /\ PairedInv(msgs, Mapped(msgs))
        /\ HeardInv(msgs, HeardIn(Mapped(msgs)))

PhaseInv ==
    /\ phase \in {"ask", "calling", "failed"} => Len(history) % 2 = 1
    /\ phase = "answered" => Len(history) % 2 = 0
    /\ phase = "calling" =>
          /\ Supported(history)
          /\ payload = [messages |-> MapMessages(history), tools |-> MapTools]
    /\ phase = "failed" => outcome = "ModelAPIError"
    /\ outcome = "ModelAPIError" => phase \in {"failed", "raised"}

ClientInv == HistoryInv(history) /\ MappedInv(history) /\ PhaseInv /\ FallsBackOnFaultsOnly
=============================================================================
