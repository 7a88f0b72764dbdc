# TLA+ models of pydantic-ai-sandbox

Models, model-checking runs and proofs about the parts of this repository that
keep state across an `await`, a request or a process: the human-in-the-loop
session service, the rate limiter, the SSE stream, the root application's path
from its environment to a `POST /chat` answer and to the request bodies its model
client sends, and the agent-pattern lanes that loop over tools, fan out over
branches, chain model calls, retrieve or research a question. `PROJECT.json`
lists every component, run, mutated definition, theorem and hazard, and says for
each definition which source lines it stands for.

A module `X` models a component, a module `YProofs` holds the theorems of one
or more of them, and each `.cfg` is one run; where constants need definitions, a
module `MCX` gives them. Where one module of proofs extends several components,
all but one of them qualify the names they would share (`StreamSpec`, `FlowNext`,
`ConfigInit`, `PolicyInv`). A
definition whose name ends in `_Suffix` is a deliberate fault of the definition below it; it is
used to show that a property would notice that fault, never by `Spec`.

## 1. Inventory

The repository is a monorepo of Python services and lanes around `pydantic-ai`,
BeeAI and LlamaIndex. Paths below leave out the leading
`src/patterns/<lane>/src/patterns_<lane>/` or `src/src/pydantic_ai_sandbox/`.

| component | state it keeps | operations | interacts with | what is hard | correct means |
|---|---|---|---|---|---|
| HITL store, harness, app (`store.py`, `harness.py`, `app.py`) | `SessionStore._records`: state, pending ids, usage, history per session; the suspended handlers | `POST /run`, `POST /resume`, claim / release / settle / consume | `agent.run` (library), the audit emitter | concurrent resumes, several approval rounds, retries of old decisions, failures in the middle of a run, restart | one resume at a time; each call decided once and executed only if approved; a closed session stays closed; the budget spans the rounds |
| HITL support agent (`agent.py`) | the taint flag of a run, the calls and what the human said of them | three tools, approval rule, recipient allow-list, output validator | the session, through deferral | calls of one turn run concurrently; the flag and the history outlive a stop differently; the human may change arguments | nothing risky, or chosen with customer text in view, runs without approval; unknown recipients are never acted on |
| Rate limiter (`limiter.py`, `middleware.py`) | `_degraded_until`, the fixed windows on two storages | `hit` from the middleware and from a route | Redis (shared by processes), memory | failure between two awaits, hits in flight when the primary fails, recovery | no window lets more through than its limit; the primary is left alone for the whole cooldown; every request is answered |
| SSE stream (`app.py`, `events.py`) | the suspended body generator, the producer's generator, a counter | pull, send, error marker, backstop, close | the injected `EventSource`, sse-starlette, the client | disconnect or stall at any await, a producer that raises or never stops | order kept, nothing cut off silently, producer always released |
| Settings and construction (`config.py`, `main.py`, `llm/factory.py`, `llm/fallback.py`, `llm/providers/*`) | the frozen `Settings`, the boot stage, the cached agent | load, dry run, build | environment, lifespan, first request | three readers of one string at three times | what serves can be built; no member without its credentials; the operator's order |
| POST /chat (`api/routes/chat.py`, `api/deps.py`, `agents/chat_agent.py`, `llm/providers/watsonx.py`, `litellm.py`) | the cached agent, its lazily built SDK client, one run per request | resolve, run, fall back, answer, time out | provider chain, `search_kb` | timeout at any depth, a synchronous call on the event loop, unlocked cache | cited sources were found; nothing left running; bounded cost; always an answer |
| Model client (`llm/_openai_mapping.py`, `llm/providers/watsonx.py`, `litellm.py`) | none; the history of the run is mapped anew for each request | map, call, build the response, refuse streams | the agent loop, the fallback chain | retries, absent ids, changing instructions, answers of other members in the history | the body carries the whole history in order, instructions first, results after their calls; only a failed call makes the chain fall back |
| Autonomous agent (three lanes) | messages, steps, budget total | model turn, tool, approval, stop reasons | tool registry, approval hook | several calls per turn, the order of the guards | no tool outside the registry or without approval; bounded turns |
| Parallelization, orchestrator-workers (three lanes) | index counter, result buffer | dispatch, branch, collect | worker pool or `gather` | any completion order, more branches than workers, a failing branch | every branch once, in order, deterministic vote |
| Evaluator-optimizer, prompt chaining, routing (three lanes) | candidate, feedback, iterations | generate, evaluate, gate, route | model | caps and early exits | the answer given is the one that was judged |
| Deep research | plan, collected results, findings, notes, events | brief, fan-out, reflect loop, compress, report | search provider, model | one researcher failing while others run; two rankings of the same hits | citations and notes are the best of what was retrieved; the report is their union |
| RAG | none beyond a run | chunk, index, retrieve, answer, validate | LlamaIndex index | ties and missing scores at the cut-off, chunks of several documents | a citation names one chunk, one the model was shown |
| tool design, contracts, observability, health, scripts, CI | none | data classes, tracing set-up, shell tooling | - | - | not modelled |

Components talk through calls only; there is no message bus. What they share is
in-process state touched between awaits (the session store, the limiter, the
cached agent and its client) and, for the limiter, Redis.

The hazards of the code, each at its line and with the properties that would
catch it, are in `PROJECT.json`.

## 2. Plan

Order of work, most important behaviour first. All of it is done: every
invariant and action property of a passing run, and both refinements, are
theorems; the liveness properties are checked by TLC (section 6).

1. **`HitlSession`** implements the abstract **`ApprovalGate`**: runs
   `hitl_session`, `hitl_wedged`; proofs in `HitlProofs`.
2. **`RateLimiter`**: run `rate_limiter`; `PatternProofs`.
3. **`SseStream`**: run `sse_stream`; `PatternProofs`.
4. **`ProviderConfig`**, from environment to agent: run `provider_config`;
   `ChatServiceProofs`.
5. **`ChatService`**, which takes the chain `ProviderConfig` builds as a
   constant: run `chat_service`; `ChatServiceProofs`.
6. **`AutonomousAgent`**, the guarded tool loop, with several calls per turn
   (pydantic-ai) and with one (beeai, llamaindex): run `autonomous_agent`;
   `AutonomousAgentProofs`.
7. **`FanOut`**, branches in `asyncio.gather` or on a pool smaller than their
   number, the claimed index, the barrier, failing branches: run `fan_out`;
   `FanOutProofs`.
8. **`DeepResearch`**: fan-out, reflect loops, citations with the tie-break of
   their locators, notes, the report, events after a failure: run
   `deep_research`; `DeepResearchProofs`.
9. **`HitlPolicy`**, the tools of the support agent over several stops; it
   implements `ApprovalGate` as well: run `hitl_policy`; `HitlProofs`.
10. **`ModelClient`** over the pure operators of **`OpenAIMapping`**: run
    `model_client`; `ModelClientProofs`.
11. **`Workflows`** (evaluator loop, prompt chain, routing, retrieval) over the
    pure operators of **`Retrieval`**: run `workflows`; `PatternProofs`.
12. **`SequenceLemmas`**: induction over numbers and sequences, flattening and
    ranking, for the proofs that need them.

Modules compose in three ways. `ApprovalGate` is what `HitlSession` (seen from
the service) and `HitlPolicy` (seen from the tools) both implement, so the two
halves meet in one promise. `ChatService` takes the chain that `ProviderConfig`
builds as a constant. `ModelClient` and `Workflows` extend a module of pure
operators and apply it to the data their own steps produce.

## 3. The modules and the code

### HitlSession, ApprovalGate

`records` is `SessionStore._records` (state `absent` is a missing key),
`handler` the await each client's HTTP handler is suspended in. The code of a
handler between two awaits is one action, because asyncio runs it without
interruption: `AcceptResume` is `claim`, the check against the pending set, the
audit events and the call of `agent.run`; `RejectOutsider` is claim, check,
release and 409. `issued`, `approvals`, `denials` and `executed` are history
variables: they outlive a `Restart`, which empties the store.

`agent.run` is the library and is external: with all pending calls decided it
executes the approved ones, makes model requests within the limit it was given,
and returns an answer or new calls whose ids its history does not contain, or
raises. A decision set that covers only part of the pending calls passes the
handler's check and makes `agent.run` raise. Token and tool-call limits may
strike at any point (`BudgetExceeded`). Overridden arguments count as an
approval. Emitting an audit event is modelled as an attempt, since
`emit_audit_event` swallows failures.

`ApprovalGate` states the promise without HTTP, store or agent: rounds of
asking, deciding and executing, a new round only after all calls of the last
are settled, closed is for ever. `HitlSession` implements it under the mapping
`SessionPhase`, `CallGate` (property `ImplementsGate`). The gate has no store
and no budget, so a session that is wedged `in_flight` is simply closed there.

### HitlPolicy

One conversation with the support agent. `want` is what the model, or an
override of the human, asks for; `state` is how far a call is, `decided` what
the human said. The calls of a turn run concurrently (`RunTool(c)` in any order),
so a search may set `tainted` before or after a discount of the same turn has
read it. A discount checks the recipient before the risk, an escalation is
deferred by the framework before its body runs, so the recipient is checked
only after approval: the two have their guards in different orders, as in
the code. `TurnEnds` puts the results into the history (`heard`) and stops the
run if a call is held. `Resume` decides every waiting call at once; which
partial sets raise instead is `HitlSession`'s matter. `DepsTaint` keeps the two
ways deps reach a run apart: the harness builds new ones, with an empty
directory, and a caller with a directory passes the same. `informed` marks a
call made with customer text in its context; it is a history variable of the
call. `ApprovalPolicy` is the output validator: it judges the plan and what the
answer claims about approval, not what was done. The deferral of calls and the
ends of a run that the framework decides on are external.

### RateLimiter

One client key, the global limit of the middleware and a stricter limit of a
route. A hit on the primary awaits twice (`hit`, `get_window_stats`), so
`BeginHit`, `PrimaryCounts` and `PrimaryReads` are three steps; memory storage
never suspends, so counting there is part of the step that chose it. A failure
at either await (`PrimaryFails`) sets the deadline and counts the same hit on
memory, although it may already be counted on the primary. Timers hold what is
left of them and counters stop one above their limit, so neither time nor the
number of requests is bounded. `since` and `granted` are history variables.

### SseStream

`body` is where `_event_stream` is suspended; `produced` and `wire` are what the
producer yielded and what the client was sent. The producer is the environment:
it keeps the contract's order and stops after its marker, but may raise before,
forget the marker, or never stop. The client reads, stalls for longer than the
send timeout, or leaves. `is_disconnected` is asked after an event was pulled,
so that event is dropped (`ProducerYields` with a client that has gone).

### ProviderConfig

`Settings` ranges over every provider, every chain of up to three entries, an
unset, empty or set model name and credentials (the four `WATSONX_*` values as
one), and both transports. Chain entries include a misspelt one, an upper-case
one, a stub, the name `fallback` and a blank, because each is treated
differently by one of the three readers: the validator, the lifespan dry run
and the factory at the first request.

### ChatService

Concurrent requests resolve the cached agent in worker threads (`LookUp`,
`Build`), run on the event loop under a timeout and a request budget, and try
the members of the chain in order. A lazy member first builds its client by a
synchronous call: while `loop` holds a request, no step of the event loop is
enabled; worker threads and time go on. `Dispatch` is the first call of a
member, `Retry` a further one that the member's client makes on its own, the
pause before it included. watsonx and litellm are told not to (`Pinned`); the
client `OllamaProvider` makes for itself is not, and how often it retries is the
library's choice (`SdkRetries`). Neither the chain nor the budget hears of a
retry. `calls` counts what a run costs of each member; this and the other
variables of `run` are the run's own and are reset when it ends. `left` counts the ticks until the
timeout, `-1` when overdue; a timeout that is due may lose the race against an
answer that arrives in the same instant. `found` is what `search_kb` returned
in this run, `sources` what the answer cites. Output retries are a `Continue`
without results, or end in `RunBreaks`, which also stands for every exception
that is no `ModelAPIError`. The chain comes from `ProviderConfig`; building the
agent succeeds here.

### OpenAIMapping, ModelClient

`OpenAIMapping` holds the functions of `llm/_openai_mapping.py` as operators. A
text is the place of the part that said it, `<<message, part>>`, so a message of
the payload tells which parts it carries and nothing else need be known about
texts. The four part kinds that raise are `Unsupported`. An absent call id
becomes one and the same empty id (`MissingId`), as in the code.

`ModelClient` is a run of the agent loop over either transport. `Ask` maps the
history outside the guarded call, `CallFails` is what the `try` turns into a
`ModelAPIError`: a list of types for the SDK, everything for LiteLLM. A reply
without choices raises outside the guard (`Choiceless`). When the call failed,
another member may answer (`OtherMemberAnswers`), with parts of its own that
enter the same history. The agent loop is external: it answers each pending call
by a return or a retry, in any order, retries an answer that has no call, or
accepts, and stops at its limit. Instructions may appear, change or be absent
from one request to the next.

### AutonomousAgent

One run of `run_autonomous_agent` in any of its lanes. Their guards are the same
code three times over; `map` spreads the shared definitions over the three
files. What differs is what a lane takes from an answer: all its calls
(`PydanticTurn`), the first (`BeeAITurn`), or the one call an answer can be
(`LlamaIndexTurn`). `phase` is where the loop stands, `calls` and `at` the
`for` loop of a turn. The model's answer is any sequence of names, offered or
not, at any price; the hook agrees (`Execute`) or not (`Deny`); model, tool and
hook may raise, and the steps so far are then lost with the run. `AgentStep`
keeps of an observation only whether the call ran, was refused or was denied.
Names in `allowed_tools` are distinct here; `registry` would keep the last of two.
`ran`, `approved` and `cost` are history variables. `total` does not contain the
answer that completes a run; `OverspendBounded` is therefore about `cost`.

### FanOut

One run of parallelization or of orchestrator-workers, in a lane that gathers
(pydantic-ai, beeai) or in the event-driven one (llamaindex). `branch` is what
each task or event is doing; in the workflow lane a branch is queued until one
of `Pool` workers is free. `index` is the key the results are sorted by: claimed
from the shared counter as a branch finishes (`BranchReturns`), or the place in
the plan (`WorkerReturns`; in the gather lanes this is the order `gather` and
`zip` keep). `arrived` is the buffer of `collect_events`. A failing branch ends
the run at once: `gather` leaves its siblings running, the workflow runtime
cancels them (`AfterEnd`). `finished` is a history variable. Outputs are model
values, so the text of sections, votes and summaries is left out.
A plan without subtasks sends no event in the llamaindex lane, so nothing runs
its fan-in: there `Timeout` is what ends the run.

### DeepResearch

One run of `run_deep_research`. `stage` is the await the lead is in, `at` the
await each sub-researcher is in: its start event, a reflect call, a search, the
compression call, its finding event. An `emit` is the append to `events` (a
history variable) and an await of its own, because the callback may suspend or
raise. `FanOut` is `gather`: every task tells its start before any of them gets
past its first model call, because the tasks are queued together and a model
call suspends. Results and citations are records of source, locator and score;
`collected` is a set, since only `max` and membership are asked of the list.
Locators are sequences of characters, because two orders of them matter:
`Ahead` is the key of `map_citations`, which compares sequences of negated code
points, and `RanksBefore` the key of `distill_notes`, which compares the texts.
Sources are numbered in the order of their texts. `chunk_id` is made of source
and locator and is left out, and so are key points and the rendered notebook.
`Fail` ends the run with the first exception while the siblings go on; what the
failing researcher had collected is gone with its task.

### Retrieval, Workflows

`Retrieval` holds chunk ids, locators, the index, the ranking and the citation
check as operators. The chunker and the index are libraries: a document is the
sequence of the metadata its chunks would have, and any part of the index may be
returned with any of `Scores`, missing ones included; a missing score counts as
zero, so a negative one ranks below it.

`Workflows` runs one of four patterns in one of the three frameworks. A text is
the number of the model call that wrote it; `calls` records each call's role,
the texts its prompt holds and what the code reads in its answer. `Judged` is
the loop of `run_evaluator_optimizer` after a verdict, `Gate` the word count of
the chain, `Classify` and `AnswerRouted` the two calls of routing. The answer of
the retrieval lane may cite what the model was shown, what is only indexed, or
what does not exist. `CallFails` is any exception of a call; only two LlamaIndex
workflows run under a timeout of their own (`TimesOut`).

## 4. The runs

Every passing run is exhaustive over its instance.

| run | instance | what it shows |
|---|---|---|
| `hitl_session` | 3 callers, 1 session, 3 calls, limit 4 | no double resume, decision or unapproved execution through races, failures and restarts; three rounds, each with fresh calls and a larger usage; the 409 path gives the session back; refinement of `ApprovalGate`; every request answered |
| `hitl_policy` | 3 calls, a known and an unknown customer, an amount at the threshold and one above, with and without a directory | taint and approval hold over stops and resumes; recipients outside the directory are never acted on; refinement of `ApprovalGate` |
| `rate_limiter` | 2 requests, limits 2 and 1, period 1, cooldown 2 | no window grants more than its limit; the cooldown is counted from the last failure; every request is answered; the limiter returns to a primary that stays up |
| `sse_stream` | backstop of 4 events | order, no silent truncation, the producer released |
| `provider_config` | all environments with up to 3 chain entries, litellm missing | a serving chain can be built; watsonx only with credentials |
| `chat_service` | 2 requests, a chain of a member that retries once and a lazy one that does not, limit 2, timeout 1 tick | grounded citations, nothing left at work, cost bounded for each member, always an answer |
| `model_client` | both transports, 3 requests, 2 calls, an ordinary and an output tool, 2 instructions | every body carries the history, each part once and in order; instructions lead; results follow their calls; only a failed call falls back |
| `autonomous_agent` | 3 names (harmless, dangerous, unknown), 3 iterations, 2 calls per answer, answers of 0 to 2 tokens, budget 2 | no guard bypassed, true trail, one answer of overspending |
| `fan_out` | up to 3 branches, pool 2, cap 2, 2 outputs | every branch once and in order, an end with nothing at work |
| `workflows` | caps 0 to 3, two corpora of two documents, one of four chunks and one that cannot be chunked, scores -2, 0, 1 and missing | prompts hold what came just before; the result is the one that was judged; a citation names one chunk the model was shown |
| `deep_research` | up to 3 subquestions, 2 researchers of 2 turns, searches of at most 2 of 4 hits, drafts of up to 2 sources, 1 of them invented, 2 notes | types and caps, events in order, findings and notes grounded in the researcher's own results and truncated by the cap only, the report their union, an end with nothing at work |

Why the bounds are enough. Three callers are two racers and one that comes
later. Sessions share nothing but the dictionary that holds them, and the
theorems cover any number of them, so one suffices; three calls and four
requests allow three approval rounds, in each of which an old decision can
be repeated. In `hitl_policy` three calls are a search that taints, a call that
is held, and one that comes after the resume; the calls are interchangeable, and
`Symmetry` exchanges them; its theorems cover any set of calls. Two concurrent
hits are what it takes for one to fail while the other is in flight; a cooldown
of two ticks has a middle. Four events let a producer reach each stage of the
contract and end at, before or beyond the backstop. Three chain entries are a
good one, a bad one and an order between them. One tick of timeout suffices
because ticks interleave freely with every other step; two members distinguish
the first and the last of a chain, and a client that retries from one that does
not; with one retry there is a first and a last attempt; a budget of two
requests has a first, a last and a refused one. Three model requests map two
answers again, the second of which follows a result or a retry, and two calls share a message or an absent
id, or come in two messages. Two calls per answer of the autonomous agent have
a first, which carries the tokens, and one after it; a budget of two is met
exactly, crossed within and crossed between turns. Three branches on a pool of
two make one wait, three subtasks under a cap of two make one be dropped, and a
plan may be empty. Three rounds of the optimizer let feedback of the round
before the last show; four chunks under a top-k of at most three leave one out,
and two of them carry the same ordinal in different documents. Two researchers
can find the same anchor with different scores, two turns let one of them hold
a better and a worse hit of a source, and three anchors under two notes leave
one out; one locator extends another, the case in which the two orders differ.

Most type invariants, the read-ahead of the stream, the size of the pool and
"closed stays closed" (`ClosedStaysClosed`) are proved for every value of the
constants (section 6) and not run besides; that of `DeepResearch` is in its run
as well, because it holds the caps of the research.

Deadlock is checked for the HITL session and the rate-limiter runs. The others
really stop: a stream is closed, a process is configured, all requests are
answered, a conversation, an agent, a fan-out, a workflow or a research run has
returned.

### Disagreements between the code and its text

One is a run that TLC ends with a counterexample: `hitl_wedged`, property
`InFlightMeansRunning`. `harness.py:172` catches one exception type only; any
other leaves the record `in_flight` for ever, where `store.py:60` says "claimed,
a resume is running against it".

The others were met while modelling; the models follow the code.

- `sse/app.py:109` counts after the send, so a `completed` that is the last
  event allowed is followed by `error`; `app.py:14` says that the terminal
  markers always end the stream.
- `watsonx.py:288` builds the client by a synchronous call on the event loop,
  during which the timeout that `chat.py:141` documents as a 504 cannot fire.
- `litellm.py:177` calls the fallback chain "the sole resilience layer", and
  `specs/inputs/idea0.md:553` asks for clients without retries, because these
  delay the failover; `ollama.py:77` leaves the retries of the OpenAI client on,
  so that one request of the model may cost several calls of that member.
- `config.py:239` requires `OLLAMA_MODEL_NAME` for the direct provider only;
  `ollama.py:59` calls its absence unreachable, and a chain reaches it.
- `compression.py:106-113` negates code points to rank locators ascending; a
  locator then comes after its own extensions (`p10` before `p1`).
- Of a citation only `chunk_id` is checked against what was retrieved
  (`rag/citation.py`); source, locator and score are what the model wrote.
- The risk validator of `hitl/agent.py` compares amounts with the threshold; the
  taint that also forces approval is not part of what it checks.
- Empty feedback of the evaluator drops the attempt from the next prompt as well:
  the generator starts again from the task.
- A completion that names no call ids gives all calls of the message the same
  empty id, so results can be told apart by their order alone.

## 5. Fairness

- **HITL**: weak fairness of each handler that runs (`Serve(c)`): the event loop
  schedules every ready task, and each model or tool call returns or raises.
  The last is an assumption: nothing in the lane puts a timeout on `agent.run`.
  Callers and restarts owe nothing.
- **RateLimiter**: weak fairness of a request's next step and of time. A
  storage call returns or raises (a call that hangs is not handled by the code).
  Outages, recovery and other processes owe nothing; `PrimaryRegained` assumes
  in its own formula that the primary stays up and that requests keep coming.
- **SseStream**: weak fairness of the producer (it yields, stops or raises in
  the end) and of the server (a send finishes or runs into its timeout).
- **ChatService**: weak fairness of the service's own steps, of time, and of
  the synchronous client build returning. None for providers: `Answered` rests
  on the timeout alone.
- **FanOut**: weak fairness of the steps of the run and of the workflow timeout:
  every model call returns or raises, and time passes. The gather lanes have no
  timeout, so for them the first is an assumption about the model.
- **DeepResearch**: weak fairness of the run as a whole, which is less than
  fairness of each researcher and suffices because every loop has a cap: while
  calls are out, some call of the model, the search provider or the callback
  returns or raises, which is an assumption about them.
- **ProviderConfig**, **AutonomousAgent**, **HitlPolicy**, **ModelClient** and
  **Workflows** have no liveness property and state no fairness; the bound on
  the iterations of an autonomous agent is part of its `TypeOK`.

## 6. Proofs

All theorems hold for every value of the constants under the assumptions the
modules name, each as weak as the code allows:

- caps, limits and durations are numbers, positive where zero would make no
  sense (`LimitAssumption`, `LimitsAssumption`, `TimesAssumption`,
  `MaxEventsAssumption`, `ChatAssumption`, `AgentAssumption`, `FanOutAssumption`,
  `PolicyAssumption`, `ClientAssumption`, `ResearchAssumption`); the caps of an
  agent, of the workers and of a research run may be zero or negative;
- a placeholder for "none" is not one of the things it stands in for
  (`NoSessionAssumption`, `ChatAssumption`, `FanOutAssumption`,
  `PolicyAssumption`, `ToolsAssumption` for the tool of a text part,
  `ResearchAssumption` for the invented source, `WorkflowAssumption` for a
  missing score);
- the data have their shapes: a registry is finite and its dangerous tools are
  among it, known customers are customers, the elements of a chain are strings
  (`ConfigAssumption`, `ChatAssumption`), hits are records of source, locator
  and score, and documents are sequences of chunk metadata, those of one corpus
  from different sources (`WorkflowAssumption`).

Each proof follows one argument: an inductive invariant holds initially, every
action keeps it (one lemma per action), and it implies the property.

- **`HitlProofs`**, the session. The safety properties are not inductive: that
  no call is decided twice needs that a session's history knows every call it
  presented or that was decided (`HistoryKnowsCalls`), that a running handler
  carries that history (`RunMatchesSession`), and that an id not yet issued has
  no trace (`Untouched`); together they are `SessionInv`. `RoundInv` adds that a
  session waits for a decision only once all it had approved has run, and that
  a running handler counts on from what its session has used. Theorems
  `SessionInvariant`, `ApprovalSafety` with its parts, `ClosedForever`,
  `PendingKept`, `RoundInvariant`, `BudgetSpansRounds`, and the refinement
  `SessionImplementsGate`, in which each action maps to a step of
  `ApprovalGate` or to a stutter.
- **`HitlProofs`**, the tool policy: `PolicyInv`. That no tainted discount runs
  unapproved is not inductive: while a turn runs, taint has to be at least what
  the history and the results of the turn hold of customer text, and with an
  empty directory there is no such text at all. Theorems `RiskIsApproved`,
  `RecipientsAreKnown`, and the refinement `PolicyImplementsGate`, an approved
  call that has run or was refused being `executed`.
- **`PatternProofs`**, the rate limiter: `CooldownInv`, that the deadline and the
  time since the last failure add up to the cooldown while degraded, for
  `PrimaryLeftAlone`; `GrantInv` for `LimitKept`. The second is about the gap
  between the two awaits of a hit: a request counted within the limit and not
  yet read back is promised a place, and what was granted and what is promised
  together never exceed the count of the window or the limit.
- **`PatternProofs`**, the stream: `StreamInv`, that what was pulled and what was
  sent differ by exactly the event under way, for `Ordered` and `HeldBack`.
  `NoTruncation` needs `ToldInv` on top: a body that has closed under a client
  that reads had sent what the producer yielded and seen it stop, or has sent
  the error marker.
- **`PatternProofs`**, the workflows: `FlowInv`, of which `OptimizerInv`,
  `ChainInv` and `RoutingInv` say for each stage which calls have been made, so
  that the next prompt has the last of each role to take (`FreshPrompts`) and
  the result is the one judged (`EarnedResults`). `RagInv` says that the ids of
  the index are distinct (`CorpusIndexed`, by induction over the documents) and
  that what is shown is a best part of what was scored: ordering by score and id
  is strict because ids are (`RankingOrders`, `BestRetrieved`). `CitedWasShown`.
- **`DeepResearchProofs`**: `ResearchInv` says where the lead and each researcher
  can be (`LeadInv`, `LoopInv`) and which events they have told by then
  (`EventInv`). `Grounded` and `Complete` rest on lemmas about the two rankings,
  each a strict order (`NotesOrder`, `CitingOrder`), about the citations as the
  best hit of each drafted source (`CitationsAreBest`) and about joining them
  without duplicates (`AllCitationsJoined`, `DedupKeeps`). Theorems
  `ResearchInvariant`, `TypeCorrect`, `EventsAsDocumented`, `Grounded`, `Complete`.
- **`AutonomousAgentProofs`**: `AgentInv`. While a run goes on its steps are
  exactly what was executed (`TraceInv`) and its cost is the total plus the turn
  at hand, begun within the budget (`AccountInv`). Theorems `TypeCorrect`,
  `GuardsAlwaysHold`, `ResultsAreTrails`, `SpendIsBounded`.
- **`FanOutProofs`**: `FanOutInv`. `ResultInOrder` needs that the finished
  branches are listed once each with their place as index (`OrderInv`) and that
  the branches are the first `Width` ones (`WidthInv`). The lemmas `PlanOrder`
  and `CompletionOrder` show that sorting by index restores the order, counting
  with `FinishedCount`; `CollectKeeps` shows that the barrier opens only on the
  full set. Theorems `TypeCorrect`, `ResultsAreInOrder`, `PoolIsRespected`.
- **`ChatServiceProofs`**, the requests: `ChatInv`. That the cost is bounded needs
  more than the bound: what each member has cost in the model request under way
  is told by the place in the chain a run has come to and by how often the
  client of that member has retried (`UnderWay`, `SpendInv`). `UnderWayBound`
  shows that this is never more than the member's `Share` of one request, one
  call and its retries, and `Allowance` and `SpendFits` turn the shares into the
  product with the limit. `DispatchKeeps`, `RetryKeeps` and `NextMemberKeeps`
  are the steps at which the two counts move. Theorems `TypeCorrect`,
  `AnswersAreClean` with its part `NothingIsLeft`, `SpendIsBounded`.
- **`ChatServiceProofs`**, from environment to agent: `DryRunSuffices`, for any set
  of chain values; `BootInv` remembers that a serving process with a chain has
  passed the very construction the first request repeats. For
  `WatsonxHasCredentials`, `WithoutHolds` says what dropping blanks from a chain
  keeps, by a shortest chain of which it would not hold, and `CredentialInv`
  that settings which select watsonx in any spelling carry its credentials.
- **`ModelClientProofs`**: `ClientInv`. Requests and responses take turns
  (`HistoryInv`); mapped, each part is said once and in its place, and each
  result follows its call (`LineInv`, `HeardInv`, `PairedInv`); what is being
  sent is the mapping of the whole history (`PhaseInv`). Extending the history
  by a message extends the mapping by that message's lines (`MappedAppend`);
  the instructions go to the one point between the leading system lines and the
  rest (`PointDivides`), so no result is parted from its call (`InsertedPairs`).
  Theorems `EverythingSent`, `InstructionsSent`, `ResultsPaired`,
  `FallbackEarned`.
- **`SequenceLemmas`** holds what several of these share: induction over numbers
  and over sequences, stated for the set of those that satisfy the claim
  (`NatInduct`, `SeqInduct`) and proved from the least counterexample
  (`LeastNat`), what flattening a sequence of sequences yields, and that ranking
  by a strict order sorts (`RankedInOrder`).

Checked by TLC only is what lies outside the reach of the prover: liveness under
fairness (`Answered` of three modules, `PrimaryRegained`, `ProducerReleased`,
`Ends` of two), and the violated `InFlightMeansRunning`. The inductive
invariants and their parts (`SessionInv`, `RoundInv`, `PolicyInv`,
`CooldownInv`, `GrantInv`, `StreamInv`, `ToldInv`, `FlowInv`, `RagInv`,
`ResearchInv`, `AgentInv`, `FanOutInv`, `ChatInv`, `BootInv`, `CredentialInv`,
`ClientInv`) held in TLC on the instances of section 4; they appear in proofs
only, since the runs check what they imply.

## 7. Abstractions and what is not modelled

- Session ids and call ids are fresh. Call ids are the provider's and their
  uniqueness within a history is an assumption on the library.
- `StartRun` admits no more runs than there are unused ids; this is the bound
  of that model, not a rule of the code.
- Loss of the data in Redis, header values (`Retry-After` included) and the
  parsing of limits and storage URIs are left out of the rate limiter.
- The text encoding of SSE events is left out: a conversion of one event at a
  time, without state.
- Validators of single settings, logging and tracing are left out of the boot.
  `anthropic` and `bedrock` as direct providers boot and then fail each chat;
  only chains are dry-run, and `FallbackCheckedAtBoot` claims no more.
- That the watsonx SDK authenticates in its constructor is taken from the
  comment at `watsonx.py:144-146`; the SDK is not part of the repository.
- An unlimited request budget (`None`) is not modelled; the default is finite.
- That the runtime of LlamaIndex workflows cancels its steps when one raises or
  the timeout fires, and that `gather` does not, is taken from the libraries.
- The texts of prompts, answers, key points, sections and summaries are left out
  everywhere; what is kept of a text is where it comes from.
- Generation parameters and token counts of the model client are left out, and
  so is the check of a chunk's token budget. The LiteLLM variant of watsonx
  writes a process-wide environment variable; with one set of settings per
  process its value never changes.
- That tool calls of one turn run concurrently, in threads for synchronous tools,
  and that a deferred call runs its body again once approved, is taken from how
  `hitl/agent.py` and its tests use pydantic-ai.
- The tool design lane is pure functions over a fixed list of records. Contracts
  are data classes whose field rules appear in the modules that use them. Health,
  schemas, logging, observability, the HITL settings, scripts and CI keep no
  state worth a model.
