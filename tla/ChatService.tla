----------------------------- MODULE ChatService -----------------------------
(***************************************************************************)
(* POST /chat of the root application: concurrent requests share one       *)
(* cached agent (api/deps.py), run it under a timeout and a request budget *)
(* (api/routes/chat.py) and reach the providers through a fallback chain   *)
(* (llm/fallback.py, llm/providers).  Handlers are coroutines of one event *)
(* loop; the cached agent is looked up in worker threads; and the watsonx  *)
(* SDK client is built by a synchronous call made on the event loop, so    *)
(* that nothing else of the process runs until it returns.                 *)
(*                                                                         *)
(* The chain itself is ProviderConfig's result: Order holds what was       *)
(* built.  Time is the number of ticks a request still has, so neither     *)
(* the clock nor the number of ticks is bounded.                           *)
(***************************************************************************)
EXTENDS Integers, Sequences, FiniteSets

CONSTANTS Request,      \* the requests that may arrive, one agent run each
          NoOne,
          Order,        \* the members of the chain, most preferred first
          Lazy,         \* the members that connect on first use, on the loop
          Pinned,       \* the members whose client is told not to retry
          SdkRetries,   \* how often a client retries that is told nothing
          RequestLimit, \* chat_usage_request_limit
          Timeout,      \* chat_request_timeout, in ticks
          Kb, Invented  \* what search_kb may return, what only the model knows

ASSUME ChatAssumption ==
    /\ NoOne \notin Request
    /\ Order \in Seq(STRING) /\ Order # <<>>
    /\ RequestLimit \in Nat \ {0} /\ SdkRetries \in Nat
    /\ Timeout \in Nat \ {0}

VARIABLES cached,    \* the request whose agent lru_cache keeps, or NoOne
          agent,     \* the agent a request runs on, named by its builder
          connected, \* the agents whose lazy client has been built
          loop,      \* the request that keeps the event loop busy, or NoOne
          phase,     \* where a request is
          answer,    \* its status code, "none" until there is one
          left,      \* the ticks until its timeout; -1 when overdue
          member,    \* the member of the chain it is trying
          inflight,  \* the requests a provider is working for
          made,      \* the model requests its run has counted
          calls,     \* the provider calls its run has cost, of each member
          retried,   \* how often the client has retried the call under way
          found,     \* what search_kb returned in its run
          sources    \* what its answer cites

\* What a run keeps of its own, and what is gone when it ends.
run == <<left, member, made, calls, retried>>
vars == <<cached, agent, connected, loop, phase, answer, inflight, run, found, sources>>

\* What an answer of the model may cite.
Ids == Kb \cup Invented

Phases  == {"new", "building", "resolved", "turn", "trying", "connecting", "calling", "done"}
Running == {"turn", "trying", "connecting", "calling"}
Answers == {"none", "200", "429", "500", "504"}

Init ==
    /\ cached = NoOne /\ connected = {} /\ loop = NoOne
    /\ agent = [r \in Request |-> NoOne]
    /\ phase = [r \in Request |-> "new"]
    /\ answer = [r \in Request |-> "none"]
    /\ inflight = {}
    /\ left = [r \in Request |-> Timeout]
    /\ member = [r \in Request |-> 1]
    /\ made = [r \in Request |-> 0]
    /\ calls = [r \in Request |-> [i \in DOMAIN Order |-> 0]]
    /\ retried = [r \in Request |-> 0]
    /\ found = [r \in Request |-> {}]
    /\ sources = [r \in Request |-> {}]

-----------------------------------------------------------------------------
\* Depends(get_chat_agent): resolved in a worker thread, before the timeout.

LookUp(r) ==
    /\ phase[r] = "new" /\ loop = NoOne
    /\ IF cached = NoOne
       THEN phase' = [phase EXCEPT ![r] = "building"] /\ UNCHANGED agent
       ELSE /\ phase' = [phase EXCEPT ![r] = "resolved"]
            /\ agent' = [agent EXCEPT ![r] = cached]
    /\ UNCHANGED <<cached, connected, loop, answer, inflight, run, found, sources>>

\* lru_cache holds no lock while it calls: every thread that missed builds an
\* agent and uses it, and the first one to finish is the one that is kept.
Build(r) ==
    /\ phase[r] = "building"
    /\ phase' = [phase EXCEPT ![r] = "resolved"]
    /\ agent' = [agent EXCEPT ![r] = r]
    /\ cached' = IF cached = NoOne THEN r ELSE cached
    /\ UNCHANGED <<connected, loop, answer, inflight, run, found, sources>>

-----------------------------------------------------------------------------
\* The end of a run, by whatever way: an answer, and no provider at work.

Drop_Shielded(r) == inflight
Drop(r) == inflight \ {r}

CallEnds(r) ==
    /\ inflight' = Drop(r)
    /\ retried' = [retried EXCEPT ![r] = 0]

Finish(r, status) ==
    /\ phase' = [phase EXCEPT ![r] = "done"]
    /\ answer' = [answer EXCEPT ![r] = status]
    /\ CallEnds(r)
    /\ left' = [left EXCEPT ![r] = Timeout]
    /\ member' = [member EXCEPT ![r] = 1]
    /\ made' = [made EXCEPT ![r] = 0]
    /\ calls' = [calls EXCEPT ![r] = [i \in DOMAIN Order |-> 0]]

\* post_chat: the run starts under wait_for.
Start(r) ==
    /\ phase[r] = "resolved" /\ loop = NoOne
    /\ phase' = [phase EXCEPT ![r] = "turn"]
    /\ UNCHANGED <<cached, agent, connected, loop, answer, inflight, run, found, sources>>

\* Before every model request the budget is checked; the chain is tried anew
\* from its first member.
CanRequest(n) == n < RequestLimit

BeginTurn(r) ==
    /\ phase[r] = "turn" /\ loop = NoOne
    /\ IF CanRequest(made[r])
       THEN /\ phase' = [phase EXCEPT ![r] = "trying"]
            /\ member' = [member EXCEPT ![r] = 1]
            /\ UNCHANGED <<answer, inflight, left, made, calls, retried>>
       ELSE Finish(r, "429")
    /\ UNCHANGED <<cached, agent, connected, loop, found, sources>>

\* A first call of the member, which its client may repeat on its own: watsonx
\* (max_retries) and litellm (num_retries) are told not to, the client that
\* OllamaProvider makes for itself is told nothing.
MayRetry_Default(i) == SdkRetries
MayRetry(i) == IF Order[i] \in Pinned THEN 0 ELSE SdkRetries

Charge(r) == calls' = [calls EXCEPT ![r][member[r]] = @ + 1]

Dispatch(r) ==
    /\ phase' = [phase EXCEPT ![r] = "calling"]
    /\ inflight' = inflight \cup {r}
    /\ Charge(r)
    /\ UNCHANGED retried

NeedsClient(r) == Order[member[r]] \in Lazy /\ agent[r] \notin connected

\* The member is called, or first builds its client, which occupies the loop.
CallMember(r) ==
    /\ phase[r] = "trying" /\ loop = NoOne
    /\ IF NeedsClient(r)
       THEN /\ loop' = r
            /\ phase' = [phase EXCEPT ![r] = "connecting"]
            /\ UNCHANGED <<inflight, calls, retried>>
       ELSE Dispatch(r) /\ UNCHANGED loop
    /\ UNCHANGED <<cached, agent, connected, answer, left, member, made, found, sources>>

ClientBuilt(r) ==
    /\ phase[r] = "connecting"
    /\ loop' = NoOne
    /\ connected' = connected \cup {agent[r]}
    /\ Dispatch(r)
    /\ UNCHANGED <<cached, agent, answer, left, member, made, found, sources>>

\* The attempt failed in a way the client retries; neither the chain nor the
\* request budget hears of it.  The pause before the next attempt is part of
\* the call.
Retry(r) ==
    /\ phase[r] = "calling" /\ loop = NoOne
    /\ retried[r] < MayRetry(member[r])
    /\ retried' = [retried EXCEPT ![r] = @ + 1]
    /\ Charge(r)
    /\ UNCHANGED <<cached, agent, connected, loop, phase, answer, left, member,
                   inflight, made, found, sources>>

\* A ModelAPIError moves on to the next member; after the last one the
\* exception group of all of them becomes a 500.
FallBack(r) == member[r] + 1

NextMember(r) ==
    IF member[r] < Len(Order)
    THEN /\ phase' = [phase EXCEPT ![r] = "trying"]
         /\ member' = [member EXCEPT ![r] = FallBack(r)]
         /\ CallEnds(r)
         /\ UNCHANGED <<answer, left, made, calls>>
    ELSE Finish(r, "500")

ClientFails(r) ==
    /\ phase[r] = "connecting"
    /\ loop' = NoOne
    /\ NextMember(r)
    /\ UNCHANGED <<cached, agent, connected, found, sources>>

CallFails(r) ==
    /\ phase[r] = "calling" /\ loop = NoOne
    /\ NextMember(r)
    /\ UNCHANGED <<cached, agent, connected, loop, found, sources>>

\* Any other exception (an unsupported part of the history, a client build that
\* fails outside the SDK's errors, a malformed answer, output that stays
\* invalid) ends the request.  A TimeoutError among them is taken for wait_for's.
RunBreaks(r, status) ==
    /\ phase[r] \in {"trying", "connecting", "calling"} /\ loop \in {NoOne, r}
    /\ loop' = NoOne
    /\ Finish(r, status)
    /\ UNCHANGED <<cached, agent, connected, found, sources>>

\* The response exceeds the token limit.
TokensExceeded(r) ==
    /\ phase[r] = "calling" /\ loop = NoOne
    /\ Finish(r, "429")
    /\ UNCHANGED <<cached, agent, connected, loop, found, sources>>

\* The model asks for search_kb, or returns output that has to be retried
\* (S = {}); either way another model request follows.
Continue(r, S) ==
    /\ phase[r] = "calling" /\ loop = NoOne
    /\ made' = [made EXCEPT ![r] = @ + 1]
    /\ found' = [found EXCEPT ![r] = @ \cup S]
    /\ phase' = [phase EXCEPT ![r] = "turn"]
    /\ CallEnds(r)
    /\ UNCHANGED <<cached, agent, connected, loop, answer, left, member, calls, sources>>

\* _grounded_sources: only what search_kb returned in this run is cited.
Grounded_UnlessUnsearched(claimed, returned) ==
    IF returned = {} THEN claimed ELSE claimed \cap returned
Grounded(claimed, returned) ==
    IF returned = {} THEN {} ELSE claimed \cap returned

AnswerOk(r, claimed) ==
    /\ phase[r] = "calling" /\ loop = NoOne
    /\ Finish(r, "200")
    /\ sources' = [sources EXCEPT ![r] = Grounded(claimed, found[r])]
    /\ UNCHANGED <<cached, agent, connected, loop, found>>

\* wait_for: the run is cancelled, whatever it was waiting for.
Expired_NotDuringCall(r) == left[r] <= 0 /\ r \notin inflight
Expired(r) == left[r] <= 0

Expire(r) ==
    /\ phase[r] \in Running /\ loop = NoOne /\ Expired(r)
    /\ Finish(r, "504")
    /\ UNCHANGED <<cached, agent, connected, loop, found, sources>>

\* A tick passes for every running request.  A loop that is free serves an
\* expired timer before the next tick; a busy one does not.
Tick ==
    /\ loop = NoOne => \A r \in Request : phase[r] \in Running => left[r] > 0
    /\ left' = [r \in Request |-> IF phase[r] \in Running /\ left[r] >= 0
                                  THEN left[r] - 1 ELSE left[r]]
    /\ UNCHANGED <<cached, agent, connected, loop, phase, answer, member, inflight, made, calls, retried, found, sources>>

-----------------------------------------------------------------------------
Service(r)  == LookUp(r) \/ Build(r) \/ Start(r) \/ BeginTurn(r) \/ CallMember(r) \/ Expire(r)
Provider(r) == \/ Retry(r) \/ CallFails(r) \/ RunBreaks(r, "500") \/ RunBreaks(r, "504")
               \/ TokensExceeded(r) \/ Continue(r, {})
               \/ \E i \in Kb : Continue(r, {i})
               \/ \E claimed \in SUBSET Ids : AnswerOk(r, claimed)
Connect(r)  == ClientBuilt(r) \/ ClientFails(r)

Next == Tick \/ \E r \in Request : Service(r) \/ Provider(r) \/ Connect(r)

\* The threads and the event loop get on, time passes, and the synchronous
\* client build returns (the SDK's own timeouts); a provider owes nothing.
Spec ==
    /\ Init /\ [][Next]_vars
    /\ WF_vars(Tick)
    /\ \A r \in Request : WF_vars(Service(r)) /\ WF_vars(Connect(r))

-----------------------------------------------------------------------------
(* Type invariant.                                                         *)
TypeOK ==
    /\ cached \in Request \cup {NoOne}
    /\ agent \in [Request -> Request \cup {NoOne}]
    /\ connected \subseteq Request
    /\ loop \in Request \cup {NoOne}
    /\ phase \in [Request -> Phases]
    /\ answer \in [Request -> Answers]
    /\ left \in [Request -> -1..Timeout]
    /\ member \in [Request -> 1..Len(Order)]
    /\ inflight \subseteq Request
    /\ made \in [Request -> 0..RequestLimit]
    /\ calls \in [Request -> [DOMAIN Order -> Nat]]
    /\ retried \in [Request -> Nat]
    /\ found \in [Request -> SUBSET Ids]
    /\ sources \in [Request -> SUBSET Ids]

(* An answer cites only what search_kb returned in the same run, and an    *)
(* error answer cites nothing.  (chat.py:72-110, 159)                      *)
CitesOnlyFound == \A r \in Request : sources[r] \subseteq found[r]

(* Once a request is answered, 504 included, no provider works for it and  *)
(* it does not hold the event loop.  (chat.py:149-157)                     *)
NothingLeftBehind ==
    \A r \in Request : phase[r] = "done" => r \notin inflight /\ loop # r /\ answer[r] # "none"

(* The request budget bounds what a run costs also behind the fallback      *)
(* chain: a model request costs at most one call of each member whose       *)
(* client is told not to retry, and as many as its client's own default     *)
(* allows of any other.  (chat.py:145, watsonx.py:214, litellm.py:257)      *)
SpendBounded ==
    \A r \in Request : \A i \in DOMAIN Order :
        calls[r][i] <= RequestLimit * (IF Order[i] \in Pinned THEN 1 ELSE 1 + SdkRetries)

(* The inductive invariant behind these: a run has its agent, only the      *)
(* request that connects occupies the loop, and a member has cost its share *)
(* of every counted model request, and of the one under way what the place  *)
(* in the chain and the client's retries tell.                              *)
Share(i) == 1 + MayRetry(i)

UnderWay(r, i) ==
    IF phase[r] \in {"trying", "connecting", "calling"} /\ i < member[r] THEN Share(i)
    ELSE IF phase[r] = "calling" /\ i = member[r] THEN 1 + retried[r] ELSE 0

Allowed(r, i) == made[r] * Share(i) + UnderWay(r, i)

SpendInv(r) ==
    /\ phase[r] \in {"trying", "connecting", "calling"} => made[r] < RequestLimit
    /\ phase[r] = "calling" => retried[r] <= MayRetry(member[r])
    /\ phase[r] # "calling" => retried[r] = 0
    /\ \A i \in DOMAIN Order : calls[r][i] <= Allowed(r, i)

ChatInv ==
    /\ TypeOK /\ CitesOnlyFound /\ NothingLeftBehind
    /\ \A r \in Request :
          /\ agent[r] = NoOne => phase[r] \in {"new", "building"}
          /\ loop = r <=> phase[r] = "connecting"
          /\ r \in inflight <=> phase[r] = "calling"
          /\ SpendInv(r)

(* Every request is answered in the end, also when no provider ever is.    *)
(* (chat.py:149-155)                                                       *)
Answered == \A r \in Request : phase[r] = "new" ~> phase[r] = "done"
=============================================================================
