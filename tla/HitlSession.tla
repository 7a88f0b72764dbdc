----------------------------- MODULE HitlSession -----------------------------
(***************************************************************************)
(* The stop / approve / resume service of patterns/hitl: the SessionStore, *)
(* the HitlHarness that drives agent.run, and the two HTTP handlers, run   *)
(* by an asyncio server.  A handler runs without interruption up to its    *)
(* one await (agent.run) and from there to its answer, so each action is   *)
(* the whole code between two awaits; the other clients' handlers          *)
(* interleave only at the await.                                           *)
(*                                                                         *)
(* agent.run is a library call.  It is modelled by what the harness can    *)
(* see of it: approved tool calls are executed, model requests are counted *)
(* against the usage it was given, and it returns a terminal answer or a   *)
(* non-empty set of calls that wait for approval, or raises.               *)
(***************************************************************************)
EXTENDS Naturals, FiniteSets

CONSTANTS
  Clients,       \* concurrent HTTP callers; one request of each at a time
  Sessions,      \* the ids new_session_id can return (bounds the /run calls)
  Calls,         \* tool_call_ids a model turn can present for approval
  RequestLimit,  \* UsageLimits.request_limit
  NoSession      \* a /run handler has no session id yet

ASSUME LimitAssumption == RequestLimit \in Nat
ASSUME NoSessionAssumption == NoSession \notin Sessions

VARIABLES
  records,    \* SessionStore._records; state "absent" is a missing key
  handler,    \* the await each client's handler is suspended in
  issued,     \* every id new_session_id has returned (outlives a restart)
  approvals,  \* audit events emitted with approved = True, per call
  denials,    \* audit events emitted with approved = False, per call
  executed    \* runs of an approval-gated tool body, per call

vars == <<records, handler, issued, approvals, denials, executed>>

Verdicts == {"approved", "denied"}
States   == {"absent", "pending", "in_flight", "consumed"}

Record  == [state: States, pending: SUBSET Calls, usage: 0..RequestLimit, history: SUBSET Calls]
Handler == [phase: {"idle", "running"}, session: Sessions \cup {NoSession}, whole: BOOLEAN,
            todo: SUBSET Calls, looking: BOOLEAN, usage: 0..RequestLimit, history: SUBSET Calls]

Absent == [state |-> "absent", pending |-> {}, usage |-> 0, history |-> {}]
Idle   == [phase |-> "idle", session |-> NoSession, whole |-> TRUE,
           todo |-> {}, looking |-> FALSE, usage |-> 0, history |-> {}]

\* A resume request's decisions: at least one, approved or denied.
Decisions == UNION {[K -> Verdicts] : K \in (SUBSET Calls) \ {{}}}
ApprovedBy(D) == {k \in DOMAIN D : D[k] = "approved"}
DeniedBy(D)   == {k \in DOMAIN D : D[k] = "denied"}

Running(c, s) == handler[c].phase = "running" /\ handler[c].session = s
Claimed(s)    == \E c \in Clients : Running(c, s)

Init ==
  /\ records   = [s \in Sessions |-> Absent]
  /\ handler   = [c \in Clients |-> Idle]
  /\ issued    = {}
  /\ approvals = [s \in Sessions |-> [k \in Calls |-> 0]]
  /\ denials   = [s \in Sessions |-> [k \in Calls |-> 0]]
  /\ executed  = [s \in Sessions |-> [k \in Calls |-> 0]]

-----------------------------------------------------------------------------
\* The store's transitions on one record.  A definition whose name ends in a
\* suffix (Release_Forgotten) is a deliberate fault of the one it precedes:
\* it shows that a property notices that fault.
NewRecord(K, u, h) == [state |-> "pending", pending |-> K, usage |-> u, history |-> h]
Claim(rec)         == [rec EXCEPT !.state = "in_flight"]

Consume(rec)               == [rec EXCEPT !.state = "consumed"]

Release_Forgotten(rec) == rec
Release(rec)           == [rec EXCEPT !.state = "pending"]

\* settle_pending replaces the record: nothing of the previous round survives.
SettlePending_KeepsOldIds(rec, K, u, h) == NewRecord(rec.pending \cup K, u, h)
SettlePending(rec, K, u, h)             == NewRecord(K, u, h)

\* claim answers the same error for an unknown, an in-flight and a consumed id.
Claimable_InFlight(s) == records[s].state \in {"pending", "in_flight"}
Claimable_Consumed(s) == records[s].state \in {"pending", "consumed"}
Claimable(s)          == records[s].state = "pending"

\* The handler answers its request and is done.
Answer(c) == handler' = [handler EXCEPT ![c] = Idle]

\* _to_deferred_result: only an approved decision lets the tool body run.
ToExecute_Denied(D) == DOMAIN D
ToExecute(D)        == ApprovedBy(D)

\* agent.run resumes with the usage stored for the session.
CarriedUsage_Reset(s) == 0
CarriedUsage(s)       == records[s].usage

-----------------------------------------------------------------------------
\* POST /run, up to the await in HitlHarness.start.  The guard on ids is the
\* bound of the model: no more runs than ids are left for.
StartRun(c) ==
  /\ handler[c].phase = "idle"
  /\ Cardinality({d \in Clients : Running(d, NoSession)}) < Cardinality(Sessions \ issued)
  /\ handler' = [handler EXCEPT ![c] = [Idle EXCEPT !.phase = "running"]]
  /\ UNCHANGED <<records, issued, approvals, denials, executed>>

\* POST /resume on an id that cannot be claimed: 404, nothing changes.
RejectUnclaimable(c, s) ==
  /\ handler[c].phase = "idle"
  /\ ~Claimable(s)
  /\ UNCHANGED vars

\* POST /resume that names a call outside the pending set: claimed, then
\* released before the 409, with no await in between.
RejectOutsider(c, s, D) ==
  /\ handler[c].phase = "idle"
  /\ Claimable(s)
  /\ ~(DOMAIN D \subseteq records[s].pending)
  /\ records' = [records EXCEPT ![s] = Release(Claim(@))]
  /\ UNCHANGED <<handler, issued, approvals, denials, executed>>

\* POST /resume that is accepted: the claim, one audit event per decision,
\* and the call of agent.run with the stored history and usage.  A proper
\* subset of the pending set passes the check; agent.run then raises.
AcceptResume(c, s, D) ==
  /\ handler[c].phase = "idle"
  /\ Claimable(s)
  /\ DOMAIN D \subseteq records[s].pending
  /\ records'   = [records EXCEPT ![s] = Claim(@)]
  /\ approvals' = [approvals EXCEPT ![s] =
                     [k \in Calls |-> @[k] + (IF k \in ApprovedBy(D) THEN 1 ELSE 0)]]
  /\ denials'   = [denials EXCEPT ![s] =
                     [k \in Calls |-> @[k] + (IF k \in DeniedBy(D) THEN 1 ELSE 0)]]
  /\ handler'   = [handler EXCEPT ![c] =
                     [phase |-> "running", session |-> s, whole |-> DOMAIN D = records[s].pending,
                      todo |-> ToExecute(D), looking |-> FALSE, usage |-> CarriedUsage(s),
                      history |-> records[s].history]]
  /\ UNCHANGED <<issued, executed>>

-----------------------------------------------------------------------------
\* Inside agent.run.  A run whose decisions do not cover every deferred call
\* takes none of these steps: the library raises before it runs a tool.
Progressing(c) == handler[c].phase = "running" /\ handler[c].whole

\* The library runs one approved tool call.
ExecuteApproved(c, k) ==
  /\ Progressing(c)
  /\ k \in handler[c].todo
  /\ handler'  = [handler EXCEPT ![c].todo = @ \ {k}]
  /\ executed' = [executed EXCEPT ![handler[c].session][k] = @ + 1]
  /\ UNCHANGED <<records, issued, approvals, denials>>

\* A model request is made only below the limit and only once every tool
\* call of the last response has its result.
CanRequest(c) ==
  /\ Progressing(c)
  /\ handler[c].todo = {} /\ ~handler[c].looking
  /\ handler[c].usage < RequestLimit

CountRequest_Lost(u) == u
CountRequest(u)      == u + 1

\* The model asked for tools that need no approval (a lookup, a small
\* discount): the run goes on, after those calls, with another request.
ModelContinues(c) ==
  /\ CanRequest(c)
  /\ handler' = [handler EXCEPT ![c].usage = CountRequest(@), ![c].looking = TRUE]
  /\ UNCHANGED <<records, issued, approvals, denials, executed>>

UngatedToolsReturn(c) ==
  /\ Progressing(c)
  /\ handler[c].looking
  /\ handler' = [handler EXCEPT ![c].looking = FALSE]
  /\ UNCHANGED <<records, issued, approvals, denials, executed>>

\* agent.run returns a terminal answer.  /run creates the session and consumes
\* it at once; /resume consumes its session, whose other fields stay.
ModelFinishes(c) ==
  /\ CanRequest(c)
  /\ Answer(c)
  /\ LET h == handler[c] IN
       \/ /\ h.session = NoSession
          /\ \E s \in Sessions \ issued :
               /\ records' = [records EXCEPT
                                ![s] = Consume(NewRecord({}, CountRequest(h.usage), h.history))]
               /\ issued'  = issued \cup {s}
       \/ /\ h.session # NoSession
          /\ records' = [records EXCEPT ![h.session] = Consume(@)]
          /\ UNCHANGED issued
  /\ UNCHANGED <<approvals, denials, executed>>

\* agent.run stops at approval-gated calls, whose ids are new to its history.
ModelDefers(c, K) ==
  /\ CanRequest(c)
  /\ K # {} /\ K \cap handler[c].history = {}
  /\ Answer(c)
  /\ LET h == handler[c]
         u == CountRequest(h.usage) IN
       \/ /\ h.session = NoSession
          /\ \E s \in Sessions \ issued :
               /\ records' = [records EXCEPT ![s] = NewRecord(K, u, h.history \cup K)]
               /\ issued'  = issued \cup {s}
       \/ /\ h.session # NoSession
          /\ records' = [records EXCEPT ![h.session] = SettlePending(@, K, u, h.history \cup K)]
          /\ UNCHANGED issued
  /\ UNCHANGED <<approvals, denials, executed>>

\* UsageLimitExceeded.  The token and tool-call counters are not modelled, so
\* their limits may strike at any point; the request limit must strike when
\* it is reached (429).  /resume consumes the session; /run never made one.
BudgetExceeded(c) ==
  /\ Progressing(c)
  /\ Answer(c)
  /\ LET s == handler[c].session IN
       records' = IF s = NoSession THEN records ELSE [records EXCEPT ![s] = Consume(@)]
  /\ UNCHANGED <<issued, approvals, denials, executed>>

\* Any other exception, or the cancellation of the handler: neither the
\* harness nor the handler catches it (500), and the record stays in_flight.
RunFails(c) ==
  /\ handler[c].phase = "running"
  /\ Answer(c)
  /\ UNCHANGED <<records, issued, approvals, denials, executed>>

\* The process dies and comes back: the store is in memory only.
Restart ==
  /\ records' = [s \in Sessions |-> Absent]
  /\ handler' = [c \in Clients |-> Idle]
  /\ UNCHANGED <<issued, approvals, denials, executed>>

-----------------------------------------------------------------------------
\* What agent.run and the handler do of their own accord once they run.
Serve(c) ==
  \/ \E k \in Calls : ExecuteApproved(c, k)
  \/ ModelContinues(c)
  \/ UngatedToolsReturn(c)
  \/ ModelFinishes(c)
  \/ \E K \in SUBSET Calls : ModelDefers(c, K)
  \/ BudgetExceeded(c)
  \/ RunFails(c)

Request(c) ==
  \/ StartRun(c)
  \/ \E s \in Sessions :
       \/ RejectUnclaimable(c, s)
       \/ \E D \in Decisions : RejectOutsider(c, s, D) \/ AcceptResume(c, s, D)

Next ==
  \/ \E c \in Clients : Request(c) \/ Serve(c)
  \/ Restart

\* Callers and crashes owe nothing; a handler that runs is scheduled again
\* (the event loop is fair and every model or tool call returns or raises).
Fairness == \A c \in Clients : WF_vars(Serve(c))

Spec == Init /\ [][Next]_vars /\ Fairness

-----------------------------------------------------------------------------
\* Every variable keeps its shape (the fields of SessionRecord and their
\* states, and the counters of the four history variables).
TypeOK ==
  /\ records   \in [Sessions -> Record]
  /\ handler   \in [Clients -> Handler]
  /\ issued    \in SUBSET Sessions
  /\ approvals \in [Sessions -> [Calls -> Nat]]
  /\ denials   \in [Sessions -> [Calls -> Nat]]
  /\ executed  \in [Sessions -> [Calls -> Nat]]

\* At most one handler works on a session, and only while the store says
\* in_flight: the synchronous claim makes a concurrent /resume lose.
OneResumePerSession ==
  \A s \in Sessions :
    /\ \A c, d \in Clients : Running(c, s) /\ Running(d, s) => c = d
    /\ Claimed(s) => records[s].state = "in_flight"

\* Each pending call is decided at most once over the whole life of its
\* session, whatever rounds, retries, failures and restarts lie between.
DecidedOnce ==
  \A s \in Sessions, k \in Calls : approvals[s][k] + denials[s][k] <= 1

\* A gated tool body runs only for a call whose approval was audited before,
\* and never more often than it was approved.
ExecutedOnlyAsApproved ==
  \A s \in Sessions, k \in Calls : executed[s][k] <= approvals[s][k]

Undecided(s, k) == approvals[s][k] = 0 /\ denials[s][k] = 0 /\ executed[s][k] = 0

\* A session that can be claimed waits for at least one call, and for none
\* that was ever decided or run: a decision of an earlier round names no
\* pending call (409) and can not be applied again.
PendingIsUndecided ==
  \A s \in Sessions :
    records[s].state = "pending" =>
      /\ records[s].pending # {}
      /\ \A k \in records[s].pending : Undecided(s, k)

\* A session is open while it can be claimed or a handler works on it.
Open(s) == records[s].state = "pending" \/ Claimed(s)

\* An issued session that is closed (terminal answer, budget, error, crash)
\* is never claimed or run again.
ClosedStaysClosed ==
  [][\A s \in issued : ~Open(s) => ~Open(s)']_vars

\* A session stops being claimable only because a handler took it, or because
\* the process died: the 409 path gives back the session it has claimed.
PendingLeavesOnlyByClaim ==
  [][\A s \in Sessions :
       records[s].state = "pending" /\ records'[s].state # "pending"
         => Claimed(s)' \/ records'[s].state = "absent"]_vars

\* The budget spans the session, not the HTTP round trip: each re-defer
\* stores a larger usage than the round before, so that (usage being bounded
\* by the limit) a session has at most RequestLimit rounds.
UsageAccumulates ==
  [][\A s \in Sessions :
       records[s].state = "in_flight" /\ records'[s].state = "pending"
         => records'[s].usage > records[s].usage]_vars

\* Every accepted request is answered: re-deferring ends the HTTP round trip,
\* and the in-process model loop is bounded by the request limit.
Answered ==
  \A c \in Clients : (handler[c].phase = "running") ~> (handler[c].phase = "idle")

\* The inductive invariant behind the safety properties.  What it adds to them:
\* an id that was never issued has no trace; a handler on a session carries
\* that session's history; the history of a session that is not consumed knows
\* every call it presented or that was decided; and what a run still has to
\* execute was approved and has not run.
Untouched(s) ==
  /\ records[s] = Absent
  /\ ~Claimed(s)
  /\ \A k \in Calls : Undecided(s, k)

HistoryKnowsCalls ==
  \A s \in Sessions :
    records[s].state \in {"pending", "in_flight"} =>
      /\ records[s].pending \subseteq records[s].history
      /\ \A k \in Calls \ records[s].history : Undecided(s, k)

RunMatchesSession ==
  \A c \in Clients, s \in Sessions :
    Running(c, s) =>
      /\ handler[c].history = records[s].history
      /\ \A k \in handler[c].todo : approvals[s][k] = 1 /\ executed[s][k] = 0

SessionInv ==
  /\ TypeOK
  /\ OneResumePerSession
  /\ DecidedOnce
  /\ ExecutedOnlyAsApproved
  /\ PendingIsUndecided
  /\ \A s \in Sessions \ issued : Untouched(s)
  /\ HistoryKnowsCalls
  /\ RunMatchesSession

\* What the gate and the budget rest on besides: a session waits only once all
\* that was approved has run; a run still has to execute every approved call
\* that has not run; if its decisions were complete it left no call of its
\* round undecided; and it starts from the usage of its session.
ApprovedHaveRun(s) == \A k \in Calls : approvals[s][k] = executed[s][k]

RunCompletesRound(c, s) ==
  /\ \A k \in Calls \ handler[c].todo : approvals[s][k] = executed[s][k]
  /\ handler[c].whole => \A k \in records[s].pending : ~Undecided(s, k)
  /\ handler[c].usage >= records[s].usage

RoundInv ==
  /\ \A s \in Sessions : records[s].state = "pending" => ApprovedHaveRun(s)
  /\ \A c \in Clients, s \in Sessions : Running(c, s) => RunCompletesRound(c, s)

\* What the store documents of the in_flight state: a resume is running
\* against the session.
InFlightMeansRunning ==
  \A s \in Sessions : records[s].state = "in_flight" => Claimed(s)

-----------------------------------------------------------------------------
\* The approval gate this service implements.
SessionPhase(s) ==
  CASE s \notin issued -> "new"
    [] records[s].state = "pending" -> "open"
    [] Claimed(s)      -> "deciding"
    [] OTHER           -> "closed"

CallGate(s, k) ==
  CASE executed[s][k] > 0                                         -> "executed"
    [] executed[s][k] = 0 /\ approvals[s][k] > 0                  -> "approved"
    [] approvals[s][k] = 0 /\ denials[s][k] > 0                   -> "denied"
    [] OTHER -> IF SessionPhase(s) = "closed" THEN "void"
                ELSE IF k \in records[s].pending THEN "waiting" ELSE "unseen"

Gate == INSTANCE ApprovalGate WITH
          phase <- [s \in Sessions |-> SessionPhase(s)],
          gate  <- [s \in Sessions |-> [k \in Calls |-> CallGate(s, k)]]

\* The service implements the approval gate.
ImplementsGate == Gate!Spec
=============================================================================
