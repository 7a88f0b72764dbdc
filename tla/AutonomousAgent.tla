--------------------------- MODULE AutonomousAgent ---------------------------
(* The guarded tool loop of run_autonomous_agent in its three lanes         *)
(* (patterns/frameworks/*/autonomous_agent.py). A turn asks the model once; *)
(* the tool calls of its answer pass the registry, the approval hook and    *)
(* the tool itself, in order; then the tokens of the turn are charged.      *)
(* The lanes differ in what they take from an answer: pydantic_ai handles   *)
(* all its calls, beeai the first one, and in the completion-only           *)
(* llamaindex lane an answer is at most one call.                           *)
EXTENDS Integers, Sequences, FiniteSets

CONSTANTS
  Names,          \* tool names a model may write, also ones nobody offers
  Registry,       \* the names in allowed_tools
  Dangerous,      \* those whose tool needs the approval hook
  MaxIterations,
  Budget,
  MaxCalls,       \* calls of one answer
  MaxTokens       \* tokens of one answer

MaxToolsPerAgent == 20

ASSUME AgentAssumption ==
  /\ Registry \subseteq Names /\ Dangerous \subseteq Registry
  /\ IsFiniteSet(Registry)
  /\ MaxIterations \in Int /\ Budget \in Int
  /\ MaxCalls \in Nat /\ MaxTokens \in Nat

Lanes   == {"pydantic_ai", "beeai", "llamaindex"}
Results == {"completed", "max_iterations", "budget_exceeded", "denied", "disallowed_tool"}
Answers == UNION {[1..n -> Names] : n \in 0..MaxCalls}

\* What the run keeps of an iteration; the outcome stands for the text of the
\* observation.
AgentStep == [index : Nat, tool : Names, outcome : {"ran", "refused", "denied"}, spent : Nat]

VARIABLES
  lane,
  phase,      \* awaiting the model, handling its calls, returned or raised
  index,      \* the iteration
  calls,      \* the calls of the turn that the lane handles
  at,         \* the next of them
  tokens,     \* what the turn cost
  steps,
  total,
  reason,     \* stop_reason; "raised" when the run ended without a result
  ran,        \* history: what was executed, in order
  approved,   \* history: the calls the hook let through
  cost        \* history: tokens of all answers of the model

history == <<ran, approved, cost>>
vars == <<lane, phase, index, calls, at, tokens, steps, total, reason, history>>

(* The arguments are checked first: anything else is a ValueError.          *)
Accepted ==
  /\ MaxIterations >= 1
  /\ Budget >= 0
  /\ Cardinality(Registry) <= MaxToolsPerAgent

Init ==
  /\ lane \in Lanes
  /\ IF Accepted THEN phase = "asking" /\ reason = "none"
                 ELSE phase = "stopped" /\ reason = "rejected"
  /\ index = 0 /\ calls = <<>> /\ at = 1 /\ tokens = 0
  /\ steps = <<>> /\ total = 0
  /\ ran = <<>> /\ approved = {} /\ cost = 0

Stop(why) == phase' = "stopped" /\ reason' = why

-----------------------------------------------------------------------------
(* The model answers. An answer without calls ends the run, and its tokens  *)
(* are not part of the total.                                               *)
Respond(asked, taken, spent) ==
  /\ phase = "asking"
  /\ IF asked = <<>>
     THEN Stop("completed")
     ELSE phase' = "calling" /\ UNCHANGED reason
  /\ calls' = taken /\ at' = 1 /\ tokens' = spent
  /\ cost' = cost + spent
  /\ UNCHANGED <<lane, index, steps, total, ran, approved>>

PydanticTurn(asked, spent) ==
  /\ lane = "pydantic_ai"
  /\ Respond(asked, asked, spent)

FirstOf(asked) == IF asked = <<>> THEN <<>> ELSE <<Head(asked)>>

BeeAITurn(asked, spent) ==
  /\ lane = "beeai"
  /\ Respond(asked, FirstOf(asked), spent)

LlamaIndexTurn(asked, spent) ==
  /\ lane = "llamaindex"
  /\ Len(asked) <= 1
  /\ Respond(asked, asked, spent)

ModelRaises ==
  /\ phase = "asking"
  /\ Stop("raised")
  /\ UNCHANGED <<lane, index, calls, at, tokens, steps, total, history>>

-----------------------------------------------------------------------------
(* The calls of a turn. Its tokens are booked on the first of them.         *)
Call == calls[at]
Handling == phase = "calling" /\ at <= Len(calls)
StepTokens == IF at = 1 THEN tokens ELSE 0
Record(outcome) ==
  steps' = Append(steps, [index |-> index, tool |-> Call, outcome |-> outcome, spent |-> StepTokens])

\* Both refusals end the run; what is left of the turn is dropped.
StopAtCall_Unrecorded(outcome, why) ==
  /\ Stop(why)
  /\ total' = total + tokens
  /\ UNCHANGED <<lane, index, calls, at, tokens, steps, history>>

StopAtCall(outcome, why) ==
  /\ Record(outcome)
  /\ Stop(why)
  /\ total' = total + tokens
  /\ UNCHANGED <<lane, index, calls, at, tokens, history>>

Refuse ==
  /\ Handling
  /\ Call \notin Registry
  /\ StopAtCall("refused", "disallowed_tool")

Deny ==
  /\ Handling
  /\ Call \in Dangerous
  /\ StopAtCall("denied", "denied")

\* The hook, where one is due, has agreed.
Approve_OncePerTurn ==
  approved' = IF Call \in Dangerous /\ \A a \in approved : a[1] # index
              THEN approved \cup {<<index, at>>} ELSE approved
Approve == approved' = IF Call \in Dangerous THEN approved \cup {<<index, at>>} ELSE approved
MayRun == Call \in Registry

Execute ==
  /\ Handling
  /\ MayRun
  /\ Approve
  /\ ran' = Append(ran, [index |-> index, at |-> at, tool |-> Call])
  /\ Record("ran")
  /\ at' = at + 1
  /\ UNCHANGED <<lane, phase, index, calls, tokens, total, reason, cost>>

\* tool.run is not guarded: what was recorded so far is lost with the run.
ToolRaises ==
  /\ Handling
  /\ MayRun
  /\ Approve
  /\ ran' = Append(ran, [index |-> index, at |-> at, tool |-> Call])
  /\ Stop("raised")
  /\ UNCHANGED <<lane, index, calls, at, tokens, steps, total, cost>>

HookRaises ==
  /\ Handling
  /\ Call \in Dangerous
  /\ Stop("raised")
  /\ UNCHANGED <<lane, index, calls, at, tokens, steps, total, history>>

(* All calls were handled: the turn is charged, the budget compared, and    *)
(* the observations go back to the model for the next iteration.            *)
OverBudget_Before(spent) == total > Budget
OverBudget(spent) == spent > Budget

LastIteration == index + 1 = MaxIterations

CloseTurn ==
  /\ phase = "calling" /\ at > Len(calls)
  /\ total' = total + tokens
  /\ IF OverBudget(total + tokens)
     THEN Stop("budget_exceeded") /\ UNCHANGED index
     ELSE /\ index' = index + 1
          /\ IF LastIteration
             THEN Stop("max_iterations")
             ELSE phase' = "asking" /\ UNCHANGED reason
  /\ UNCHANGED <<lane, calls, at, tokens, steps, history>>

-----------------------------------------------------------------------------
ModelTurn == \E asked \in Answers, spent \in 0..MaxTokens :
               PydanticTurn(asked, spent) \/ BeeAITurn(asked, spent) \/ LlamaIndexTurn(asked, spent)

Next ==
  \/ ModelTurn \/ ModelRaises
  \/ Refuse \/ Deny \/ Execute \/ ToolRaises \/ HookRaises
  \/ CloseTurn

Spec == Init /\ [][Next]_vars

-----------------------------------------------------------------------------
(* The variables keep their types; no iteration beyond the cap is begun.    *)
TypeOK ==
  /\ lane \in Lanes
  /\ phase \in {"asking", "calling", "stopped"}
  /\ reason \in Results \cup {"none", "raised", "rejected"}
  /\ phase = "stopped" <=> reason # "none"
  /\ index \in Nat /\ (phase # "stopped" => index < MaxIterations)
  /\ calls \in Seq(Names) /\ at \in 1..Len(calls) + 1
  /\ tokens \in 0..MaxTokens /\ total \in Nat /\ cost \in Nat
  /\ steps \in Seq(AgentStep)
  /\ ran \in Seq([index : Nat, at : Nat, tool : Names])
  /\ approved \subseteq Nat \X Nat

(* Whatever the model writes, in whatever order within a turn: only tools   *)
(* of the allow-list are executed, and a dangerous one only when the hook   *)
(* agreed to this very call (allowed_tools and approval_hook).              *)
GuardsHold ==
  \A i \in DOMAIN ran :
    /\ ran[i].tool \in Registry
    /\ ran[i].tool \in Dangerous => <<ran[i].index, ran[i].at>> \in approved

(* A result is an audit trail: its steps are what was executed, in order,   *)
(* and after them the one call that was refused or denied, if that is why   *)
(* the run stopped. Nothing was executed after a refusal.                   *)
Refused == reason \in {"denied", "disallowed_tool"}

StepsTellTheTruth ==
  reason \in Results =>
    /\ Len(steps) = Len(ran) + (IF Refused THEN 1 ELSE 0)
    /\ \A i \in DOMAIN steps :
         IF i <= Len(ran)
         THEN steps[i].outcome = "ran" /\ steps[i].tool = ran[i].tool /\ steps[i].index = ran[i].index
         ELSE steps[i].outcome = (IF reason = "denied" THEN "denied" ELSE "refused")

(* The budget can be overspent by one answer at most, counting also the     *)
(* answer that completes the run and is in no total.                        *)
OverspendBounded == reason # "rejected" => cost <= Budget + MaxTokens
=============================================================================
