------------------------ MODULE AutonomousAgentProofs ------------------------
(* Theorems about AutonomousAgent, for any set of tools, any allow-list and *)
(* any limits, also limits the function rejects.                            *)
EXTENDS AutonomousAgent, TLAPS

(* Before the run stops every step is an executed call; after it has        *)
(* stopped this is what StepsTellTheTruth says.                             *)
TraceInv ==
  phase # "stopped" =>
    /\ Len(steps) = Len(ran)
    /\ \A i \in DOMAIN steps :
         steps[i].outcome = "ran" /\ steps[i].tool = ran[i].tool /\ steps[i].index = ran[i].index

(* What the answers cost is what was charged and, within a turn, what is    *)
(* about to be; a turn begins within the budget.                            *)
AccountInv ==
  /\ phase = "asking" => cost = total
  /\ phase = "calling" => cost = total + tokens
  /\ phase # "stopped" => total <= Budget

AgentInv == TypeOK /\ GuardsHold /\ TraceInv /\ StepsTellTheTruth /\ AccountInv /\ OverspendBounded

(* An answer of the model is a sequence of tool names, and so is what any   *)
(* lane takes from it.                                                      *)
LEMMA AnswerIsSeq ==
  ASSUME NEW asked \in Answers
  PROVE  /\ asked \in Seq(Names) /\ Len(asked) \in Nat
         /\ FirstOf(asked) \in Seq(Names) /\ Len(FirstOf(asked)) <= Len(asked)
<1>1. PICK n \in 0..MaxCalls : asked \in [1..n -> Names]
  BY DEF Answers
<1>2. asked \in Seq(Names)
  BY <1>1, AgentAssumption
<1>3. CASE asked = <<>>
  BY <1>2, <1>3 DEF FirstOf
<1>4. CASE asked # <<>>
  <2>1. Head(asked) \in Names /\ Len(asked) >= 1
    BY <1>2, <1>4
  <2>2. FirstOf(asked) = <<Head(asked)>>
    BY <1>4 DEF FirstOf
  <2> QED BY <2>1, <2>2, <1>2
<1> QED BY <1>2, <1>3, <1>4

(* The invariant holds when the function is called, with arguments it       *)
(* accepts or rejects.                                                      *)
LEMMA AgentInit == Init => AgentInv
BY AgentAssumption DEF Init, Accepted, AgentInv, TypeOK, GuardsHold, TraceInv, StepsTellTheTruth,
   AccountInv, OverspendBounded, Results, Refused, Lanes, AgentStep

(* A turn of the model keeps the invariant: it changes no step and charges  *)
(* nothing yet, but may cost one answer more than the budget.               *)
LEMMA RespondKeeps ==
  ASSUME AgentInv, NEW asked \in Seq(Names), NEW taken \in Seq(Names), NEW spent \in 0..MaxTokens,
         Len(taken) <= Len(asked), Respond(asked, taken, spent)
  PROVE  AgentInv'
<1> USE AgentAssumption DEF AgentInv, Respond, Stop
<1>1. TypeOK'
  BY DEF TypeOK, Results
<1>2. GuardsHold'
  BY DEF GuardsHold
<1>3. TraceInv' /\ StepsTellTheTruth'
  BY DEF TraceInv, StepsTellTheTruth, Results, Refused, TypeOK
<1>4. AccountInv' /\ OverspendBounded'
  BY DEF AccountInv, OverspendBounded, TypeOK
<1> QED BY <1>1, <1>2, <1>3, <1>4

(* A run that raises has no result to speak of.                             *)
LEMMA RaiseKeeps ==
  ASSUME AgentInv, phase # "stopped", Stop("raised"),
         UNCHANGED <<lane, index, calls, at, tokens, steps, total, history>>
  PROVE  AgentInv'
BY DEF AgentInv, Stop, history, TypeOK, GuardsHold, TraceInv, StepsTellTheTruth, Results, Refused,
   AccountInv, OverspendBounded

(* A refused or denied call is the last step, and the only one that was not *)
(* executed.                                                                *)
LEMMA StopAtCallKeeps ==
  ASSUME AgentInv, Handling, NEW outcome, NEW why,
         <<outcome, why>> \in {<<"refused", "disallowed_tool">>, <<"denied", "denied">>},
         StopAtCall(outcome, why)
  PROVE  AgentInv'
<1> USE DEF AgentInv, Handling, StopAtCall, Stop, Record, history
<1>1. Call \in Names /\ StepTokens \in Nat
  BY DEF TypeOK, Call, StepTokens
<1>2. TypeOK'
  BY <1>1 DEF TypeOK, Results, AgentStep
<1>3. GuardsHold'
  BY DEF GuardsHold
<1>4. TraceInv' /\ StepsTellTheTruth'
  BY <1>1 DEF TraceInv, StepsTellTheTruth, Refused, TypeOK
<1>5. AccountInv' /\ OverspendBounded'
  BY DEF AccountInv, OverspendBounded, TypeOK
<1> QED BY <1>2, <1>3, <1>4, <1>5

(* A call that reaches its tool is listed, and approved where it has to be; *)
(* earlier executions keep their approvals.                                 *)
LEMMA RunKeepsGuards ==
  ASSUME AgentInv, Handling, MayRun, Approve,
         ran' = Append(ran, [index |-> index, at |-> at, tool |-> Call])
  PROVE  /\ GuardsHold'
         /\ ran' \in Seq([index : Nat, at : Nat, tool : Names])
         /\ approved' \subseteq Nat \X Nat
<1> USE DEF AgentInv, Handling, MayRun, Approve
<1>1. Call \in Names /\ index \in Nat /\ at \in Nat
  BY DEF TypeOK, Call
<1>2. approved \subseteq approved'
  OBVIOUS
<1>3. approved' \subseteq Nat \X Nat
  BY <1>1 DEF TypeOK
<1>4. ran' \in Seq([index : Nat, at : Nat, tool : Names])
  BY <1>1 DEF TypeOK
<1>5. GuardsHold'
  <2> SUFFICES ASSUME NEW i \in DOMAIN ran'
               PROVE  /\ ran'[i].tool \in Registry
                      /\ ran'[i].tool \in Dangerous => <<ran'[i].index, ran'[i].at>> \in approved'
    BY DEF GuardsHold
  <2>1. CASE i = Len(ran) + 1
    BY <2>1, <1>1 DEF TypeOK
  <2>2. CASE i # Len(ran) + 1
    <3>1. i \in DOMAIN ran /\ ran'[i] = ran[i]
      BY <2>2 DEF TypeOK
    <3> QED BY <3>1, <1>2 DEF GuardsHold
  <2> QED BY <2>1, <2>2
<1> QED BY <1>3, <1>4, <1>5

(* Every action of the run keeps the invariant.                             *)
LEMMA AgentStepKeeps == AgentInv /\ [Next]_vars => AgentInv'
<1> SUFFICES ASSUME AgentInv, [Next]_vars PROVE AgentInv'
  OBVIOUS
<1>1. CASE ModelTurn
  <2>1. PICK asked \in Answers, spent \in 0..MaxTokens :
          PydanticTurn(asked, spent) \/ BeeAITurn(asked, spent) \/ LlamaIndexTurn(asked, spent)
    BY <1>1 DEF ModelTurn
  <2> QED BY <2>1, AnswerIsSeq, RespondKeeps DEF PydanticTurn, BeeAITurn, LlamaIndexTurn
<1>2. CASE ModelRaises
  BY <1>2, RaiseKeeps DEF ModelRaises
<1>3. CASE Refuse
  BY <1>3, StopAtCallKeeps DEF Refuse
<1>4. CASE Deny
  BY <1>4, StopAtCallKeeps DEF Deny
<1>5. CASE Execute
  <2> USE <1>5 DEF Execute, Handling
  <2>1. GuardsHold' /\ ran' \in Seq([index : Nat, at : Nat, tool : Names]) /\ approved' \subseteq Nat \X Nat
    BY RunKeepsGuards
  <2>2. Call \in Names /\ StepTokens \in Nat
    BY DEF AgentInv, TypeOK, Call, StepTokens
  <2>3. TypeOK'
    BY <2>1, <2>2 DEF AgentInv, TypeOK, Record, AgentStep
  <2>4. TraceInv'
    <3>1. /\ Len(steps) = Len(ran) /\ steps \in Seq(AgentStep)
          /\ ran \in Seq([index : Nat, at : Nat, tool : Names])
      BY DEF AgentInv, TypeOK, TraceInv
    <3>2. /\ Len(steps') = Len(steps) + 1 /\ Len(ran') = Len(ran) + 1
          /\ DOMAIN steps' = 1..Len(steps) + 1
      BY <3>1, <2>2 DEF Record
    <3>3. ASSUME NEW i \in 1..Len(steps) + 1
          PROVE  steps'[i].outcome = "ran" /\ steps'[i].tool = ran'[i].tool /\ steps'[i].index = ran'[i].index
      <4>1. CASE i = Len(steps) + 1
        BY <4>1, <3>1 DEF Record
      <4>2. CASE i # Len(steps) + 1
        <5>1. i \in DOMAIN steps /\ steps'[i] = steps[i] /\ ran'[i] = ran[i]
          BY <4>2, <3>1 DEF Record
        <5> QED BY <5>1 DEF AgentInv, TraceInv
      <4> QED BY <4>1, <4>2
    <3> QED BY <3>1, <3>2, <3>3 DEF TraceInv
  <2>5. StepsTellTheTruth'
    BY DEF AgentInv, TypeOK, StepsTellTheTruth, Results
  <2>6. AccountInv' /\ OverspendBounded'
    BY DEF AgentInv, AccountInv, OverspendBounded
  <2> QED BY <2>1, <2>3, <2>4, <2>5, <2>6 DEF AgentInv
<1>6. CASE ToolRaises
  <2> USE <1>6 DEF ToolRaises, Handling, Stop
  <2>1. GuardsHold' /\ ran' \in Seq([index : Nat, at : Nat, tool : Names]) /\ approved' \subseteq Nat \X Nat
    BY RunKeepsGuards
  <2>2. TypeOK'
    BY <2>1 DEF AgentInv, TypeOK
  <2>3. TraceInv' /\ StepsTellTheTruth'
    BY DEF TraceInv, StepsTellTheTruth, Results
  <2>4. AccountInv' /\ OverspendBounded'
    BY DEF AgentInv, TypeOK, AccountInv, OverspendBounded
  <2> QED BY <2>1, <2>2, <2>3, <2>4 DEF AgentInv
<1>7. CASE HookRaises
  BY <1>7, RaiseKeeps DEF HookRaises, Handling
<1>8. CASE CloseTurn
  <2> USE <1>8, AgentAssumption DEF CloseTurn, Stop, history, OverBudget, LastIteration, AgentInv
  <2>1. TypeOK'
    BY DEF TypeOK, AccountInv, Results
  <2>2. GuardsHold'
    BY DEF GuardsHold
  <2>3. TraceInv' /\ StepsTellTheTruth'
    BY DEF TraceInv, StepsTellTheTruth, Results, Refused, TypeOK
  <2>4. AccountInv' /\ OverspendBounded'
    BY DEF AccountInv, OverspendBounded, TypeOK
  <2> QED BY <2>1, <2>2, <2>3, <2>4
<1>9. CASE UNCHANGED vars
  BY <1>9 DEF vars, history, AgentInv, TypeOK, GuardsHold, TraceInv, StepsTellTheTruth, Refused,
     AccountInv, OverspendBounded, Results
<1> QED BY <1>1, <1>2, <1>3, <1>4, <1>5, <1>6, <1>7, <1>8, <1>9 DEF Next

(* The invariant holds always.                                              *)
THEOREM AgentInvariant == Spec => []AgentInv
BY AgentInit, AgentStepKeeps, PTL DEF Spec

(* Type correctness, and with it the cap on the iterations.                 *)
THEOREM TypeCorrect == Spec => []TypeOK
BY AgentInvariant, PTL DEF AgentInv

(* No lane ever executes a tool that is not listed, or a dangerous one      *)
(* without the hook's consent to that call.                                 *)
THEOREM GuardsAlwaysHold == Spec => []GuardsHold
BY AgentInvariant, PTL DEF AgentInv

(* The steps of a result are the executed calls in order, and at most one   *)
(* refusal after them.                                                      *)
THEOREM ResultsAreTrails == Spec => []StepsTellTheTruth
BY AgentInvariant, PTL DEF AgentInv

(* The model costs at most one answer more than the budget.                 *)
THEOREM SpendIsBounded == Spec => []OverspendBounded
BY AgentInvariant, PTL DEF AgentInv
=============================================================================
