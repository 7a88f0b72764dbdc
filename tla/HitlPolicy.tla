----------------------------- MODULE HitlPolicy -----------------------------
(***************************************************************************)
(* The tools of the support agent (hitl/agent.py) and what guards them, in *)
(* one conversation that stops for approval and is resumed, perhaps more   *)
(* than once.  The calls of one model turn run concurrently, in threads:   *)
(* a search may taint the run while a discount of the same turn is under   *)
(* way.  HitlSession says which resumes reach the agent; this module says  *)
(* what the agent does with them.                                          *)
(*                                                                         *)
(* Two ways to run it exist.  The harness builds new deps for every run,   *)
(* with an empty directory; a caller of agent.run may pass a directory,    *)
(* and then passes the same deps to every run of the conversation.         *)
(***************************************************************************)
EXTENDS Integers, FiniteSets

CONSTANTS Call,      \* the tool calls the model may make
          Customer,  \* the ids it may name
          Known,     \* the customers of the directory, when there is one
          Amount,    \* the amounts of discounts
          Threshold, \* risk_threshold_usd
          NoOne

ASSUME PolicyAssumption ==
    /\ Known \subseteq Customer /\ NoOne \notin Customer
    /\ Amount \subseteq Nat /\ Threshold \in Nat

VARIABLES directory, \* the customers of HitlDeps.customer_directory
          tainted,   \* HitlDeps.tainted
          heard,     \* customer text is part of the message history
          phase,     \* model, tools, stopped (for approval), over
          want,      \* what each call asks for
          state,     \* how far each call is
          decided    \* what the human said of it

policyVars == <<directory, tainted, heard, phase, want, state, decided>>

Tools  == {"search_customer_context", "apply_discount", "escalate_to_legal"}
CallStates == {"unused", "chosen", "held", "waiting", "looked", "applied", "escalated", "refused", "denied"}

\* informed: customer text was in the context of the turn that made the call.
Nothing == [tool |-> "none", target |-> NoOne, amount |-> 0, informed |-> FALSE]
Wants   == [tool : Tools, target : Customer, amount : Amount, informed : BOOLEAN]

PolicyInit ==
    /\ directory \in {{}, Known}
    /\ tainted = FALSE /\ heard = FALSE /\ phase = "model"
    /\ want = [c \in Call |-> Nothing]
    /\ state = [c \in Call |-> "unused"]
    /\ decided = [c \in Call |-> "none"]

-----------------------------------------------------------------------------
\* The model asks for tool calls; their arguments are its own.

Chosen(w, C) == [c \in Call |-> IF c \in C THEN w[c] ELSE want[c]]

ModelCalls(C) ==
    /\ phase = "model" /\ C # {} /\ \A c \in C : state[c] = "unused"
    /\ \E w \in [C -> Wants] :
          /\ \A c \in C : w[c].informed = heard
          /\ want' = Chosen(w, C)
    /\ state' = [c \in Call |-> IF c \in C THEN "chosen" ELSE state[c]]
    /\ phase' = "tools"
    /\ UNCHANGED <<directory, tainted, heard, decided>>

-----------------------------------------------------------------------------
\* The tools.

Becomes(c, s)  == state' = [state EXCEPT ![c] = s]
CallApproved(c) == decided[c] = "approved"

\* The allow-list holds whatever was approved, but only if there is a list.
KnownRecipient_Approvable(c) == directory = {} \/ want[c].target \in directory \/ CallApproved(c)
KnownRecipient(c) == directory = {} \/ want[c].target \in directory

SearchCustomerContext(c) ==
    /\ want[c].tool = "search_customer_context"
    /\ tainted' = (tainted \/ want[c].target \in directory)
    /\ Becomes(c, "looked")

NeedsApproval(c) == want[c].amount > Threshold \/ tainted

\* The recipient first: a call that is refused is never asked about.
DiscountResult(c) ==
    IF ~KnownRecipient(c) THEN "refused"
    ELSE IF NeedsApproval(c) /\ ~CallApproved(c) THEN "held" ELSE "applied"

ApplyDiscount(c) ==
    /\ want[c].tool = "apply_discount"
    /\ Becomes(c, DiscountResult(c))
    /\ UNCHANGED tainted

\* requires_approval: the body runs for an approved call only.
EscalationResult(c) ==
    IF ~CallApproved(c) THEN "held"
    ELSE IF KnownRecipient(c) THEN "escalated" ELSE "refused"

EscalateToLegal(c) ==
    /\ want[c].tool = "escalate_to_legal"
    /\ Becomes(c, EscalationResult(c))
    /\ UNCHANGED tainted

RunTool(c) ==
    /\ phase = "tools" /\ state[c] = "chosen"
    /\ SearchCustomerContext(c) \/ ApplyDiscount(c) \/ EscalateToLegal(c)
    /\ UNCHANGED <<directory, heard, phase, want, decided>>

\* The results join the history; calls that were held stop the run.
TextReturned == \E c \in Call : state[c] = "looked" /\ want[c].target \in directory

TurnEnds ==
    /\ phase = "tools" /\ \A c \in Call : state[c] # "chosen"
    /\ heard' = TextReturned
    /\ phase' = IF \E c \in Call : state[c] = "held" THEN "stopped" ELSE "model"
    /\ state' = [c \in Call |-> IF state[c] = "held" THEN "waiting" ELSE state[c]]
    /\ UNCHANGED <<directory, tainted, want, decided>>

-----------------------------------------------------------------------------
\* The human decides every waiting call, and may change what an approved one
\* asks for; the next run starts with the history, and with these deps.

DepsTaint_New == FALSE
DepsTaint == IF directory = {} THEN FALSE ELSE tainted

Overrides(A) ==
    {w \in [A -> Wants] : \A c \in A : /\ w[c].tool = want[c].tool
                                       /\ w[c].informed = want[c].informed}

Waiting == {c \in Call : state[c] = "waiting"}

ToRun_Undecided(A) == Waiting
ToRun(A) == A

Resume(A) ==
    /\ phase = "stopped" /\ A \subseteq Waiting
    /\ \E w \in Overrides(A) : want' = Chosen(w, A)
    /\ decided' = [c \in Call |-> IF c \in A THEN "approved"
                                  ELSE IF c \in Waiting THEN "denied" ELSE decided[c]]
    /\ state' = [c \in Call |-> IF c \in ToRun(A) THEN "chosen"
                                ELSE IF c \in Waiting THEN "denied" ELSE state[c]]
    /\ tainted' = DepsTaint
    /\ phase' = "tools"
    /\ UNCHANGED <<directory, heard>>

-----------------------------------------------------------------------------
\* The terminal answer, and every other way a run ends.

\* The output validator sees the plan and what it claims, not what was done.
ApprovalPolicy(plan, claims) == (\E a \in plan : a > Threshold) => claims

\* An answer it rejects goes back to the model.
GiveAnswer ==
    /\ phase = "model"
    /\ \E plan \in SUBSET Amount, claims \in BOOLEAN :
          phase' = IF ApprovalPolicy(plan, claims) THEN "over" ELSE "model"
    /\ UNCHANGED <<directory, tainted, heard, want, state, decided>>

\* A model error, the budget, or too many retries of a tool or an answer.
Fails ==
    /\ phase \in {"model", "tools"}
    /\ phase' = "over"
    /\ UNCHANGED <<directory, tainted, heard, want, state, decided>>

PolicyNext ==
    \/ \E C \in SUBSET Call : ModelCalls(C)
    \/ \E c \in Call : RunTool(c)
    \/ TurnEnds
    \/ \E A \in SUBSET Call : Resume(A)
    \/ GiveAnswer \/ Fails

PolicySpec == PolicyInit /\ [][PolicyNext]_policyVars

-----------------------------------------------------------------------------
\* Every variable has its type.
PolicyTypeOK ==
    /\ directory \in {{}, Known}
    /\ tainted \in BOOLEAN /\ heard \in BOOLEAN
    /\ phase \in {"model", "tools", "stopped", "over"}
    /\ want \in [Call -> Wants \cup {Nothing}]
    /\ state \in [Call -> CallStates]
    /\ decided \in [Call -> {"none", "approved", "denied"}]

\* No discount above the threshold, and no discount of any amount that the
\* model chose with customer text in its context, is applied without approval,
\* however many stops and resumes lie between the text and the call; and legal
\* is never asked without one ("sticky taint", X-9b).
NoUnapprovedRisk ==
    \A c \in Call :
        /\ state[c] = "applied" /\ (want[c].amount > Threshold \/ want[c].informed)
              => CallApproved(c)
        /\ state[c] = "escalated" => CallApproved(c)

\* With a directory, nothing is done for a recipient outside it: approving the
\* call does not help, nor does a recipient the human put in himself (X-9a).
OnlyKnownActedOn ==
    \A c \in Call :
        state[c] \in {"applied", "escalated"} /\ directory # {} => want[c].target \in directory

\* What ApprovalGate sees of the conversation, as its only session.
GatePhase == IF phase = "over" THEN "closed"
             ELSE IF phase = "stopped" THEN "open"
             ELSE IF \E c \in Call : decided[c] # "none" THEN "deciding" ELSE "new"

Unsettled(c) == IF state[c] = "waiting" THEN "waiting"
                ELSE IF phase = "over" THEN "void" ELSE "unseen"

GateOf(c) == IF decided[c] = "denied" THEN "denied"
             ELSE IF decided[c] = "none" THEN Unsettled(c)
             ELSE IF state[c] = "chosen" THEN "approved" ELSE "executed"

PolicyGate == INSTANCE ApprovalGate WITH
            Sessions <- {"run"}, Calls <- Call,
            phase <- [s \in {"run"} |-> GatePhase],
            gate  <- [s \in {"run"} |-> [c \in Call |-> GateOf(c)]]

\* The agent keeps the promise of the approval gate: a call is decided once and
\* after it was asked for, only an approved call runs, once, and a new round
\* starts only when the last one is settled.
PolicyKeepsGate == PolicyGate!Spec
=============================================================================
