---------------------------- MODULE ApprovalGate ----------------------------
(***************************************************************************)
(* What a stop / approve / resume service promises, without HTTP, a store  *)
(* or an agent: a session asks for decisions in rounds; each call is       *)
(* decided at most once, only an approved call is executed, and once; a    *)
(* new round starts only after every call of the last one was settled; a   *)
(* closed session never opens again.                                       *)
(***************************************************************************)
CONSTANTS Sessions, Calls

VARIABLES
  phase,  \* of each session: "new", "open", "deciding" or "closed"
  gate    \* of each call: "unseen", "waiting", "approved", "denied", "executed"
          \* or "void" (its session closed before it was decided)

gvars == <<phase, gate>>

Init ==
  /\ phase = [s \in Sessions |-> "new"]
  /\ gate  = [s \in Sessions |-> [k \in Calls |-> "unseen"]]

\* A session stops at the calls K; nothing of an earlier round is left over.
Ask(s, K) ==
  /\ phase[s] \in {"new", "deciding"}
  /\ K # {}
  /\ \A k \in K : gate[s][k] = "unseen"
  /\ \A k \in Calls : gate[s][k] \notin {"waiting", "approved"}
  /\ phase' = [phase EXCEPT ![s] = "open"]
  /\ gate'  = [gate EXCEPT ![s] = [k \in Calls |-> IF k \in K THEN "waiting" ELSE @[k]]]

\* Decisions arrive: the calls A are approved and the calls R are denied.
Decide(s, A, R) ==
  /\ phase[s] = "open"
  /\ A \cup R # {} /\ A \cap R = {}
  /\ \A k \in A \cup R : gate[s][k] = "waiting"
  /\ phase' = [phase EXCEPT ![s] = "deciding"]
  /\ gate'  = [gate EXCEPT ![s] = [k \in Calls |-> IF k \in A THEN "approved"
                                                   ELSE IF k \in R THEN "denied" ELSE @[k]]]

Execute(s, k) ==
  /\ phase[s] = "deciding"
  /\ gate[s][k] = "approved"
  /\ gate' = [gate EXCEPT ![s][k] = "executed"]
  /\ UNCHANGED phase

\* The sessions in S end, for whatever reason; a crash ends them all.
Close(S) ==
  /\ S # {}
  /\ \A s \in S : phase[s] # "closed"
  /\ phase' = [s \in Sessions |-> IF s \in S THEN "closed" ELSE phase[s]]
  /\ gate'  = [s \in Sessions |-> IF s \in S
                 THEN [k \in Calls |-> IF gate[s][k] \in {"unseen", "waiting"}
                                       THEN "void" ELSE gate[s][k]]
                 ELSE gate[s]]

Next ==
  \/ \E s \in Sessions :
       \/ \E K \in SUBSET Calls : Ask(s, K)
       \/ \E A, R \in SUBSET Calls : Decide(s, A, R)
       \/ \E k \in Calls : Execute(s, k)
  \/ \E S \in SUBSET Sessions : Close(S)

Spec == Init /\ [][Next]_gvars
=============================================================================
