----------------------------- MODULE HitlProofs -----------------------------
(***************************************************************************)
(* Proofs about the two modules of the approval system: HitlSession, for   *)
(* any number of clients, sessions, calls and any request limit, and then  *)
(* HitlPolicy, for any calls, customers, directory, amounts and threshold. *)
(* Each implements ApprovalGate.                                           *)
(***************************************************************************)
EXTENDS HitlSession, HitlPolicy, TLAPS

USE LimitAssumption, NoSessionAssumption

(***************************************************************************)
(* A set of new call ids and a usage that was just counted make a record.  *)
(***************************************************************************)
LEMMA NewRecordType ==
  ASSUME NEW K \in SUBSET Calls, NEW u \in 0..RequestLimit, NEW h \in SUBSET Calls
  PROVE  NewRecord(K, u, h) \in Record
BY DEF NewRecord, Record, States

\* Claiming, releasing and consuming keep a record a record.
LEMMA TransitionType ==
  ASSUME NEW rec \in Record
  PROVE  Claim(rec) \in Record /\ Release(rec) \in Record /\ Consume(rec) \in Record
BY DEF Claim, Release, Consume, Record, States

\* The initial handler and the missing record are well typed.
LEMMA IdleType == Idle \in Handler /\ Absent \in Record
BY DEF Idle, Handler, Absent, Record, States

\* A handler whose list of approved calls changes is still a handler.
LEMMA TodoUpdateType ==
  ASSUME NEW h \in Handler, NEW T \in SUBSET Calls
  PROVE  [h EXCEPT !.todo = T] \in Handler
BY DEF Handler

\* A handler whose ungated tools start or return is still a handler.
LEMMA LookingUpdateType ==
  ASSUME NEW h \in Handler, NEW b \in BOOLEAN
  PROVE  [h EXCEPT !.looking = b] \in Handler
BY DEF Handler

\* A handler that counted a request within the limit is still a handler.
LEMMA RequestUpdateType ==
  ASSUME NEW h \in Handler, NEW u \in 0..RequestLimit
  PROVE  [h EXCEPT !.usage = u, !.looking = TRUE] \in Handler
BY DEF Handler

-----------------------------------------------------------------------------
(***************************************************************************)
(* Every step keeps the variables' shape.                                  *)
(***************************************************************************)
LEMMA TypeStep == ASSUME TypeOK, [Next]_vars PROVE TypeOK'
<1> USE DEF TypeOK
<1>1. ASSUME NEW c \in Clients, StartRun(c) PROVE TypeOK'
  <2>1. [Idle EXCEPT !.phase = "running"] \in Handler
    BY IdleType DEF Handler
  <2> QED BY <1>1, <2>1 DEF StartRun
<1>2. ASSUME NEW c \in Clients, NEW s \in Sessions, RejectUnclaimable(c, s) PROVE TypeOK'
  BY <1>2 DEF RejectUnclaimable, vars
<1>3. ASSUME NEW c \in Clients, NEW s \in Sessions, NEW D \in Decisions,
             RejectOutsider(c, s, D)
      PROVE  TypeOK'
  BY <1>3, TransitionType DEF RejectOutsider
<1>4. ASSUME NEW c \in Clients, NEW s \in Sessions, NEW D \in Decisions,
             AcceptResume(c, s, D)
      PROVE  TypeOK'
  <2>1. records' \in [Sessions -> Record]
    BY <1>4, TransitionType DEF AcceptResume
  <2>2. approvals' \in [Sessions -> [Calls -> Nat]] /\ denials' \in [Sessions -> [Calls -> Nat]]
    BY <1>4 DEF AcceptResume
  <2>3. handler' \in [Clients -> Handler]
    <3>1. ToExecute(D) \in SUBSET Calls /\ CarriedUsage(s) \in 0..RequestLimit
          /\ records[s].history \in SUBSET Calls
      BY DEF ToExecute, ApprovedBy, Decisions, CarriedUsage, Record
    <3> QED BY <1>4, <3>1 DEF AcceptResume, Handler
  <2> QED BY <1>4, <2>1, <2>2, <2>3 DEF AcceptResume
<1>5. ASSUME NEW c \in Clients, NEW k \in Calls, ExecuteApproved(c, k) PROVE TypeOK'
  <2>1. handler' \in [Clients -> Handler]
    <3>1. handler[c].todo \ {k} \in SUBSET Calls
      BY DEF Handler
    <3>2. handler' = [handler EXCEPT ![c] = [handler[c] EXCEPT !.todo = handler[c].todo \ {k}]]
      BY <1>5 DEF ExecuteApproved
    <3> QED BY <3>1, <3>2, TodoUpdateType
  <2>2. executed' \in [Sessions -> [Calls -> Nat]]
    <3> DEFINE s == handler[c].session
    <3>1. CASE s \in Sessions
      <4>1. [executed[s] EXCEPT ![k] = @ + 1] \in [Calls -> Nat]
        BY <3>1
      <4>2. executed' = [executed EXCEPT ![s] = [executed[s] EXCEPT ![k] = @ + 1]]
        BY <1>5 DEF ExecuteApproved
      <4> HIDE DEF s
      <4> QED BY <3>1, <4>1, <4>2
    <3>2. CASE s \notin Sessions
      BY <1>5, <3>2 DEF ExecuteApproved
    <3> QED BY <3>1, <3>2
  <2> QED BY <1>5, <2>1, <2>2 DEF ExecuteApproved
<1>6. ASSUME NEW c \in Clients, CanRequest(c) PROVE CountRequest(handler[c].usage) \in 0..RequestLimit
  BY <1>6 DEF CanRequest, CountRequest, Handler
<1>7. ASSUME NEW c \in Clients, ModelContinues(c) \/ UngatedToolsReturn(c) PROVE TypeOK'
  <2>1. CASE ModelContinues(c)
    <3> DEFINE u == CountRequest(handler[c].usage)
               h == [handler[c] EXCEPT !.usage = u, !.looking = TRUE]
    <3>1. u \in 0..RequestLimit
      BY <1>6, <2>1 DEF ModelContinues
    <3>2. handler' = [handler EXCEPT ![c] = h]
      BY <2>1 DEF ModelContinues
    <3> HIDE DEF u
    <3>3. h \in Handler
      BY <3>1, RequestUpdateType
    <3> QED BY <2>1, <3>2, <3>3 DEF ModelContinues
  <2>2. CASE UngatedToolsReturn(c)
    <3>1. [handler[c] EXCEPT !.looking = FALSE] \in Handler
      BY LookingUpdateType
    <3>2. handler' = [handler EXCEPT ![c] = [handler[c] EXCEPT !.looking = FALSE]]
      BY <2>2 DEF UngatedToolsReturn
    <3> QED BY <2>2, <3>1, <3>2 DEF UngatedToolsReturn
  <2> QED BY <1>7, <2>1, <2>2
<1>8. ASSUME NEW c \in Clients PROVE [handler EXCEPT ![c] = Idle] \in [Clients -> Handler]
  BY IdleType
<1>9. ASSUME NEW c \in Clients, ModelFinishes(c) PROVE TypeOK'
  <2>1. CountRequest(handler[c].usage) \in 0..RequestLimit /\ handler[c].history \in SUBSET Calls
    BY <1>6, <1>9 DEF ModelFinishes, Handler
  <2>2. Consume(NewRecord({}, CountRequest(handler[c].usage), handler[c].history)) \in Record
    BY <2>1, NewRecordType, TransitionType
  <2> QED BY <1>8, <1>9, <2>2, TransitionType DEF ModelFinishes, Answer
<1>10. ASSUME NEW c \in Clients, NEW K \in SUBSET Calls, ModelDefers(c, K) PROVE TypeOK'
  <2>1. CountRequest(handler[c].usage) \in 0..RequestLimit /\ handler[c].history \in SUBSET Calls
    BY <1>6, <1>10 DEF ModelDefers, Handler
  <2>2. NewRecord(K, CountRequest(handler[c].usage), handler[c].history \cup K) \in Record
    BY <2>1, NewRecordType
  <2> QED BY <1>8, <1>10, <2>2 DEF ModelDefers, SettlePending, Answer
<1>11. ASSUME NEW c \in Clients, BudgetExceeded(c) PROVE TypeOK'
  BY <1>8, <1>11, TransitionType DEF BudgetExceeded, Answer
<1>12. ASSUME NEW c \in Clients, RunFails(c) PROVE TypeOK'
  BY <1>8, <1>12 DEF RunFails, Answer
<1>13. CASE Restart
  BY <1>13, IdleType DEF Restart
<1>14. CASE UNCHANGED vars
  BY <1>14 DEF vars
<1> QED
  BY <1>1, <1>2, <1>3, <1>4, <1>5, <1>7, <1>9, <1>10, <1>11, <1>12, <1>13, <1>14
  DEF Next, Request, Serve

(***************************************************************************)
(* Type correctness: the store's records, the handlers and the audit       *)
(* counters keep their shape through every request, round and restart.     *)
(***************************************************************************)
THEOREM TypeCorrect == Spec => []TypeOK
<1>1. Init => TypeOK
  BY IdleType DEF Init, TypeOK
<1>2. TypeOK /\ [Next]_vars => TypeOK'
  BY TypeStep
<1> QED BY <1>1, <1>2, PTL DEF Spec

-----------------------------------------------------------------------------
(***************************************************************************)
(* An answered handler stops running; the others are not disturbed.        *)
(***************************************************************************)
LEMMA AnswerEffect ==
  ASSUME TypeOK, NEW c \in Clients, Answer(c)
  PROVE  \A d \in Clients :
           /\ d # c => handler'[d] = handler[d]
           /\ \A s \in Sessions : Running(d, s)' <=> d # c /\ Running(d, s)
BY DEF TypeOK, Answer, Running, Idle

(***************************************************************************)
(* The steps that only move a handler inside agent.run, or start a /run,   *)
(* neither start nor stop a run on a session, keep its history and can     *)
(* only shrink what it has to execute.                                     *)
(***************************************************************************)
LEMMA InnerEffect ==
  ASSUME TypeOK, NEW c \in Clients,
         \/ StartRun(c) \/ ModelContinues(c) \/ UngatedToolsReturn(c)
         \/ \E k \in Calls : ExecuteApproved(c, k)
  PROVE  /\ UNCHANGED <<records, issued, approvals, denials>>
         /\ \A d \in Clients, s \in Sessions :
              /\ Running(d, s)' <=> Running(d, s)
              /\ Running(d, s) => /\ handler'[d].history = handler[d].history
                                  /\ handler'[d].todo \subseteq handler[d].todo
<1>1. CASE StartRun(c)
  BY <1>1, NoSessionAssumption DEF TypeOK, StartRun, Running, Idle
<1>2. CASE ModelContinues(c)
  BY <1>2 DEF TypeOK, ModelContinues, Running, Handler
<1>3. CASE UngatedToolsReturn(c)
  BY <1>3 DEF TypeOK, UngatedToolsReturn, Running, Handler
<1>4. ASSUME NEW k \in Calls, ExecuteApproved(c, k)
      PROVE  /\ UNCHANGED <<records, issued, approvals, denials>>
             /\ \A d \in Clients, s \in Sessions :
                  /\ Running(d, s)' <=> Running(d, s)
                  /\ Running(d, s) => /\ handler'[d].history = handler[d].history
                                      /\ handler'[d].todo \subseteq handler[d].todo
  BY <1>4 DEF TypeOK, ExecuteApproved, Running, Handler
<1> QED BY <1>1, <1>2, <1>3, <1>4

(***************************************************************************)
(* A step that changes no record and no counter, and only ends runs or     *)
(* shrinks their work, keeps the invariant.                                *)
(***************************************************************************)
LEMMA QuietStep ==
  ASSUME SessionInv, TypeOK',
         UNCHANGED <<records, issued, approvals, denials, executed>>,
         \A d \in Clients, s \in Sessions :
           Running(d, s)' => /\ Running(d, s)
                             /\ handler'[d].history = handler[d].history
                             /\ handler'[d].todo \subseteq handler[d].todo
  PROVE  SessionInv'
<1>1. OneResumePerSession'
  BY DEF SessionInv, OneResumePerSession, Claimed
<1>2. (\A s \in Sessions \ issued : Untouched(s))'
  BY DEF SessionInv, Untouched, Claimed, Undecided
<1>3. HistoryKnowsCalls'
  BY DEF SessionInv, HistoryKnowsCalls, Undecided
<1>4. RunMatchesSession'
  BY DEF SessionInv, RunMatchesSession
<1>5. (DecidedOnce /\ ExecutedOnlyAsApproved /\ PendingIsUndecided)'
  BY DEF SessionInv, DecidedOnce, ExecutedOnlyAsApproved, PendingIsUndecided, Undecided
<1> QED BY <1>1, <1>2, <1>3, <1>4, <1>5 DEF SessionInv

(***************************************************************************)
(* Running an approved call uses up its one approval.                      *)
(***************************************************************************)
LEMMA ExecuteStep ==
  ASSUME SessionInv, TypeOK', NEW c \in Clients, NEW k \in Calls, ExecuteApproved(c, k)
  PROVE  SessionInv'
<1> DEFINE s0 == handler[c].session
<1>0. TypeOK
  BY DEF SessionInv
<1>1. /\ UNCHANGED <<records, issued, approvals, denials>>
      /\ \A d \in Clients, s \in Sessions :
           /\ Running(d, s)' <=> Running(d, s)
           /\ Running(d, s) => /\ handler'[d].history = handler[d].history
                               /\ handler'[d].todo \subseteq handler[d].todo
  BY <1>0, InnerEffect
<1>2. k \in handler[c].todo /\ k \notin handler'[c].todo
  BY <1>0 DEF ExecuteApproved, TypeOK, Handler
<1>3. \A s \in Sessions, j \in Calls :
        executed'[s][j] = IF s = s0 /\ j = k THEN executed[s][j] + 1 ELSE executed[s][j]
  BY <1>0 DEF ExecuteApproved, TypeOK
<1>4. s0 \in Sessions =>
        /\ Running(c, s0) /\ Claimed(s0)
        /\ approvals[s0][k] = 1 /\ executed[s0][k] = 0
        /\ records[s0].state = "in_flight"
  BY <1>0, <1>2 DEF ExecuteApproved, Progressing, Running, Claimed, SessionInv, RunMatchesSession,
                    OneResumePerSession
<1> HIDE DEF s0
<1>5. OneResumePerSession' /\ DecidedOnce'
  BY <1>1 DEF SessionInv, OneResumePerSession, Claimed, DecidedOnce
<1>6. ExecutedOnlyAsApproved'
  <2> SUFFICES ASSUME NEW s \in Sessions, NEW j \in Calls PROVE executed'[s][j] <= approvals'[s][j]
    BY DEF ExecutedOnlyAsApproved
  <2>1. CASE s = s0 /\ j = k
    BY <1>1, <1>3, <1>4, <2>1
  <2>2. CASE ~(s = s0 /\ j = k)
    BY <1>1, <1>3, <2>2 DEF SessionInv, ExecutedOnlyAsApproved
  <2> QED BY <2>1, <2>2
<1>7. PendingIsUndecided'
  <2> SUFFICES ASSUME NEW s \in Sessions, records[s].state = "pending"
               PROVE  /\ records[s].pending # {}
                      /\ \A j \in records[s].pending : Undecided(s, j)'
    BY <1>1 DEF PendingIsUndecided
  <2>1. s # s0 /\ records[s].pending \subseteq Calls
    BY <1>0, <1>4 DEF TypeOK, Record
  <2> QED BY <1>1, <1>3, <2>1 DEF SessionInv, PendingIsUndecided, Undecided
<1>8. (\A s \in Sessions \ issued : Untouched(s))'
  BY <1>1, <1>3, <1>4 DEF SessionInv, Untouched, Claimed, Undecided
<1>9. HistoryKnowsCalls'
  BY <1>1, <1>3, <1>4 DEF SessionInv, HistoryKnowsCalls, Undecided
<1>10. RunMatchesSession'
  <2> SUFFICES ASSUME NEW d \in Clients, NEW s \in Sessions, Running(d, s)'
               PROVE  /\ handler'[d].history = records'[s].history
                      /\ \A j \in handler'[d].todo : approvals'[s][j] = 1 /\ executed'[s][j] = 0
    BY DEF RunMatchesSession
  <2>1. Running(d, s) /\ handler'[d].todo \subseteq handler[d].todo
    BY <1>1
  <2>2. s = s0 => d = c
    BY <1>4, <2>1 DEF SessionInv, OneResumePerSession
  <2>3. \A j \in handler[d].todo : j \in Calls /\ approvals[s][j] = 1 /\ executed[s][j] = 0
    BY <1>0, <2>1 DEF SessionInv, RunMatchesSession, TypeOK, Handler
  <2> QED BY <1>1, <1>2, <1>3, <2>1, <2>2, <2>3 DEF SessionInv, RunMatchesSession
<1> QED BY <1>5, <1>6, <1>7, <1>8, <1>9, <1>10 DEF SessionInv

(***************************************************************************)
(* Accepting a resume decides calls that were undecided and makes its      *)
(* handler the only one on the session.                                    *)
(***************************************************************************)
LEMMA AcceptStep ==
  ASSUME SessionInv, TypeOK', NEW c \in Clients, NEW s0 \in Sessions, NEW D \in Decisions,
         AcceptResume(c, s0, D)
  PROVE  SessionInv'
<1>0. TypeOK /\ records[s0].state = "pending" /\ handler[c].phase = "idle"
  BY DEF SessionInv, AcceptResume, Claimable
<1>1. \A s \in Sessions : s # s0 => records'[s] = records[s]
  BY <1>0 DEF AcceptResume, TypeOK
<1>2. /\ records'[s0].state = "in_flight"
      /\ records'[s0].pending = records[s0].pending
      /\ records'[s0].history = records[s0].history
  BY <1>0 DEF AcceptResume, TypeOK, Claim, Record
<1>3. \A d \in Clients : d # c => handler'[d] = handler[d]
  BY <1>0 DEF AcceptResume, TypeOK
<1>4. /\ handler'[c].phase = "running" /\ handler'[c].session = s0
      /\ handler'[c].todo = ApprovedBy(D) /\ handler'[c].history = records[s0].history
  BY <1>0 DEF AcceptResume, TypeOK, ToExecute
<1>5. DOMAIN D \subseteq records[s0].pending /\ DOMAIN D \subseteq Calls
  BY DEF AcceptResume, Decisions
<1>6. ApprovedBy(D) \cap DeniedBy(D) = {} /\ ApprovedBy(D) \cup DeniedBy(D) \subseteq DOMAIN D
  BY DEF ApprovedBy, DeniedBy
<1>7. \A s \in Sessions, k \in Calls :
        /\ approvals'[s][k] = approvals[s][k] + (IF s = s0 /\ k \in ApprovedBy(D) THEN 1 ELSE 0)
        /\ denials'[s][k] = denials[s][k] + (IF s = s0 /\ k \in DeniedBy(D) THEN 1 ELSE 0)
  BY <1>0 DEF AcceptResume, TypeOK
<1>8. UNCHANGED <<issued, executed>>
  BY DEF AcceptResume
<1>9. \A k \in DOMAIN D : Undecided(s0, k) /\ k \in records[s0].history
  BY <1>0, <1>5 DEF SessionInv, PendingIsUndecided, HistoryKnowsCalls
<1>10. ~Claimed(s0) /\ ~Running(c, s0) /\ \A s \in Sessions : ~Running(c, s)
  BY <1>0 DEF SessionInv, OneResumePerSession, Running
<1>11. \A d \in Clients, s \in Sessions :
         Running(d, s)' <=> (d = c /\ s = s0) \/ (d # c /\ Running(d, s))
  BY <1>3, <1>4 DEF Running
<1>12. s0 \in issued
  BY <1>0 DEF SessionInv, Untouched, Absent
<1>13. OneResumePerSession'
  BY <1>0, <1>1, <1>2, <1>10, <1>11 DEF SessionInv, OneResumePerSession, Claimed
<1>14. DecidedOnce' /\ ExecutedOnlyAsApproved'
  <2> SUFFICES ASSUME NEW s \in Sessions, NEW k \in Calls
               PROVE  approvals'[s][k] + denials'[s][k] <= 1 /\ executed'[s][k] <= approvals'[s][k]
    BY DEF DecidedOnce, ExecutedOnlyAsApproved
  <2>0. /\ approvals[s][k] \in Nat /\ denials[s][k] \in Nat /\ executed[s][k] \in Nat
        /\ approvals[s][k] + denials[s][k] <= 1 /\ executed[s][k] <= approvals[s][k]
    BY <1>0 DEF SessionInv, DecidedOnce, ExecutedOnlyAsApproved, TypeOK
  <2>1. CASE s = s0 /\ k \in DOMAIN D
    BY <1>6, <1>7, <1>8, <1>9, <2>1 DEF Undecided
  <2>2. CASE ~(s = s0 /\ k \in DOMAIN D)
    <3>1. approvals'[s][k] = approvals[s][k] /\ denials'[s][k] = denials[s][k]
      BY <1>6, <1>7, <2>0, <2>2
    <3> QED BY <1>8, <2>0, <3>1
  <2> QED BY <2>1, <2>2
<1>15. PendingIsUndecided'
  <2> SUFFICES ASSUME NEW s \in Sessions, records'[s].state = "pending"
               PROVE  /\ records'[s].pending # {}
                      /\ \A k \in records'[s].pending : Undecided(s, k)'
    BY DEF PendingIsUndecided
  <2>1. s # s0 /\ records'[s] = records[s] /\ records[s].pending \subseteq Calls
    BY <1>0, <1>1, <1>2 DEF TypeOK, Record
  <2> QED BY <1>0, <1>7, <1>8, <2>1 DEF SessionInv, PendingIsUndecided, Undecided, TypeOK
<1>16. (\A s \in Sessions \ issued : Untouched(s))'
  <2> SUFFICES ASSUME NEW s \in Sessions \ issued PROVE Untouched(s)'
    BY <1>8
  <2>1. s # s0 /\ Untouched(s) /\ records'[s] = records[s]
    BY <1>1, <1>12 DEF SessionInv
  <2>2. ~Claimed(s)'
    BY <1>11, <2>1 DEF Untouched, Claimed
  <2> QED BY <1>0, <1>7, <1>8, <2>1, <2>2 DEF Untouched, Undecided, TypeOK
<1>17. HistoryKnowsCalls'
  <2> SUFFICES ASSUME NEW s \in Sessions, records'[s].state \in {"pending", "in_flight"}
               PROVE  /\ records'[s].pending \subseteq records'[s].history
                      /\ \A k \in Calls \ records'[s].history : Undecided(s, k)'
    BY DEF HistoryKnowsCalls
  <2>1. CASE s = s0
    BY <1>0, <1>2, <1>5, <1>6, <1>7, <1>8, <1>9, <2>1
    DEF SessionInv, HistoryKnowsCalls, Undecided, TypeOK
  <2>2. CASE s # s0
    BY <1>0, <1>1, <1>7, <1>8, <2>2 DEF SessionInv, HistoryKnowsCalls, Undecided, TypeOK
  <2> QED BY <2>1, <2>2
<1>18. RunMatchesSession'
  <2> SUFFICES ASSUME NEW d \in Clients, NEW s \in Sessions, Running(d, s)'
               PROVE  /\ handler'[d].history = records'[s].history
                      /\ \A k \in handler'[d].todo : approvals'[s][k] = 1 /\ executed'[s][k] = 0
    BY DEF RunMatchesSession
  <2>1. CASE d = c /\ s = s0
    BY <1>0, <1>2, <1>4, <1>5, <1>6, <1>7, <1>8, <1>9, <2>1 DEF Undecided, TypeOK
  <2>2. CASE d # c /\ Running(d, s)
    <3>1. s # s0
      BY <1>10, <2>2 DEF Claimed
    <3>2. handler[d].todo \subseteq Calls
      BY <1>0 DEF TypeOK, Handler
    <3> QED BY <1>0, <1>1, <1>3, <1>7, <1>8, <2>2, <3>1, <3>2
            DEF SessionInv, RunMatchesSession, TypeOK
  <2> QED BY <1>11, <2>1, <2>2
<1> QED BY <1>13, <1>14, <1>15, <1>16, <1>17, <1>18 DEF SessionInv

(***************************************************************************)
(* A step that ends c's run, touches no counter, and leaves one session's  *)
(* record consumed or asking for calls its history did not know, keeps the *)
(* invariant.  The session is the one c ran on, or one never issued.       *)
(***************************************************************************)
LEMMA SettleStep ==
  ASSUME SessionInv, TypeOK', NEW c \in Clients, NEW s0 \in Sessions,
         Answer(c), UNCHANGED <<approvals, denials, executed>>,
         Running(c, s0) \/ s0 \notin issued,
         issued' = issued \cup {s0},
         \A s \in Sessions : s # s0 => records'[s] = records[s],
         \/ records'[s0].state = "consumed"
         \/ \E K \in SUBSET Calls :
              /\ K # {} /\ \A k \in K : Undecided(s0, k)
              /\ records'[s0].state = "pending" /\ records'[s0].pending = K
              /\ K \subseteq records'[s0].history
              /\ \A k \in Calls \ records'[s0].history : Undecided(s0, k)
  PROVE  SessionInv'
<1>1. \A d \in Clients :
        /\ d # c => handler'[d] = handler[d]
        /\ \A s \in Sessions : Running(d, s)' <=> d # c /\ Running(d, s)
  BY AnswerEffect DEF SessionInv
<1>2. ~Claimed(s0)'
  BY <1>1 DEF SessionInv, OneResumePerSession, Claimed, Untouched
<1>3. OneResumePerSession'
  BY <1>1, <1>2 DEF SessionInv, OneResumePerSession, Claimed
<1>4. DecidedOnce' /\ ExecutedOnlyAsApproved'
  BY DEF SessionInv, DecidedOnce, ExecutedOnlyAsApproved
<1>5. PendingIsUndecided'
  BY DEF SessionInv, PendingIsUndecided, Undecided
<1>6. (\A s \in Sessions \ issued : Untouched(s))'
  BY <1>1 DEF SessionInv, Untouched, Claimed, Undecided
<1>7. HistoryKnowsCalls'
  BY DEF SessionInv, HistoryKnowsCalls, Undecided
<1>8. RunMatchesSession'
  <2> SUFFICES ASSUME NEW d \in Clients, NEW s \in Sessions, Running(d, s)'
               PROVE  /\ handler'[d].history = records'[s].history
                      /\ \A k \in handler'[d].todo : approvals'[s][k] = 1 /\ executed'[s][k] = 0
    BY DEF RunMatchesSession
  <2>1. d # c /\ Running(d, s) /\ s # s0
    BY <1>1, <1>2 DEF Claimed
  <2> QED BY <1>1, <2>1 DEF SessionInv, RunMatchesSession
<1> QED BY <1>3, <1>4, <1>5, <1>6, <1>7, <1>8 DEF SessionInv

(***************************************************************************)
(* The end of agent.run, seen from the store.  A terminal answer consumes  *)
(* the session it ends or the one /run makes for it; a budget overrun      *)
(* consumes the resumed session, and /run has none to consume.             *)
(***************************************************************************)
LEMMA FinishEffect ==
  ASSUME SessionInv, NEW c \in Clients, ModelFinishes(c) \/ BudgetExceeded(c)
  PROVE  \/ handler[c].session = NoSession /\ UNCHANGED <<records, issued>>
         \/ \E s \in Sessions :
              /\ Running(c, s) \/ s \notin issued
              /\ issued' = issued \cup {s}
              /\ records'[s].state = "consumed"
              /\ \A r \in Sessions : r # s => records'[r] = records[r]
<1>0. TypeOK /\ handler[c].phase = "running"
  BY DEF SessionInv, ModelFinishes, BudgetExceeded, CanRequest, Progressing
<1> DEFINE h == handler[c]
<1>1. CASE h.session = NoSession /\ ModelFinishes(c)
  <2>1. PICK s \in Sessions \ issued :
          /\ records' = [records EXCEPT
                           ![s] = Consume(NewRecord({}, CountRequest(h.usage), h.history))]
          /\ issued' = issued \cup {s}
    BY <1>1 DEF ModelFinishes
  <2>2. records'[s].state = "consumed" /\ \A r \in Sessions : r # s => records'[r] = records[r]
    BY <1>0, <2>1 DEF TypeOK, Consume, NewRecord
  <2> QED BY <2>1, <2>2
<1>2. CASE h.session = NoSession /\ BudgetExceeded(c)
  BY <1>2 DEF BudgetExceeded
<1>3. CASE h.session # NoSession
  <2> DEFINE s == h.session
  <2>1. s \in Sessions /\ Running(c, s) /\ s \in issued
    BY <1>0, <1>3 DEF TypeOK, Handler, Running, SessionInv, Untouched, Claimed
  <2>2. records' = [records EXCEPT ![s] = Consume(@)] /\ issued' = issued
    BY <1>3 DEF ModelFinishes, BudgetExceeded
  <2>3. records'[s].state = "consumed" /\ \A r \in Sessions : r # s => records'[r] = records[r]
    BY <1>0, <2>1, <2>2 DEF TypeOK, Consume, Record
  <2> HIDE DEF s
  <2> QED BY <2>1, <2>2, <2>3
<1> QED BY <1>1, <1>2, <1>3

\* A re-defer settles the session on calls that its history did not know.
LEMMA DeferEffect ==
  ASSUME SessionInv, NEW c \in Clients, NEW K \in SUBSET Calls, ModelDefers(c, K)
  PROVE  /\ K # {}
         /\ \E s \in Sessions :
              /\ Running(c, s) \/ s \notin issued
              /\ issued' = issued \cup {s}
              /\ \A k \in K : Undecided(s, k) /\ k \notin records[s].pending
              /\ records'[s].state = "pending" /\ records'[s].pending = K
              /\ records'[s].usage = handler[c].usage + 1
              /\ K \subseteq records'[s].history
              /\ \A k \in Calls \ records'[s].history : Undecided(s, k)
              /\ \A r \in Sessions : r # s => records'[r] = records[r]
<1>0. TypeOK /\ handler[c].phase = "running" /\ K # {} /\ K \cap handler[c].history = {}
  BY DEF SessionInv, ModelDefers, CanRequest, Progressing
<1> DEFINE h == handler[c]
           u == CountRequest(h.usage)
<1>1. CASE h.session = NoSession
  <2>1. PICK s \in Sessions \ issued :
          /\ records' = [records EXCEPT ![s] = NewRecord(K, u, h.history \cup K)]
          /\ issued' = issued \cup {s}
    BY <1>1 DEF ModelDefers
  <2>2. /\ records'[s].state = "pending" /\ records'[s].pending = K
        /\ records'[s].history = h.history \cup K /\ records'[s].usage = h.usage + 1
        /\ \A r \in Sessions : r # s => records'[r] = records[r]
    BY <1>0, <2>1 DEF TypeOK, NewRecord, CountRequest
  <2>3. records[s].pending = {} /\ \A k \in Calls : Undecided(s, k)
    BY DEF SessionInv, Untouched, Absent
  <2> HIDE DEF h, u
  <2> QED BY <1>0, <2>1, <2>2, <2>3 DEF h
<1>2. CASE h.session # NoSession
  <2> DEFINE s == h.session
  <2>1. s \in Sessions /\ Running(c, s) /\ s \in issued
    BY <1>0, <1>2 DEF TypeOK, Handler, Running, SessionInv, Untouched, Claimed
  <2>2. records' = [records EXCEPT ![s] = SettlePending(@, K, u, h.history \cup K)]
        /\ issued' = issued
    BY <1>2 DEF ModelDefers
  <2>3. /\ records'[s].state = "pending" /\ records'[s].pending = K
        /\ records'[s].history = h.history \cup K /\ records'[s].usage = h.usage + 1
        /\ \A r \in Sessions : r # s => records'[r] = records[r]
    BY <1>0, <2>1, <2>2 DEF TypeOK, SettlePending, NewRecord, CountRequest
  <2>4. records[s].state = "in_flight" /\ h.history = records[s].history
    BY <2>1 DEF SessionInv, OneResumePerSession, RunMatchesSession, Claimed
  <2>5. records[s].pending \subseteq h.history /\ \A k \in Calls \ h.history : Undecided(s, k)
    BY <2>1, <2>4 DEF SessionInv, HistoryKnowsCalls
  <2>6. issued' = issued \cup {s}
    BY <2>1, <2>2
  <2> HIDE DEF s, u
  <2> QED BY <1>0, <2>1, <2>3, <2>5, <2>6
<1> QED BY <1>0, <1>1, <1>2

\* So the end of agent.run keeps the invariant, whichever way it ends.
LEMMA EndStep ==
  ASSUME SessionInv, TypeOK', NEW c \in Clients,
         ModelFinishes(c) \/ BudgetExceeded(c) \/ \E K \in SUBSET Calls : ModelDefers(c, K)
  PROVE  SessionInv'
<1>0. TypeOK /\ Answer(c) /\ UNCHANGED <<approvals, denials, executed>>
  BY DEF SessionInv, ModelFinishes, BudgetExceeded, ModelDefers
<1>1. CASE UNCHANGED <<records, issued>>
  BY <1>0, <1>1, AnswerEffect, QuietStep
<1>2. CASE (ModelFinishes(c) \/ BudgetExceeded(c)) /\ ~UNCHANGED <<records, issued>>
  BY <1>0, <1>2, FinishEffect, SettleStep
<1>3. ASSUME NEW K \in SUBSET Calls, ModelDefers(c, K) PROVE SessionInv'
  BY <1>0, <1>3, DeferEffect, SettleStep
<1> QED BY <1>1, <1>2, <1>3

(***************************************************************************)
(* A restart forgets every record and every run, and no decision.          *)
(***************************************************************************)
LEMMA RestartStep ==
  ASSUME SessionInv, TypeOK', Restart
  PROVE  SessionInv'
<1>1. /\ \A s \in Sessions : records'[s] = Absent
      /\ \A d \in Clients : handler'[d] = Idle
      /\ UNCHANGED <<issued, approvals, denials, executed>>
  BY DEF Restart
<1>2. \A d \in Clients, s \in Sessions : ~Running(d, s)'
  BY <1>1 DEF Running, Idle
<1>3. OneResumePerSession' /\ RunMatchesSession'
  BY <1>2 DEF OneResumePerSession, RunMatchesSession, Claimed
<1>4. DecidedOnce' /\ ExecutedOnlyAsApproved'
  BY <1>1 DEF SessionInv, DecidedOnce, ExecutedOnlyAsApproved
<1>5. PendingIsUndecided' /\ HistoryKnowsCalls'
  BY <1>1 DEF PendingIsUndecided, HistoryKnowsCalls, Absent
<1>6. (\A s \in Sessions \ issued : Untouched(s))'
  BY <1>1, <1>2 DEF SessionInv, Untouched, Claimed, Undecided
<1> QED BY <1>3, <1>4, <1>5, <1>6 DEF SessionInv

-----------------------------------------------------------------------------
(***************************************************************************)
(* The inductive invariant: in every reachable state the audit counters,   *)
(* the store and the running handlers agree with one another.              *)
(***************************************************************************)
THEOREM SessionInvariant == Spec => []SessionInv
<1>1. Init => SessionInv
  <2> SUFFICES ASSUME Init PROVE SessionInv
    OBVIOUS
  <2>1. TypeOK
    BY IdleType DEF Init, TypeOK
  <2>2. \A d \in Clients, s \in Sessions : ~Running(d, s)
    BY DEF Init, Running, Idle
  <2>3. OneResumePerSession /\ RunMatchesSession
    BY <2>2 DEF OneResumePerSession, RunMatchesSession, Claimed
  <2>4. DecidedOnce /\ ExecutedOnlyAsApproved /\ \A s \in Sessions, k \in Calls : Undecided(s, k)
    BY DEF Init, DecidedOnce, ExecutedOnlyAsApproved, Undecided
  <2>5. PendingIsUndecided /\ HistoryKnowsCalls
    BY DEF Init, PendingIsUndecided, HistoryKnowsCalls, Absent
  <2>6. \A s \in Sessions \ issued : Untouched(s)
    BY <2>2, <2>4 DEF Init, Untouched, Claimed
  <2> QED BY <2>1, <2>3, <2>4, <2>5, <2>6 DEF SessionInv
<1>2. SessionInv /\ [Next]_vars => SessionInv'
  <2> SUFFICES ASSUME SessionInv, [Next]_vars PROVE SessionInv'
    OBVIOUS
  <2>0. TypeOK /\ TypeOK'
    BY TypeStep DEF SessionInv
  <2>1. ASSUME NEW c \in Clients,
               StartRun(c) \/ ModelContinues(c) \/ UngatedToolsReturn(c)
        PROVE  SessionInv'
    <3>1. UNCHANGED executed
      BY <2>1 DEF StartRun, ModelContinues, UngatedToolsReturn
    <3> QED BY <2>0, <2>1, <3>1, InnerEffect, QuietStep
  <2>2. ASSUME NEW c \in Clients, NEW k \in Calls, ExecuteApproved(c, k) PROVE SessionInv'
    BY <2>0, <2>2, ExecuteStep
  <2>3. ASSUME NEW c \in Clients, NEW s \in Sessions, NEW D \in Decisions,
               RejectOutsider(c, s, D)
        PROVE  SessionInv'
    <3>1. records' = records
      <4>1. Release(Claim(records[s])) = records[s]
        BY <2>0, <2>3 DEF RejectOutsider, Claimable, Release, Claim, TypeOK, Record
      <4> QED BY <2>0, <2>3, <4>1 DEF RejectOutsider, TypeOK
    <3>2. UNCHANGED <<handler, issued, approvals, denials, executed>>
      BY <2>3 DEF RejectOutsider
    <3> QED BY <2>0, <3>1, <3>2, QuietStep DEF Running
  <2>4. ASSUME NEW c \in Clients, NEW s \in Sessions, NEW D \in Decisions,
               AcceptResume(c, s, D)
        PROVE  SessionInv'
    BY <2>0, <2>4, AcceptStep
  <2>5. ASSUME NEW c \in Clients, RunFails(c) PROVE SessionInv'
    BY <2>0, <2>5, AnswerEffect, QuietStep DEF RunFails
  <2>6. CASE UNCHANGED vars
    BY <2>0, <2>6, QuietStep DEF vars, Running
  <2>7. ASSUME NEW c \in Clients, NEW s \in Sessions, RejectUnclaimable(c, s) PROVE SessionInv'
    BY <2>6, <2>7 DEF RejectUnclaimable
  <2> QED
    BY <2>0, <2>1, <2>2, <2>3, <2>4, <2>5, <2>6, <2>7, EndStep, RestartStep
    DEF Next, Request, Serve
<1> QED BY <1>1, <1>2, PTL DEF Spec

(***************************************************************************)
(* What the service owes its callers in every state: one resume at a time, *)
(* one decision per call, execution only as approved and audited, and a    *)
(* pending set that no earlier decision can hit.                           *)
(***************************************************************************)
THEOREM ApprovalSafety ==
  Spec => [](OneResumePerSession /\ DecidedOnce /\ ExecutedOnlyAsApproved /\ PendingIsUndecided)
<1>1. SessionInv => OneResumePerSession /\ DecidedOnce /\ ExecutedOnlyAsApproved
                    /\ PendingIsUndecided
  BY DEF SessionInv
<1> QED BY <1>1, SessionInvariant, PTL

(***************************************************************************)
(* In particular: over all rounds, retries and races of a session no call  *)
(* is decided twice (the claim and the check of app.py).                   *)
(***************************************************************************)
THEOREM OneDecisionPerCall == Spec => []DecidedOnce
  BY ApprovalSafety, PTL

(***************************************************************************)
(* And no call runs that was denied or never decided, however often its    *)
(* session was stopped and resumed.  (app.py:249-272)                      *)
(***************************************************************************)
THEOREM NothingRunsUnapproved == Spec => []ExecutedOnlyAsApproved
  BY ApprovalSafety, PTL

(***************************************************************************)
(* A session that is closed is never claimed or run again, whatever closed *)
(* it: a terminal answer, a budget overrun, an error or a crash.           *)
(***************************************************************************)
THEOREM ClosedForever == Spec => ClosedStaysClosed
<1>1. SessionInv /\ [Next]_vars => [\A s \in issued : ~Open(s) => ~Open(s)']_vars
  <2> SUFFICES ASSUME SessionInv, Next, NEW s \in issued, ~Open(s)
               PROVE  ~Open(s)'
    OBVIOUS
  <2> USE DEF Open
  <2>0. TypeOK /\ s \in Sessions /\ records[s].state # "pending" /\ ~Claimed(s)
    BY DEF SessionInv, TypeOK
  <2>1. ASSUME NEW c \in Clients,
               StartRun(c) \/ ModelContinues(c) \/ UngatedToolsReturn(c)
               \/ \E k \in Calls : ExecuteApproved(c, k)
        PROVE  ~Open(s)'
    BY <2>0, <2>1, InnerEffect DEF Claimed
  <2>2. ASSUME NEW c \in Clients, NEW r \in Sessions, NEW D \in Decisions,
               RejectOutsider(c, r, D) \/ AcceptResume(c, r, D)
        PROVE  ~Open(s)'
    <3>1. s # r /\ records'[s] = records[s]
      BY <2>0, <2>2 DEF RejectOutsider, AcceptResume, Claimable, TypeOK
    <3>2. \A d \in Clients : ~Running(d, s)'
      <4>1. CASE RejectOutsider(c, r, D)
        BY <2>0, <4>1 DEF RejectOutsider, Running, Claimed
      <4>2. CASE AcceptResume(c, r, D)
        <5>1. \A d \in Clients : d # c => handler'[d] = handler[d]
          BY <2>0, <4>2 DEF AcceptResume, TypeOK
        <5>2. handler'[c].session = r
          BY <2>0, <4>2 DEF AcceptResume, TypeOK
        <5> QED BY <2>0, <3>1, <5>1, <5>2 DEF Running, Claimed
      <4> QED BY <2>2, <4>1, <4>2
    <3> QED BY <2>0, <3>1, <3>2 DEF Claimed
  <2>3. ASSUME NEW c \in Clients,
               ModelFinishes(c) \/ BudgetExceeded(c) \/ RunFails(c)
               \/ \E K \in SUBSET Calls : ModelDefers(c, K)
        PROVE  ~Open(s)'
    <3>1. Answer(c)
      BY <2>3 DEF ModelFinishes, BudgetExceeded, RunFails, ModelDefers
    <3>2. ~Claimed(s)'
      BY <2>0, <3>1, AnswerEffect DEF Claimed
    <3>3. handler[c].session # s
      BY <2>0, <2>3
      DEF ModelFinishes, BudgetExceeded, RunFails, ModelDefers, CanRequest, Progressing,
          Claimed, Running
    <3>4. records'[s] = records[s]
      BY <2>0, <2>3, <3>3 DEF ModelFinishes, BudgetExceeded, RunFails, ModelDefers, TypeOK
    <3> QED BY <2>0, <3>2, <3>4
  <2>4. CASE Restart
    BY <2>0, <2>4 DEF Restart, Absent, Claimed, Running, Idle
  <2>5. ASSUME NEW c \in Clients, NEW r \in Sessions, RejectUnclaimable(c, r) PROVE ~Open(s)'
    BY <2>0, <2>5 DEF RejectUnclaimable, vars, Claimed, Running
  <2> QED BY <2>1, <2>2, <2>3, <2>4, <2>5 DEF Next, Request, Serve
<1> QED BY <1>1, SessionInvariant, PTL DEF Spec, ClosedStaysClosed

(***************************************************************************)
(* The 409 path gives back the session it has claimed: a pending session   *)
(* stops being pending only for a handler that runs it, or for a crash.    *)
(***************************************************************************)
THEOREM PendingKept == Spec => PendingLeavesOnlyByClaim
<1> DEFINE Kept(s) == records[s].state = "pending" /\ records'[s].state # "pending"
                        => Claimed(s)' \/ records'[s].state = "absent"
<1>1. SessionInv /\ [Next]_vars => [\A s \in Sessions : Kept(s)]_vars
  <2> SUFFICES ASSUME SessionInv, Next, NEW s \in Sessions,
                      records[s].state = "pending", records'[s].state # "pending"
               PROVE  Claimed(s)' \/ records'[s].state = "absent"
    OBVIOUS
  <2>0. TypeOK /\ ~Claimed(s) /\ s \in issued
    BY DEF SessionInv, OneResumePerSession, Untouched, Absent
  <2>1. ASSUME NEW c \in Clients, NEW r \in Sessions, NEW D \in Decisions, AcceptResume(c, r, D)
        PROVE  Claimed(s)' \/ records'[s].state = "absent"
    <3>1. s = r
      BY <2>0, <2>1 DEF AcceptResume, TypeOK
    <3> QED BY <2>0, <2>1, <3>1 DEF AcceptResume, Claimed, Running, TypeOK
  <2>2. ASSUME NEW c \in Clients, NEW r \in Sessions, NEW D \in Decisions, RejectOutsider(c, r, D)
        PROVE  FALSE
    BY <2>0, <2>2 DEF RejectOutsider, Release, Claim, TypeOK, Record
  <2>3. ASSUME NEW c \in Clients,
               ModelFinishes(c) \/ BudgetExceeded(c) \/ \E K \in SUBSET Calls : ModelDefers(c, K)
        PROVE  FALSE
    <3>1. handler[c].session # s
      BY <2>0, <2>3
      DEF ModelFinishes, BudgetExceeded, ModelDefers, CanRequest, Progressing, Claimed, Running
    <3> QED BY <2>0, <2>3, <3>1 DEF ModelFinishes, BudgetExceeded, ModelDefers, TypeOK
  <2>4. CASE Restart
    BY <2>4 DEF Restart, Absent
  <2>5. ASSUME NEW c \in Clients, UNCHANGED records PROVE FALSE
    BY <2>5
  <2> QED
    BY <2>1, <2>2, <2>3, <2>4, <2>5
    DEF Next, Request, Serve, StartRun, RejectUnclaimable, ExecuteApproved, ModelContinues,
        UngatedToolsReturn, RunFails, vars
<1> QED BY <1>1, SessionInvariant, PTL DEF Spec, PendingLeavesOnlyByClaim

-----------------------------------------------------------------------------
(***************************************************************************)
(* Rounds.  A step that changes no record and no counter, and only ends    *)
(* runs or counts requests in them, keeps what is true of rounds.          *)
(***************************************************************************)
LEMMA RoundQuiet ==
  ASSUME SessionInv, RoundInv, UNCHANGED <<records, approvals, denials, executed>>,
         \A d \in Clients, s \in Sessions :
           Running(d, s)' => /\ Running(d, s)
                             /\ handler'[d].todo = handler[d].todo
                             /\ handler'[d].whole = handler[d].whole
                             /\ handler'[d].usage >= handler[d].usage
                             /\ handler'[d].usage \in Nat
  PROVE  RoundInv'
<1>1. \A s \in Sessions : records'[s].state = "pending" => ApprovedHaveRun(s)'
  BY DEF RoundInv, ApprovedHaveRun
<1>2. ASSUME NEW d \in Clients, NEW s \in Sessions, Running(d, s)' PROVE RunCompletesRound(d, s)'
  <2>1. RunCompletesRound(d, s) /\ handler[d].usage \in Nat /\ records[s].usage \in Nat
    BY <1>2 DEF RoundInv, SessionInv, TypeOK, Handler, Record
  <2> QED BY <1>2, <2>1 DEF RunCompletesRound, Undecided
<1> QED BY <1>1, <1>2 DEF RoundInv

\* The run that executes an approved call still has the other ones to execute.
LEMMA RoundExecute ==
  ASSUME SessionInv, RoundInv, NEW c \in Clients, NEW k \in Calls, ExecuteApproved(c, k)
  PROVE  RoundInv'
<1> DEFINE s0 == handler[c].session
<1>0. TypeOK
  BY DEF SessionInv
<1>1. /\ UNCHANGED <<records, issued, approvals, denials>>
      /\ \A d \in Clients, s \in Sessions : Running(d, s)' <=> Running(d, s)
  BY <1>0, InnerEffect
<1>2. /\ handler'[c].todo = handler[c].todo \ {k}
      /\ \A d \in Clients : /\ d # c => handler'[d] = handler[d]
                            /\ handler'[d].whole = handler[d].whole
                            /\ handler'[d].usage = handler[d].usage
  BY <1>0 DEF ExecuteApproved, TypeOK, Handler
<1>3. \A s \in Sessions, j \in Calls :
        executed'[s][j] = IF s = s0 /\ j = k THEN executed[s][j] + 1 ELSE executed[s][j]
  BY <1>0 DEF ExecuteApproved, TypeOK
<1>4. s0 \in Sessions =>
        /\ Running(c, s0) /\ Claimed(s0) /\ records[s0].state = "in_flight"
        /\ approvals[s0][k] = 1 /\ executed[s0][k] = 0
  BY <1>0 DEF ExecuteApproved, Progressing, Running, Claimed, SessionInv, RunMatchesSession,
              OneResumePerSession
<1> HIDE DEF s0
<1>5. \A s \in Sessions : records'[s].state = "pending" => ApprovedHaveRun(s)'
  <2> SUFFICES ASSUME NEW s \in Sessions, records[s].state = "pending" PROVE ApprovedHaveRun(s)'
    BY <1>1
  <2>1. s # s0
    BY <1>4
  <2> QED BY <1>1, <1>3, <2>1 DEF RoundInv, ApprovedHaveRun
<1>6. ASSUME NEW d \in Clients, NEW s \in Sessions, Running(d, s)' PROVE RunCompletesRound(d, s)'
  <2>1. Running(d, s) /\ RunCompletesRound(d, s)
    BY <1>1, <1>6 DEF RoundInv
  <2>2. d = c <=> s = s0
    BY <1>4, <2>1 DEF SessionInv, OneResumePerSession, Running, s0
  <2>3. \A j \in Calls \ handler'[d].todo : approvals'[s][j] = executed'[s][j]
    <3>1. CASE d = c
      BY <1>1, <1>2, <1>3, <1>4, <2>1, <2>2, <3>1 DEF RunCompletesRound
    <3>2. CASE d # c
      BY <1>1, <1>2, <1>3, <2>1, <2>2, <3>2 DEF RunCompletesRound
    <3> QED BY <3>1, <3>2
  <2>4. handler'[d].whole => \A j \in records'[s].pending : ~Undecided(s, j)'
    <3> SUFFICES ASSUME handler[d].whole, NEW j \in records[s].pending PROVE ~Undecided(s, j)'
      BY <1>1, <1>2
    <3>1. j \in Calls /\ ~Undecided(s, j) /\ executed[s][j] \in Nat
      BY <1>0, <2>1 DEF RunCompletesRound, TypeOK, Record
    <3> QED BY <1>1, <1>3, <3>1 DEF Undecided
  <2>5. handler'[d].usage >= records'[s].usage
    BY <1>1, <1>2, <2>1 DEF RunCompletesRound
  <2> QED BY <2>3, <2>4, <2>5 DEF RunCompletesRound
<1> QED BY <1>5, <1>6 DEF RoundInv

\* An accepted resume has to execute what it approves, and nothing else waits.
LEMMA RoundAccept ==
  ASSUME SessionInv, RoundInv, NEW c \in Clients, NEW s0 \in Sessions, NEW D \in Decisions,
         AcceptResume(c, s0, D)
  PROVE  RoundInv'
<1>0. TypeOK /\ records[s0].state = "pending" /\ ~Claimed(s0)
  BY DEF SessionInv, AcceptResume, Claimable, OneResumePerSession
<1>1. /\ \A s \in Sessions : s # s0 => records'[s] = records[s]
      /\ records'[s0].state = "in_flight" /\ records'[s0].pending = records[s0].pending
      /\ records'[s0].usage = records[s0].usage
  BY <1>0 DEF AcceptResume, TypeOK, Claim, Record
<1>2. /\ \A d \in Clients : d # c => handler'[d] = handler[d]
      /\ handler'[c].session = s0 /\ handler'[c].todo = ApprovedBy(D)
      /\ handler'[c].whole = (DOMAIN D = records[s0].pending)
      /\ handler'[c].usage = records[s0].usage
  BY <1>0 DEF AcceptResume, TypeOK, ToExecute, CarriedUsage
<1>3. \A s \in Sessions, k \in Calls :
        /\ approvals'[s][k] = approvals[s][k] + (IF s = s0 /\ k \in ApprovedBy(D) THEN 1 ELSE 0)
        /\ denials'[s][k] = denials[s][k] + (IF s = s0 /\ k \in DeniedBy(D) THEN 1 ELSE 0)
  BY <1>0 DEF AcceptResume, TypeOK
<1>4. /\ UNCHANGED executed /\ DOMAIN D \subseteq Calls
      /\ DOMAIN D \subseteq ApprovedBy(D) \cup DeniedBy(D)
  BY DEF AcceptResume, Decisions, ApprovedBy, DeniedBy, Verdicts
<1>5. ApprovedHaveRun(s0)
  BY <1>0 DEF RoundInv
<1>6. \A s \in Sessions : records'[s].state = "pending" => ApprovedHaveRun(s)'
  <2> SUFFICES ASSUME NEW s \in Sessions, records'[s].state = "pending" PROVE ApprovedHaveRun(s)'
    OBVIOUS
  <2>1. s # s0 /\ ApprovedHaveRun(s)
    BY <1>1 DEF RoundInv
  <2> QED BY <1>0, <1>3, <1>4, <2>1 DEF ApprovedHaveRun, TypeOK
<1>7. ASSUME NEW d \in Clients, NEW s \in Sessions, Running(d, s)' PROVE RunCompletesRound(d, s)'
  <2>1. CASE d = c
    <3>1. s = s0
      BY <1>2, <1>7, <2>1 DEF Running
    <3>2. \A k \in Calls \ ApprovedBy(D) : approvals'[s0][k] = executed'[s0][k]
      BY <1>0, <1>3, <1>4, <1>5 DEF ApprovedHaveRun, TypeOK
    <3>3. \A k \in DOMAIN D : ~Undecided(s0, k)'
      <4> SUFFICES ASSUME NEW k \in DOMAIN D PROVE approvals'[s0][k] > 0 \/ denials'[s0][k] > 0
        BY DEF Undecided
      <4>1. k \in Calls /\ approvals[s0][k] \in Nat /\ denials[s0][k] \in Nat
        BY <1>0, <1>4 DEF TypeOK
      <4> QED BY <1>3, <1>4, <4>1
    <3>4. handler'[c].usage >= records'[s0].usage
      BY <1>0, <1>1, <1>2 DEF TypeOK, Record
    <3> QED BY <1>1, <1>2, <2>1, <3>1, <3>2, <3>3, <3>4 DEF RunCompletesRound
  <2>2. CASE d # c
    <3>1. Running(d, s) /\ s # s0 /\ RunCompletesRound(d, s)
      BY <1>0, <1>2, <1>7, <2>2 DEF Running, Claimed, RoundInv
    <3>2. \A k \in Calls : approvals'[s][k] = approvals[s][k] /\ denials'[s][k] = denials[s][k]
      BY <1>0, <1>3, <3>1 DEF TypeOK
    <3>3. records[s].pending \subseteq Calls
      BY <1>0 DEF TypeOK, Record
    <3> QED BY <1>1, <1>2, <1>4, <2>2, <3>1, <3>2, <3>3 DEF RunCompletesRound, Undecided
  <2> QED BY <2>1, <2>2
<1> QED BY <1>6, <1>7 DEF RoundInv

\* A session is only asked to wait again once all that was approved has run.
LEMMA RoundEnd ==
  ASSUME SessionInv, RoundInv, NEW c \in Clients,
         ModelFinishes(c) \/ BudgetExceeded(c) \/ \E K \in SUBSET Calls : ModelDefers(c, K)
  PROVE  RoundInv'
<1>0. TypeOK /\ Answer(c) /\ UNCHANGED <<approvals, denials, executed>>
  BY DEF SessionInv, ModelFinishes, BudgetExceeded, ModelDefers
<1>1. \A d \in Clients :
        /\ d # c => handler'[d] = handler[d]
        /\ \A s \in Sessions : Running(d, s)' <=> d # c /\ Running(d, s)
  BY <1>0, AnswerEffect
<1>2. CASE UNCHANGED records
  BY <1>0, <1>1, <1>2, RoundQuiet DEF TypeOK, Handler
<1>3. ASSUME NEW s0 \in Sessions, Running(c, s0) \/ s0 \notin issued,
             records'[s0].state = "pending" => ApprovedHaveRun(s0),
             \A s \in Sessions : s # s0 => records'[s] = records[s]
      PROVE  RoundInv'
  <2>1. \A s \in Sessions : records'[s].state = "pending" => ApprovedHaveRun(s)'
    BY <1>0, <1>3 DEF RoundInv, ApprovedHaveRun
  <2>2. ASSUME NEW d \in Clients, NEW s \in Sessions, Running(d, s)'
        PROVE  RunCompletesRound(d, s)'
    <3>1. d # c /\ Running(d, s) /\ RunCompletesRound(d, s)
      BY <1>1, <2>2 DEF RoundInv
    <3>2. s # s0
      BY <1>3, <3>1 DEF SessionInv, OneResumePerSession, Untouched, Claimed
    <3> QED BY <1>0, <1>1, <1>3, <3>1, <3>2 DEF RunCompletesRound, Undecided
  <2> QED BY <2>1, <2>2 DEF RoundInv
<1>4. CASE ModelFinishes(c) \/ BudgetExceeded(c)
  BY <1>2, <1>3, <1>4, FinishEffect
<1>5. ASSUME NEW K \in SUBSET Calls, ModelDefers(c, K) PROVE RoundInv'
  <2>1. PICK s \in Sessions :
          /\ Running(c, s) \/ s \notin issued
          /\ \A r \in Sessions : r # s => records'[r] = records[r]
    BY <1>5, DeferEffect
  <2>2. ApprovedHaveRun(s)
    <3>1. CASE Running(c, s)
      <4>1. handler[c].todo = {}
        BY <1>5 DEF ModelDefers, CanRequest
      <4> QED BY <3>1, <4>1 DEF RoundInv, RunCompletesRound, ApprovedHaveRun
    <3>2. CASE s \notin issued
      BY <3>2 DEF SessionInv, Untouched, Undecided, ApprovedHaveRun
    <3> QED BY <2>1, <3>1, <3>2
  <2> QED BY <1>3, <2>1, <2>2
<1> QED BY <1>4, <1>5

(***************************************************************************)
(* In every reachable state the rounds of a session are complete: a        *)
(* session waits only once all that was approved has run.                  *)
(***************************************************************************)
THEOREM RoundInvariant == Spec => []RoundInv
<1>1. Init => RoundInv
  BY DEF Init, RoundInv, Running, Idle, Absent
<1>2. SessionInv /\ RoundInv /\ [Next]_vars => RoundInv'
  <2> SUFFICES ASSUME SessionInv, RoundInv, [Next]_vars PROVE RoundInv'
    OBVIOUS
  <2>0. TypeOK
    BY DEF SessionInv
  <2>1. ASSUME NEW c \in Clients,
               StartRun(c) \/ ModelContinues(c) \/ UngatedToolsReturn(c)
        PROVE  RoundInv'
    <3>1. UNCHANGED <<records, approvals, denials, executed>>
      BY <2>1 DEF StartRun, ModelContinues, UngatedToolsReturn
    <3>2. ASSUME NEW d \in Clients, NEW s \in Sessions, Running(d, s)'
          PROVE  /\ Running(d, s)
                 /\ handler'[d].todo = handler[d].todo
                 /\ handler'[d].whole = handler[d].whole
                 /\ handler'[d].usage >= handler[d].usage
                 /\ handler'[d].usage \in Nat
      <4>0. handler[d].usage \in Nat /\ handler[d] \in Handler
        BY <2>0 DEF TypeOK, Handler
      <4>1. Running(d, s)
        BY <2>0, <2>1, <3>2, InnerEffect
      <4>2. CASE StartRun(c)
        <5>1. d # c
          BY <2>0, <4>1, <4>2 DEF StartRun, Running
        <5> QED BY <2>0, <4>0, <4>1, <4>2, <5>1 DEF StartRun, TypeOK
      <4>3. CASE ModelContinues(c)
        BY <2>0, <4>0, <4>1, <4>3 DEF ModelContinues, CountRequest, TypeOK, Handler
      <4>4. CASE UngatedToolsReturn(c)
        BY <2>0, <4>0, <4>1, <4>4 DEF UngatedToolsReturn, TypeOK, Handler
      <4> QED BY <2>1, <4>2, <4>3, <4>4
    <3> QED BY <3>1, <3>2, RoundQuiet
  <2>2. ASSUME NEW c \in Clients, NEW s \in Sessions, NEW D \in Decisions,
               RejectOutsider(c, s, D)
        PROVE  RoundInv'
    <3>1. records' = records
      <4>1. Release(Claim(records[s])) = records[s]
        BY <2>0, <2>2 DEF RejectOutsider, Claimable, Release, Claim, TypeOK, Record
      <4> QED BY <2>0, <2>2, <4>1 DEF RejectOutsider, TypeOK
    <3> QED BY <2>0, <2>2, <3>1, RoundQuiet DEF RejectOutsider, Running, TypeOK, Handler
  <2>3. CASE UNCHANGED vars
    BY <2>0, <2>3, RoundQuiet DEF vars, Running, TypeOK, Handler
  <2>4. ASSUME NEW c \in Clients, RunFails(c) PROVE RoundInv'
    BY <2>0, <2>4, AnswerEffect, RoundQuiet DEF RunFails, TypeOK, Handler
  <2>5. CASE Restart
    BY <2>5 DEF Restart, RoundInv, Absent, Running, Idle
  <2>6. ASSUME NEW c \in Clients, NEW s \in Sessions, RejectUnclaimable(c, s) PROVE RoundInv'
    BY <2>3, <2>6 DEF RejectUnclaimable
  <2> QED
    BY <2>1, <2>2, <2>3, <2>4, <2>5, <2>6, RoundExecute, RoundAccept, RoundEnd
    DEF Next, Request, Serve
<1> QED BY <1>1, <1>2, SessionInvariant, PTL DEF Spec

(***************************************************************************)
(* The budget spans the session: each re-defer stores a larger usage than  *)
(* the round before.  (harness.py and sessions.py carry the usage along)   *)
(***************************************************************************)
THEOREM BudgetSpansRounds == Spec => UsageAccumulates
<1> DEFINE Grows(s) == records[s].state = "in_flight" /\ records'[s].state = "pending"
                         => records'[s].usage > records[s].usage
<1>1. SessionInv /\ RoundInv /\ [Next]_vars => [\A s \in Sessions : Grows(s)]_vars
  <2> SUFFICES ASSUME SessionInv, RoundInv, Next, NEW s \in Sessions,
                      records[s].state = "in_flight", records'[s].state = "pending"
               PROVE  records'[s].usage > records[s].usage
    OBVIOUS
  <2>0. TypeOK /\ s \in issued
    BY DEF SessionInv, Untouched, Absent
  <2>1. ASSUME NEW c \in Clients, NEW K \in SUBSET Calls, ModelDefers(c, K)
        PROVE  records'[s].usage > records[s].usage
    <3>1. PICK r \in Sessions :
            /\ Running(c, r) \/ r \notin issued
            /\ records'[r].usage = handler[c].usage + 1
            /\ \A q \in Sessions : q # r => records'[q] = records[q]
      BY <2>1, DeferEffect
    <3>2. r = s /\ Running(c, s)
      BY <2>0, <3>1
    <3>3. handler[c].usage >= records[s].usage
          /\ handler[c].usage \in Nat /\ records[s].usage \in Nat
      BY <2>0, <3>2 DEF RoundInv, RunCompletesRound, TypeOK, Handler, Record
    <3> QED BY <3>1, <3>2, <3>3
  <2>2. ASSUME NEW c \in Clients, ModelFinishes(c) \/ BudgetExceeded(c) PROVE FALSE
    BY <2>2, FinishEffect
  <2>3. ASSUME NEW c \in Clients, NEW r \in Sessions, NEW D \in Decisions,
               RejectOutsider(c, r, D) \/ AcceptResume(c, r, D)
        PROVE  FALSE
    BY <2>0, <2>3 DEF RejectOutsider, AcceptResume, Claimable, Claim, TypeOK, Record
  <2>4. ~Restart
    BY DEF Restart, Absent
  <2>5. ASSUME UNCHANGED records PROVE FALSE
    BY <2>5
  <2> QED
    BY <2>1, <2>2, <2>3, <2>4, <2>5
    DEF Next, Request, Serve, StartRun, RejectUnclaimable, ExecuteApproved, ModelContinues,
        UngatedToolsReturn, RunFails, vars
<1> QED BY <1>1, SessionInvariant, RoundInvariant, PTL DEF Spec, UsageAccumulates

-----------------------------------------------------------------------------
(***************************************************************************)
(* The refinement: each step of the service is a step of the gate or       *)
(* leaves it alone.  What the gate sees of a session is settled by its     *)
(* record, whether it was issued, whether it is claimed, and its counters. *)
(***************************************************************************)
LEMMA GateSame ==
  ASSUME NEW s \in Sessions, records'[s] = records[s], (s \in issued') <=> (s \in issued),
         Claimed(s)' <=> Claimed(s),
         \A k \in Calls : /\ approvals'[s][k] = approvals[s][k]
                          /\ denials'[s][k] = denials[s][k]
                          /\ executed'[s][k] = executed[s][k]
  PROVE  SessionPhase(s)' = SessionPhase(s) /\ \A k \in Calls : CallGate(s, k)' = CallGate(s, k)
<1>1. SessionPhase(s)' = SessionPhase(s)
  BY DEF SessionPhase
<1> QED BY <1>1 DEF CallGate

\* When that holds of every session, the gate does not notice the step.
LEMMA GateStutters ==
  ASSUME \A s \in Sessions : /\ SessionPhase(s)' = SessionPhase(s)
                             /\ \A k \in Calls : CallGate(s, k)' = CallGate(s, k)
  PROVE  UNCHANGED Gate!gvars
BY DEF Gate!gvars

\* No session was issued yet, and no call was seen.
LEMMA GateInit == Init => Gate!Init
<1> SUFFICES ASSUME Init PROVE Gate!Init
  OBVIOUS
<1>1. \A s \in Sessions : SessionPhase(s) = "new"
  BY DEF Init, SessionPhase, Absent, Claimed, Running, Idle
<1>2. \A s \in Sessions, k \in Calls : CallGate(s, k) = "unseen"
  BY <1>1 DEF Init, CallGate, Absent
<1> QED BY <1>1, <1>2 DEF Gate!Init

\* The phases of a session, told from its record and its handlers.
LEMMA PhaseOf ==
  ASSUME SessionInv, NEW s \in Sessions
  PROVE  /\ s \notin issued => SessionPhase(s) = "new"
         /\ s \in issued /\ records[s].state = "pending" => SessionPhase(s) = "open"
         /\ Claimed(s) => s \in issued /\ SessionPhase(s) = "deciding"
         /\ s \in issued /\ records[s].state # "pending" /\ ~Claimed(s)
              => SessionPhase(s) = "closed"
BY DEF SessionPhase, SessionInv, OneResumePerSession, Untouched, Absent

\* The gate of a call, told from its counters, the phase and the pending set.
LEMMA GateOfCall ==
  ASSUME SessionInv, NEW s \in Sessions, NEW k \in Calls
  PROVE  /\ executed[s][k] > 0 => CallGate(s, k) = "executed"
         /\ executed[s][k] = 0 /\ approvals[s][k] > 0 => CallGate(s, k) = "approved"
         /\ denials[s][k] > 0 => CallGate(s, k) = "denied"
         /\ Undecided(s, k) =>
              CallGate(s, k) = IF SessionPhase(s) = "closed" THEN "void"
                               ELSE IF k \in records[s].pending THEN "waiting" ELSE "unseen"
<1>1. /\ approvals[s][k] \in Nat /\ denials[s][k] \in Nat /\ executed[s][k] \in Nat
      /\ approvals[s][k] + denials[s][k] <= 1 /\ executed[s][k] <= approvals[s][k]
  BY DEF SessionInv, TypeOK, DecidedOnce, ExecutedOnlyAsApproved
<1> QED BY <1>1 DEF CallGate, Undecided

\* One of the four is the case of every call.
LEMMA GateCases ==
  ASSUME SessionInv, NEW s \in Sessions, NEW k \in Calls
  PROVE  \/ Undecided(s, k)
         \/ denials[s][k] > 0
         \/ executed[s][k] > 0
         \/ executed[s][k] = 0 /\ approvals[s][k] > 0
BY DEF SessionInv, TypeOK, Undecided

\* A session that is closed by a step that touches no counter closes in the
\* gate: what was unseen or waited is void, the rest stays what it was.
LEMMA GateVoids ==
  ASSUME SessionInv, SessionInv', NEW s \in Sessions, UNCHANGED <<approvals, denials, executed>>,
         SessionPhase(s) # "closed", SessionPhase(s)' = "closed"
  PROVE  \A k \in Calls : CallGate(s, k)' = IF CallGate(s, k) \in {"unseen", "waiting"}
                                            THEN "void" ELSE CallGate(s, k)
<1> SUFFICES ASSUME NEW k \in Calls
             PROVE  CallGate(s, k)' = IF CallGate(s, k) \in {"unseen", "waiting"}
                                      THEN "void" ELSE CallGate(s, k)
  OBVIOUS
<1>1. Undecided(s, k)' <=> Undecided(s, k)
  BY DEF Undecided
<1>2. /\ executed'[s][k] > 0 => CallGate(s, k)' = "executed"
      /\ executed'[s][k] = 0 /\ approvals'[s][k] > 0 => CallGate(s, k)' = "approved"
      /\ denials'[s][k] > 0 => CallGate(s, k)' = "denied"
      /\ Undecided(s, k)' => CallGate(s, k)' = "void"
  <2>1. SessionInv' /\ s \in Sessions /\ k \in Calls
    OBVIOUS
  <2> QED BY <2>1 DEF SessionInv, TypeOK, CallGate, Undecided, DecidedOnce, ExecutedOnlyAsApproved
<1> QED BY <1>1, <1>2, GateOfCall, GateCases

-----------------------------------------------------------------------------
\* An approved call executes.
LEMMA GateExecute ==
  ASSUME SessionInv, NEW c \in Clients, NEW k \in Calls, ExecuteApproved(c, k)
  PROVE  \/ UNCHANGED Gate!gvars
         \/ \E s \in Sessions : Gate!Execute(s, k)
<1> DEFINE s0 == handler[c].session
<1>0. TypeOK /\ k \in handler[c].todo
  BY DEF SessionInv, ExecuteApproved
<1>1. /\ UNCHANGED <<records, issued, approvals, denials>>
      /\ \A d \in Clients, s \in Sessions : Running(d, s)' <=> Running(d, s)
  BY <1>0, InnerEffect
<1>2. \A s \in Sessions, j \in Calls :
        executed'[s][j] = IF s = s0 /\ j = k THEN executed[s][j] + 1 ELSE executed[s][j]
  BY <1>0 DEF ExecuteApproved, TypeOK
<1>3. \A s \in Sessions : SessionPhase(s)' = SessionPhase(s)
  BY <1>1 DEF SessionPhase, Claimed
<1>4. \A s \in Sessions, j \in Calls : ~(s = s0 /\ j = k) => CallGate(s, j)' = CallGate(s, j)
  BY <1>1, <1>2, <1>3 DEF CallGate
<1>5. ASSUME NEW t \in Sessions, t = s0 PROVE Gate!Execute(t, k)
  <2>1. /\ Running(c, t) /\ Claimed(t)
        /\ approvals[t][k] = 1 /\ executed[t][k] = 0
    BY <1>0, <1>5 DEF ExecuteApproved, Progressing, Running, Claimed, SessionInv, RunMatchesSession
  <2> HIDE DEF s0
  <2>2. SessionPhase(t) = "deciding" /\ CallGate(t, k) = "approved"
    BY <1>5, <2>1, PhaseOf, GateOfCall
  <2>3. CallGate(t, k)' = "executed"
    BY <1>1, <1>2, <1>5, <2>1 DEF CallGate
  <2>4. \A s \in Sessions, j \in Calls :
          CallGate(s, j)' = IF s = t /\ j = k THEN "executed" ELSE CallGate(s, j)
    BY <1>4, <1>5, <2>3
  <2> QED BY <1>3, <1>5, <2>2, <2>4 DEF Gate!Execute
<1>6. CASE s0 \notin Sessions
  <2>1. \A s \in Sessions, j \in Calls : CallGate(s, j)' = CallGate(s, j)
    BY <1>4, <1>6
  <2> QED BY <1>3, <2>1, GateStutters
<1> QED BY <1>5, <1>6

\* An accepted resume decides calls that wait.
LEMMA GateAccept ==
  ASSUME SessionInv, SessionInv', NEW c \in Clients, NEW s0 \in Sessions, NEW D \in Decisions,
         AcceptResume(c, s0, D)
  PROVE  Gate!Decide(s0, ApprovedBy(D), DeniedBy(D))
<1>0. /\ TypeOK /\ handler[c].phase = "idle" /\ s0 \in issued
      /\ records[s0].state = "pending" /\ DOMAIN D \subseteq records[s0].pending
  BY DEF SessionInv, AcceptResume, Claimable, Untouched, Absent
<1>1. /\ \A s \in Sessions : s # s0 => records'[s] = records[s]
      /\ records'[s0].pending = records[s0].pending
  BY <1>0 DEF AcceptResume, TypeOK, Claim, Record
<1>2. /\ \A d \in Clients : d # c => handler'[d] = handler[d]
      /\ handler'[c].phase = "running" /\ handler'[c].session = s0
  BY <1>0 DEF AcceptResume, TypeOK
<1>3. \A s \in Sessions, k \in Calls :
        /\ approvals'[s][k] = approvals[s][k] + (IF s = s0 /\ k \in ApprovedBy(D) THEN 1 ELSE 0)
        /\ denials'[s][k] = denials[s][k] + (IF s = s0 /\ k \in DeniedBy(D) THEN 1 ELSE 0)
  BY <1>0 DEF AcceptResume, TypeOK
<1>4. /\ DOMAIN D # {} /\ DOMAIN D \subseteq Calls
      /\ ApprovedBy(D) \cup DeniedBy(D) = DOMAIN D /\ ApprovedBy(D) \cap DeniedBy(D) = {}
  <2>1. PICK K \in (SUBSET Calls) \ {{}} : D \in [K -> Verdicts]
    BY DEF Decisions
  <2>2. DOMAIN D = K /\ \A k \in K : D[k] \in {"approved", "denied"}
    BY <2>1 DEF Verdicts
  <2> QED BY <2>1, <2>2 DEF ApprovedBy, DeniedBy
<1>5. UNCHANGED <<issued, executed>>
  BY DEF AcceptResume
<1>6. SessionPhase(s0) = "open" /\ SessionPhase(s0)' = "deciding"
  <2>1. Claimed(s0)'
    BY <1>2 DEF Claimed, Running
  <2>2. records'[s0].state = "in_flight" /\ s0 \in issued'
    BY <1>0, <1>5 DEF AcceptResume, TypeOK, Claim, Record
  <2> QED BY <1>0, <2>1, <2>2, PhaseOf DEF SessionPhase
<1>7. ASSUME NEW s \in Sessions, s # s0
      PROVE  SessionPhase(s)' = SessionPhase(s) /\ \A k \in Calls : CallGate(s, k)' = CallGate(s, k)
  <2>1. Claimed(s)' <=> Claimed(s)
    BY <1>0, <1>2, <1>7 DEF Claimed, Running
  <2>2. \A k \in Calls : approvals'[s][k] = approvals[s][k] /\ denials'[s][k] = denials[s][k]
    BY <1>0, <1>3, <1>7 DEF TypeOK
  <2> QED BY <1>1, <1>5, <1>7, <2>1, <2>2, GateSame
<1>8. \A k \in DOMAIN D : CallGate(s0, k) = "waiting"
  <2> SUFFICES ASSUME NEW k \in DOMAIN D PROVE CallGate(s0, k) = "waiting"
    OBVIOUS
  <2>1. Undecided(s0, k) /\ k \in records[s0].pending /\ k \in Calls
    BY <1>0, <1>4 DEF SessionInv, PendingIsUndecided
  <2> QED BY <1>6, <2>1, GateOfCall
<1>9. ASSUME NEW k \in Calls
      PROVE  CallGate(s0, k)' = IF k \in ApprovedBy(D) THEN "approved"
                                ELSE IF k \in DeniedBy(D) THEN "denied" ELSE CallGate(s0, k)
  <2>0. approvals[s0][k] \in Nat /\ denials[s0][k] \in Nat /\ executed[s0][k] \in Nat
    BY <1>0 DEF TypeOK
  <2>1. CASE k \in DOMAIN D
    <3>1. Undecided(s0, k)
      BY <1>0, <2>1 DEF SessionInv, PendingIsUndecided
    <3>2. executed'[s0][k] = 0 /\ (k \in ApprovedBy(D) => approvals'[s0][k] = 1)
          /\ (k \in DeniedBy(D) => approvals'[s0][k] = 0 /\ denials'[s0][k] = 1)
      BY <1>3, <1>4, <1>5, <3>1 DEF Undecided
    <3> QED BY <1>4, <2>1, <3>2 DEF CallGate
  <2>2. CASE k \notin DOMAIN D
    <3>1. approvals'[s0][k] = approvals[s0][k] /\ denials'[s0][k] = denials[s0][k]
      BY <1>3, <1>4, <2>0, <2>2
    <3> QED BY <1>1, <1>4, <1>5, <1>6, <2>2, <3>1 DEF CallGate
  <2> QED BY <2>1, <2>2
<1>10. \A k \in ApprovedBy(D) \cup DeniedBy(D) : CallGate(s0, k) = "waiting"
  BY <1>4, <1>8
<1>11. ApprovedBy(D) \cup DeniedBy(D) # {}
  BY <1>4
<1> QED BY <1>4, <1>6, <1>7, <1>9, <1>10, <1>11 DEF Gate!Decide

\* A step that leaves one session's record pending on new calls asks for them.
LEMMA GateDefers ==
  ASSUME SessionInv, RoundInv, SessionInv', NEW c \in Clients, NEW K \in SUBSET Calls,
         ModelDefers(c, K)
  PROVE  \E s \in Sessions : Gate!Ask(s, K)
<1>0. TypeOK /\ Answer(c) /\ UNCHANGED <<approvals, denials, executed>>
      /\ handler[c].todo = {} /\ handler[c].whole
  BY DEF SessionInv, ModelDefers, CanRequest, Progressing
<1>1. PICK s \in Sessions :
        /\ Running(c, s) \/ s \notin issued
        /\ issued' = issued \cup {s}
        /\ \A k \in K : Undecided(s, k) /\ k \notin records[s].pending
        /\ records'[s].state = "pending" /\ records'[s].pending = K
        /\ \A r \in Sessions : r # s => records'[r] = records[r]
  BY DeferEffect
<1>2. K # {}
  BY DEF ModelDefers
<1>3. \A r \in Sessions : Claimed(r)' <=> \E d \in Clients : d # c /\ Running(d, r)
  BY <1>0, AnswerEffect DEF Claimed
<1>4. SessionPhase(s) \in {"new", "deciding"} /\ SessionPhase(s)' = "open"
  <2>1. SessionPhase(s) \in {"new", "deciding"}
    BY <1>1, PhaseOf DEF Claimed
  <2>2. SessionPhase(s)' = "open"
    BY <1>1 DEF SessionPhase, SessionInv, OneResumePerSession
  <2> QED BY <2>1, <2>2
<1>5. ASSUME NEW r \in Sessions, r # s
      PROVE  SessionPhase(r)' = SessionPhase(r) /\ \A k \in Calls : CallGate(r, k)' = CallGate(r, k)
  <2>1. Claimed(r)' <=> Claimed(r)
    <3>1. ~Running(c, r) \/ s \notin issued
      BY <1>1, <1>5 DEF Running
    <3>2. s \notin issued => ~Running(c, r)
      <4>1. ASSUME s \notin issued, Running(c, r) PROVE FALSE
        <5>1. ~Running(c, s) /\ handler[c].session # NoSession
          BY <4>1, NoSessionAssumption DEF SessionInv, Untouched, Claimed, Running
        <5>2. issued' = issued
          BY <5>1 DEF ModelDefers
        <5> QED BY <1>1, <4>1, <5>2
      <4> QED BY <4>1
    <3> QED BY <1>3, <3>1, <3>2 DEF Claimed
  <2> QED BY <1>0, <1>1, <1>5, <2>1, GateSame
<1>6. \A k \in Calls : CallGate(s, k) \notin {"waiting", "approved"}
  <2> SUFFICES ASSUME NEW k \in Calls PROVE CallGate(s, k) \notin {"waiting", "approved"}
    OBVIOUS
  <2>1. approvals[s][k] = executed[s][k] /\ (Undecided(s, k) => k \notin records[s].pending)
    <3>1. CASE Running(c, s)
      BY <1>0, <3>1 DEF RoundInv, RunCompletesRound
    <3>2. CASE s \notin issued
      BY <3>2 DEF SessionInv, Untouched, Undecided, Absent
    <3> QED BY <1>1, <3>1, <3>2
  <2> QED BY <1>4, <2>1, GateOfCall, GateCases
<1>7. \A k \in K : CallGate(s, k) = "unseen"
  BY <1>1, <1>4, GateOfCall
<1>8. \A k \in Calls : CallGate(s, k)' = IF k \in K THEN "waiting" ELSE CallGate(s, k)
  <2> SUFFICES ASSUME NEW k \in Calls
               PROVE  CallGate(s, k)' = IF k \in K THEN "waiting" ELSE CallGate(s, k)
    OBVIOUS
  <2>1. CASE k \in K
    BY <1>0, <1>1, <1>4, <2>1 DEF CallGate, Undecided
  <2>2. CASE k \notin K
    BY <1>0, <1>1, <1>4, <1>6, <2>2 DEF CallGate
  <2> QED BY <2>1, <2>2
<1>9. Gate!Ask(s, K)
  <2> DEFINE P == [r \in Sessions |-> SessionPhase(r)]
             G == [r \in Sessions |-> [k \in Calls |-> CallGate(r, k)]]
  <2>1. P' = [P EXCEPT ![s] = "open"]
    BY <1>4, <1>5
  <2>2. G' = [G EXCEPT ![s] = [k \in Calls |-> IF k \in K THEN "waiting" ELSE @[k]]]
    BY <1>5, <1>8
  <2>3. P[s] \in {"new", "deciding"} /\ \A k \in Calls : G[s][k] = CallGate(s, k)
    BY <1>4
  <2> HIDE DEF P, G
  <2>4. /\ \A k \in K : G[s][k] = "unseen"
        /\ \A k \in Calls : G[s][k] \notin {"waiting", "approved"}
    BY <1>6, <1>7, <2>3
  <2> QED BY <1>2, <2>1, <2>2, <2>3, <2>4 DEF Gate!Ask, P, G
<1> QED BY <1>9

\* An end without a new round closes the session it settles.
LEMMA GateFinishes ==
  ASSUME SessionInv, SessionInv', NEW c \in Clients, ModelFinishes(c) \/ BudgetExceeded(c)
  PROVE  \/ UNCHANGED Gate!gvars
         \/ \E s \in Sessions : Gate!Close({s})
<1>0. TypeOK /\ Answer(c) /\ UNCHANGED <<approvals, denials, executed>>
  BY DEF SessionInv, ModelFinishes, BudgetExceeded
<1>1. \A d \in Clients, s \in Sessions : Running(d, s)' <=> d # c /\ Running(d, s)
  BY <1>0, AnswerEffect
<1>2. CASE handler[c].session = NoSession /\ UNCHANGED <<records, issued>>
  <2>1. \A s \in Sessions : Claimed(s)' <=> Claimed(s)
    BY <1>1, <1>2, NoSessionAssumption DEF Claimed, Running
  <2>2. \A s \in Sessions : /\ SessionPhase(s)' = SessionPhase(s)
                            /\ \A k \in Calls : CallGate(s, k)' = CallGate(s, k)
    BY <1>0, <1>2, <2>1, GateSame
  <2> QED BY <2>2, GateStutters
<1>3. ASSUME NEW s \in Sessions,
             Running(c, s) \/ s \notin issued,
             issued' = issued \cup {s},
             records'[s].state = "consumed",
             \A r \in Sessions : r # s => records'[r] = records[r]
      PROVE  \E r \in Sessions : Gate!Close({r})
  <2>1. SessionPhase(s) # "closed"
    BY <1>3, PhaseOf DEF Claimed
  <2>2. SessionPhase(s)' = "closed"
    BY <1>3 DEF SessionPhase, SessionInv, OneResumePerSession
  <2>3. \A k \in Calls : CallGate(s, k)' = IF CallGate(s, k) \in {"unseen", "waiting"}
                                           THEN "void" ELSE CallGate(s, k)
    BY <1>0, <2>1, <2>2, GateVoids
  <2>4. ASSUME NEW r \in Sessions, r # s
        PROVE  SessionPhase(r)' = SessionPhase(r) /\ \A k \in Calls : CallGate(r, k)' = CallGate(r, k)
    <3>1. Running(c, r) => s \in issued
      BY <1>3, <2>4 DEF Running, ModelFinishes, BudgetExceeded
    <3>2. ~Running(c, r)
      BY <1>3, <2>4, <3>1 DEF Running
    <3>3. Claimed(r)' <=> Claimed(r)
      BY <1>1, <3>2 DEF Claimed
    <3> QED BY <1>0, <1>3, <2>4, <3>3, GateSame
  <2> DEFINE P == [r \in Sessions |-> SessionPhase(r)]
             G == [r \in Sessions |-> [k \in Calls |-> CallGate(r, k)]]
  <2>5. P' = [r \in Sessions |-> IF r \in {s} THEN "closed" ELSE P[r]]
    BY <2>2, <2>4
  <2>6. G' = [r \in Sessions |-> IF r \in {s}
                THEN [k \in Calls |-> IF G[r][k] \in {"unseen", "waiting"}
                                      THEN "void" ELSE G[r][k]]
                ELSE G[r]]
    BY <2>3, <2>4
  <2>7. {s} # {} /\ \A r \in {s} : P[r] # "closed"
    BY <2>1
  <2> HIDE DEF P, G
  <2>8. Gate!Close({s})
    BY <2>5, <2>6, <2>7 DEF Gate!Close, P, G
  <2> QED BY <2>8
<1> QED BY <1>2, <1>3, FinishEffect

\* An error closes the session that ran; the record that stays in flight is
\* never claimable again.  A run without a session leaves the gate alone.
LEMMA GateFails ==
  ASSUME SessionInv, SessionInv', NEW c \in Clients, RunFails(c)
  PROVE  \/ UNCHANGED Gate!gvars
         \/ \E s \in Sessions : Gate!Close({s})
<1>0. TypeOK /\ Answer(c) /\ UNCHANGED <<records, issued, approvals, denials, executed>>
  BY DEF SessionInv, RunFails
<1>1. \A d \in Clients, s \in Sessions : Running(d, s)' <=> d # c /\ Running(d, s)
  BY <1>0, AnswerEffect
<1>2. ASSUME NEW r \in Sessions, ~Running(c, r)
      PROVE  SessionPhase(r)' = SessionPhase(r) /\ \A k \in Calls : CallGate(r, k)' = CallGate(r, k)
  <2>1. Claimed(r)' <=> Claimed(r)
    BY <1>1, <1>2 DEF Claimed
  <2> QED BY <1>0, <1>2, <2>1, GateSame
<1>3. CASE \A r \in Sessions : ~Running(c, r)
  BY <1>2, <1>3, GateStutters
<1>4. ASSUME NEW s \in Sessions, Running(c, s) PROVE Gate!Close({s})
  <2>1. SessionPhase(s) # "closed" /\ records[s].state = "in_flight" /\ s \in issued
    BY <1>4, PhaseOf DEF Claimed, SessionInv, OneResumePerSession
  <2>2. ~Claimed(s)'
    BY <1>1, <1>4 DEF SessionInv, OneResumePerSession, Claimed
  <2>3. SessionPhase(s)' = "closed"
    BY <1>0, <2>1, <2>2 DEF SessionPhase
  <2>4. \A k \in Calls : CallGate(s, k)' = IF CallGate(s, k) \in {"unseen", "waiting"}
                                           THEN "void" ELSE CallGate(s, k)
    BY <1>0, <2>1, <2>3, GateVoids
  <2>5. \A r \in Sessions : r # s => ~Running(c, r)
    BY <1>4 DEF Running
  <2> DEFINE P == [r \in Sessions |-> SessionPhase(r)]
             G == [r \in Sessions |-> [k \in Calls |-> CallGate(r, k)]]
  <2>6. P' = [r \in Sessions |-> IF r \in {s} THEN "closed" ELSE P[r]]
    BY <1>2, <2>3, <2>5
  <2>7. G' = [r \in Sessions |-> IF r \in {s}
                THEN [k \in Calls |-> IF G[r][k] \in {"unseen", "waiting"}
                                      THEN "void" ELSE G[r][k]]
                ELSE G[r]]
    BY <1>2, <2>4, <2>5
  <2>8. {s} # {} /\ \A r \in {s} : P[r] # "closed"
    BY <2>1
  <2> HIDE DEF P, G
  <2> QED BY <2>6, <2>7, <2>8 DEF Gate!Close, P, G
<1> QED BY <1>3, <1>4

\* A restart closes every session that was issued and is not closed.
LEMMA GateRestart ==
  ASSUME SessionInv, SessionInv', Restart
  PROVE  UNCHANGED Gate!gvars \/ \E S \in SUBSET Sessions : Gate!Close(S)
<1> DEFINE S == {s \in issued : SessionPhase(s) # "closed"}
           P == [r \in Sessions |-> SessionPhase(r)]
           G == [r \in Sessions |-> [k \in Calls |-> CallGate(r, k)]]
<1>0. /\ TypeOK /\ \A s \in Sessions : records'[s] = Absent
      /\ UNCHANGED <<issued, approvals, denials, executed>>
      /\ \A s \in Sessions : ~Claimed(s)'
  BY DEF SessionInv, Restart, Claimed, Running, Idle
<1>1. S \in SUBSET Sessions
  BY <1>0 DEF TypeOK
<1>2. ASSUME NEW s \in Sessions \ issued
      PROVE  SessionPhase(s)' = SessionPhase(s) /\ \A k \in Calls : CallGate(s, k)' = CallGate(s, k)
  <2>1. records'[s] = records[s] /\ ~Claimed(s)
    BY <1>0 DEF SessionInv, Untouched
  <2> QED BY <1>0, <2>1, GateSame
<1>3. \A s \in issued : SessionPhase(s)' = "closed"
  BY <1>0 DEF SessionPhase, Absent, TypeOK
<1>4. ASSUME NEW s \in issued, SessionPhase(s) = "closed"
      PROVE  \A k \in Calls : CallGate(s, k)' = CallGate(s, k)
  <2>1. SessionPhase(s)' = "closed" /\ s \in Sessions
    BY <1>0, <1>3 DEF TypeOK
  <2> QED BY <1>0, <1>4, <2>1 DEF CallGate
<1>5. \A s \in S, k \in Calls : CallGate(s, k)' = IF CallGate(s, k) \in {"unseen", "waiting"}
                                                  THEN "void" ELSE CallGate(s, k)
  BY <1>0, <1>1, <1>3, GateVoids
<1>6. CASE S = {}
  <2>1. \A s \in Sessions : /\ SessionPhase(s)' = SessionPhase(s)
                            /\ \A k \in Calls : CallGate(s, k)' = CallGate(s, k)
    BY <1>2, <1>3, <1>4, <1>6
  <2> QED BY <2>1, GateStutters
<1>7. CASE S # {}
  <2>1. P' = [r \in Sessions |-> IF r \in S THEN "closed" ELSE P[r]]
    BY <1>2, <1>3
  <2>2. G' = [r \in Sessions |-> IF r \in S
                THEN [k \in Calls |-> IF G[r][k] \in {"unseen", "waiting"}
                                      THEN "void" ELSE G[r][k]]
                ELSE G[r]]
    BY <1>1, <1>2, <1>4, <1>5
  <2>3. \A r \in S : P[r] # "closed"
    BY <1>1
  <2> HIDE DEF P, G, S
  <2>4. Gate!Close(S)
    BY <1>7, <2>1, <2>2, <2>3 DEF Gate!Close, P, G
  <2> QED BY <1>1, <2>4
<1> QED BY <1>6, <1>7

\* Whatever only moves a handler inside agent.run or turns a request away
\* is not the gate's business.
LEMMA GateQuiet ==
  ASSUME SessionInv, UNCHANGED <<records, issued, approvals, denials, executed>>,
         \A d \in Clients, s \in Sessions : Running(d, s)' <=> Running(d, s)
  PROVE  UNCHANGED Gate!gvars
<1>1. \A s \in Sessions : Claimed(s)' <=> Claimed(s)
  BY DEF Claimed
<1>2. \A s \in Sessions : /\ SessionPhase(s)' = SessionPhase(s)
                          /\ \A k \in Calls : CallGate(s, k)' = CallGate(s, k)
  BY <1>1, GateSame
<1> QED BY <1>2, GateStutters

(***************************************************************************)
(* The service implements the approval gate: whatever its clients race     *)
(* for, and wherever it fails or dies, what they see is a session that     *)
(* asks in rounds, is decided once per call, and never opens again.        *)
(***************************************************************************)
THEOREM SessionImplementsGate == Spec => ImplementsGate
<1>1. SessionInv /\ RoundInv /\ SessionInv' /\ [Next]_vars => [Gate!Next]_Gate!gvars
  <2> SUFFICES ASSUME SessionInv, RoundInv, SessionInv', [Next]_vars
               PROVE  Gate!Next \/ UNCHANGED Gate!gvars
    OBVIOUS
  <2>0. TypeOK
    BY DEF SessionInv
  <2>1. ASSUME NEW c \in Clients, StartRun(c) \/ ModelContinues(c) \/ UngatedToolsReturn(c)
        PROVE  UNCHANGED Gate!gvars
    <3>1. UNCHANGED executed
      BY <2>1 DEF StartRun, ModelContinues, UngatedToolsReturn
    <3> QED BY <2>0, <2>1, <3>1, InnerEffect, GateQuiet
  <2>2. ASSUME NEW c \in Clients, NEW s \in Sessions, NEW D \in Decisions, RejectOutsider(c, s, D)
        PROVE  UNCHANGED Gate!gvars
    <3>1. records' = records
      <4>1. Release(Claim(records[s])) = records[s]
        BY <2>0, <2>2 DEF RejectOutsider, Claimable, Release, Claim, TypeOK, Record
      <4> QED BY <2>0, <2>2, <4>1 DEF RejectOutsider, TypeOK
    <3> QED BY <2>2, <3>1, GateQuiet DEF RejectOutsider, Running
  <2>3. ASSUME UNCHANGED vars PROVE UNCHANGED Gate!gvars
    <3>1. UNCHANGED <<records, issued, approvals, denials, executed>>
          /\ \A d \in Clients, s \in Sessions : Running(d, s)' <=> Running(d, s)
      BY <2>3 DEF vars, Running
    <3> QED BY <3>1, GateQuiet
  <2>4. ASSUME NEW c \in Clients, NEW s \in Sessions, RejectUnclaimable(c, s)
        PROVE  UNCHANGED Gate!gvars
    BY <2>3, <2>4 DEF RejectUnclaimable
  <2>5. ASSUME NEW c \in Clients, NEW s \in Sessions, NEW D \in Decisions, AcceptResume(c, s, D)
        PROVE  Gate!Next
    <3>1. ApprovedBy(D) \in SUBSET Calls /\ DeniedBy(D) \in SUBSET Calls
      BY DEF Decisions, ApprovedBy, DeniedBy
    <3> QED BY <2>5, <3>1, GateAccept DEF Gate!Next
  <2>6. ASSUME NEW c \in Clients, NEW k \in Calls, ExecuteApproved(c, k)
        PROVE  Gate!Next \/ UNCHANGED Gate!gvars
    BY <2>6, GateExecute DEF Gate!Next
  <2>7. ASSUME NEW c \in Clients, NEW K \in SUBSET Calls, ModelDefers(c, K)
        PROVE  Gate!Next
    BY <2>7, GateDefers DEF Gate!Next
  <2>8. ASSUME NEW c \in Clients, ModelFinishes(c) \/ BudgetExceeded(c) \/ RunFails(c)
        PROVE  Gate!Next \/ UNCHANGED Gate!gvars
    <3>1. UNCHANGED Gate!gvars \/ \E s \in Sessions : Gate!Close({s})
      BY <2>8, GateFinishes, GateFails
    <3>2. \A s \in Sessions : {s} \in SUBSET Sessions
      OBVIOUS
    <3> QED BY <3>1, <3>2 DEF Gate!Next
  <2>9. CASE Restart
    BY <2>9, GateRestart DEF Gate!Next
  <2> QED BY <2>1, <2>2, <2>3, <2>4, <2>5, <2>6, <2>7, <2>8, <2>9 DEF Next, Request, Serve
<1> QED BY <1>1, GateInit, SessionInvariant, RoundInvariant, PTL
        DEF Spec, ImplementsGate, Gate!Spec

-----------------------------------------------------------------------------
\* HitlPolicy.


\* What is true of one call: an answered search has tainted the run; a call
\* made with customer text in view finds the text in the history; only held
\* calls were asked about, and only decided ones ran on somebody's word.
CallInv(c) ==
    /\ state[c] = "looked" /\ want[c].target \in directory => tainted
    /\ want[c].informed => heard
    /\ state[c] = "applied" /\ (want[c].amount > Threshold \/ want[c].informed)
          => CallApproved(c)
    /\ state[c] = "escalated" => CallApproved(c)
    /\ state[c] \in {"applied", "escalated"} /\ directory # {} => want[c].target \in directory
    /\ state[c] \in {"unused", "held", "waiting"} => decided[c] = "none"
    /\ decided[c] = "denied" => state[c] = "denied"
    /\ state[c] = "denied" => decided[c] = "denied"
    /\ state[c] = "waiting" => phase = "stopped"
    /\ state[c] \in {"chosen", "held"} => phase \in {"tools", "over"}

\* The text that is heard was returned by a call; without a directory there is
\* none; and a stop is for a call that waits.
PolicyInv ==
    /\ PolicyTypeOK
    /\ \A c \in Call : CallInv(c)
    /\ heard => TextReturned
    /\ tainted => directory # {}
    /\ phase = "stopped" => \E c \in Call : state[c] = "waiting"

-----------------------------------------------------------------------------
\* The initial conversation satisfies the invariant.
LEMMA InitInv == PolicyInit => PolicyInv
<1> SUFFICES ASSUME PolicyInit PROVE PolicyInv OBVIOUS
<1> USE DEF PolicyInit
<1>1. PolicyTypeOK BY DEF PolicyTypeOK, Wants, Nothing, CallStates
<1>2. \A c \in Call : CallInv(c) BY DEF CallInv, Nothing, CallApproved
<1> QED BY <1>1, <1>2 DEF PolicyInv

\* Text that was returned stays returned, so the taint is never without cause.
LEMMA HeardTaints == PolicyInv /\ heard => tainted
BY DEF PolicyInv, CallInv, TextReturned

\* Chosen calls ask for something.
LEMMA ModelCallsStep ==
    ASSUME PolicyInv, NEW C \in SUBSET Call, ModelCalls(C) PROVE PolicyInv'
<1> USE DEF PolicyInv, PolicyTypeOK
<1>1. PICK w \in [C -> Wants] : /\ \A c \in C : w[c].informed = heard
                                /\ want' = Chosen(w, C)
    BY DEF ModelCalls
<1>2. PolicyTypeOK'
    BY <1>1 DEF ModelCalls, Chosen, CallStates
<1>3. ASSUME NEW c \in Call PROVE CallInv(c)'
    <2>1. CASE c \in C BY <1>1, <2>1 DEF ModelCalls, Chosen, CallInv, CallApproved, Wants
    <2>2. CASE c \notin C BY <1>1, <2>2 DEF ModelCalls, Chosen, CallInv, CallApproved
    <2> QED BY <2>1, <2>2
<1>4. heard' => TextReturned'
    <2> SUFFICES ASSUME heard PROVE TextReturned' BY DEF ModelCalls
    <2>1. PICK c \in Call : state[c] = "looked" /\ want[c].target \in directory
        BY DEF TextReturned
    <2>2. c \notin C BY <2>1 DEF ModelCalls
    <2> QED BY <1>1, <2>1, <2>2 DEF ModelCalls, Chosen, TextReturned
<1> QED BY <1>2, <1>3, <1>4 DEF ModelCalls

\* Whatever a tool does to its own call, the others keep what is true of them.
LEMMA OtherCalls ==
    ASSUME PolicyInv, NEW c \in Call, NEW s \in CallStates, NEW d \in Call, c # d,
           state' = [state EXCEPT ![c] = s], tainted => tainted',
           UNCHANGED <<directory, heard, phase, want, decided>>
    PROVE  CallInv(d)'
BY DEF PolicyInv, PolicyTypeOK, CallInv, CallApproved

\* A tool leaves the text of earlier searches where it is.
LEMMA TextKept ==
    ASSUME PolicyInv, NEW c \in Call, NEW s \in CallStates, state[c] = "chosen",
           state' = [state EXCEPT ![c] = s],
           UNCHANGED <<directory, heard, phase, want, decided>>
    PROVE  heard' => TextReturned'
<1> SUFFICES ASSUME heard PROVE TextReturned' OBVIOUS
<1>1. PICK d \in Call : state[d] = "looked" /\ want[d].target \in directory
    BY DEF PolicyInv, TextReturned
<1> QED BY <1>1 DEF PolicyInv, PolicyTypeOK, TextReturned

LEMMA RunToolStep == ASSUME PolicyInv, NEW c \in Call, RunTool(c) PROVE PolicyInv'
<1> USE DEF RunTool, Becomes
<1>1. CASE SearchCustomerContext(c)
    <2>1. "looked" \in CallStates /\ (tainted => tainted')
        BY <1>1 DEF SearchCustomerContext, PolicyInv, PolicyTypeOK, CallStates
    <2>2. PolicyTypeOK' BY <1>1, <2>1 DEF SearchCustomerContext, PolicyInv, PolicyTypeOK
    <2>3. CallInv(c)'
        BY <1>1, <2>2 DEF SearchCustomerContext, PolicyInv, PolicyTypeOK, CallInv, CallApproved
    <2>4. \A d \in Call : CallInv(d)'
        BY <1>1, <2>1, <2>3, OtherCalls DEF SearchCustomerContext
    <2>5. heard' => TextReturned' BY <1>1, <2>1, TextKept DEF SearchCustomerContext
    <2> QED BY <1>1, <2>2, <2>4, <2>5 DEF SearchCustomerContext, PolicyInv
<1>2. CASE ApplyDiscount(c) \/ EscalateToLegal(c)
    <2>1. PICK s \in {"refused", "held", "applied", "escalated"} :
            /\ state' = [state EXCEPT ![c] = s]
            /\ s = DiscountResult(c) \/ s = EscalationResult(c)
        BY <1>2 DEF ApplyDiscount, EscalateToLegal, DiscountResult, EscalationResult
    <2>2. s \in CallStates /\ UNCHANGED tainted BY <1>2 DEF ApplyDiscount, EscalateToLegal, CallStates
    <2>3. PolicyTypeOK' BY <2>1, <2>2 DEF PolicyInv, PolicyTypeOK
    <2>4. CallInv(c)'
        <3>1. want[c].informed => tainted BY HeardTaints DEF PolicyInv, CallInv
        <3>2. state'[c] = s BY <2>1 DEF PolicyInv, PolicyTypeOK
        <3>3. decided[c] # "denied" /\ phase = "tools" BY DEF PolicyInv, CallInv
        <3>4. s = "held" => ~CallApproved(c)
            BY <2>1 DEF DiscountResult, EscalationResult
        <3>5. s \in {"applied", "escalated"} => KnownRecipient(c)
            BY <2>1 DEF DiscountResult, EscalationResult
        <3>6. s = "applied" => (NeedsApproval(c) => CallApproved(c))
            BY <2>1 DEF DiscountResult, EscalationResult
        <3>7. s = "escalated" => CallApproved(c)
            BY <2>1 DEF DiscountResult, EscalationResult
        <3> QED
            BY <2>2, <3>1, <3>2, <3>3, <3>4, <3>5, <3>6, <3>7
            DEF PolicyInv, PolicyTypeOK, CallInv, CallApproved, KnownRecipient, NeedsApproval
    <2>5. \A d \in Call : CallInv(d)' BY <2>1, <2>2, <2>4, OtherCalls
    <2>6. heard' => TextReturned' BY <2>1, <2>2, TextKept
    <2> QED BY <2>2, <2>3, <2>5, <2>6 DEF PolicyInv
<1> QED BY <1>1, <1>2

\* The turn ends with every call answered or held, the held ones wait.
LEMMA TurnEndsStep == ASSUME PolicyInv, TurnEnds PROVE PolicyInv'
<1> USE DEF PolicyInv, PolicyTypeOK, TurnEnds
<1>1. PolicyTypeOK' BY DEF CallStates, TextReturned
<1>2. TextReturned' <=> TextReturned BY DEF TextReturned
<1>3. ASSUME NEW c \in Call PROVE CallInv(c)'
    <2>1. heard => heard' BY <1>2
    <2> QED BY <2>1 DEF CallInv, CallApproved
<1>4. phase' = "stopped" => \E c \in Call : state'[c] = "waiting" OBVIOUS
<1> QED BY <1>1, <1>2, <1>3, <1>4

\* A resume decides the calls that wait, and no others.
LEMMA ResumeStep == ASSUME PolicyInv, NEW A \in SUBSET Call, Resume(A) PROVE PolicyInv'
<1> USE DEF PolicyInv, PolicyTypeOK
<1>1. PICK w \in Overrides(A) : want' = Chosen(w, A) BY DEF Resume
<1>2. PolicyTypeOK'
    <2>1. want' \in [Call -> Wants \cup {Nothing}] BY <1>1 DEF Chosen, Overrides
    <2>2. state' \in [Call -> CallStates] BY DEF Resume, ToRun, CallStates
    <2>3. decided' \in [Call -> {"none", "approved", "denied"}] BY DEF Resume
    <2> QED BY <2>1, <2>2, <2>3 DEF Resume, DepsTaint
<1>3. tainted' = tainted BY DEF Resume, DepsTaint
<1>4. ASSUME NEW c \in Call PROVE CallInv(c)'
    <2>1. CASE c \in A
        BY <1>1, <1>3, <2>1 DEF Resume, Overrides, Chosen, ToRun, Waiting, CallInv, CallApproved
    <2>2. CASE c \in Waiting \ A
        BY <1>1, <1>3, <2>2 DEF Resume, Chosen, ToRun, Waiting, CallInv, CallApproved
    <2>3. CASE c \notin Waiting
        BY <1>1, <1>3, <2>3 DEF Resume, Chosen, ToRun, Waiting, CallInv, CallApproved
    <2> QED BY <2>1, <2>2, <2>3
<1>5. heard' => TextReturned'
    <2> SUFFICES ASSUME heard PROVE TextReturned' BY DEF Resume
    <2>1. PICK c \in Call : state[c] = "looked" /\ want[c].target \in directory
        BY DEF TextReturned
    <2>2. c \notin Waiting BY <2>1 DEF Waiting
    <2> QED BY <1>1, <2>1, <2>2 DEF Resume, Chosen, ToRun, TextReturned
<1> QED BY <1>2, <1>3, <1>4, <1>5 DEF Resume

\* The end of the conversation changes nothing but its phase.
LEMMA PolicyEndStep == ASSUME PolicyInv, GiveAnswer \/ Fails PROVE PolicyInv'
<1>1. phase' \in {"model", "over"} /\ phase \in {"model", "tools"}
      /\ (phase' = "model" => phase = "model")
    BY DEF GiveAnswer, Fails
<1>2. UNCHANGED <<directory, tainted, heard, want, state, decided>> BY DEF GiveAnswer, Fails
<1>3. PolicyTypeOK' BY <1>1, <1>2 DEF PolicyInv, PolicyTypeOK
<1>4. \A c \in Call : CallInv(c)' BY <1>1, <1>2 DEF PolicyInv, CallInv, CallApproved
<1>5. TextReturned' <=> TextReturned BY <1>2 DEF TextReturned
<1> QED BY <1>1, <1>2, <1>3, <1>4, <1>5 DEF PolicyInv

-----------------------------------------------------------------------------
\* The invariant holds in every reachable state.
THEOREM PolicyInvariant == PolicySpec => []PolicyInv
<1>1. PolicyInv /\ [PolicyNext]_policyVars => PolicyInv'
    <2> SUFFICES ASSUME PolicyInv, [PolicyNext]_policyVars PROVE PolicyInv' OBVIOUS
    <2>1. CASE UNCHANGED policyVars
        BY <2>1 DEF policyVars, PolicyInv, PolicyTypeOK, CallInv, CallApproved, TextReturned
    <2> QED BY <2>1, ModelCallsStep, RunToolStep, TurnEndsStep, ResumeStep, PolicyEndStep DEF PolicyNext
<1> QED BY <1>1, InitInv, PTL DEF PolicySpec

\* Risky discounts and escalations have been approved, whatever the number of
\* stops between the customer text and the discount.
THEOREM RiskIsApproved == PolicySpec => []NoUnapprovedRisk
<1>1. PolicyInv => NoUnapprovedRisk BY DEF PolicyInv, CallInv, NoUnapprovedRisk
<1> QED BY <1>1, PolicyInvariant, PTL

\* The allow-list is never passed, approved or not.
THEOREM RecipientsAreKnown == PolicySpec => []OnlyKnownActedOn
<1>1. PolicyInv => OnlyKnownActedOn BY DEF PolicyInv, CallInv, OnlyKnownActedOn
<1> QED BY <1>1, PolicyInvariant, PTL

-----------------------------------------------------------------------------
(***************************************************************************)
(* The refinement: each step of the conversation is a step of the gate or  *)
(* leaves it alone.                                                        *)
(***************************************************************************)

\* What the gate sees is what GatePhase and GateOf say.
LEMMA PolicyGateStutters ==
    ASSUME GatePhase' = GatePhase, \A c \in Call : GateOf(c)' = GateOf(c)
    PROVE  UNCHANGED PolicyGate!gvars
BY DEF PolicyGate!gvars

\* Nobody was asked about anything yet.
LEMMA PolicyGateInit == PolicyInit => PolicyGate!Init
BY DEF PolicyInit, PolicyGate!Init, GatePhase, GateOf, Unsettled

\* New calls are as unseen as unused ones.
LEMMA GateModelCalls ==
    ASSUME PolicyInv, NEW C \in SUBSET Call, ModelCalls(C) PROVE UNCHANGED PolicyGate!gvars
<1>1. GatePhase' = GatePhase BY DEF ModelCalls, GatePhase
<1>2. ASSUME NEW c \in Call PROVE GateOf(c)' = GateOf(c)
    BY DEF ModelCalls, PolicyInv, CallInv, GateOf, Unsettled
<1> QED BY <1>1, <1>2, PolicyGateStutters

\* An approved call executes; any other one is not the gate's business.
LEMMA GateRunTool ==
    ASSUME PolicyInv, NEW c \in Call, RunTool(c)
    PROVE  PolicyGate!Execute("run", c) \/ UNCHANGED PolicyGate!gvars
<1> USE DEF RunTool, PolicyInv, PolicyTypeOK
<1>1. PICK s \in {"looked", "refused", "held", "applied", "escalated"} :
        /\ state' = [state EXCEPT ![c] = s]
        /\ s = "held" => decided[c] # "approved"
    BY DEF SearchCustomerContext, ApplyDiscount, EscalateToLegal, Becomes,
           DiscountResult, EscalationResult, CallApproved
<1>2. GatePhase' = GatePhase BY DEF GatePhase
<1>3. \A d \in Call : d # c => GateOf(d)' = GateOf(d) BY <1>1 DEF GateOf, Unsettled
<1>4. CASE decided[c] = "approved"
    <2>1. GateOf(c) = "approved" /\ GateOf(c)' = "executed" BY <1>1, <1>4 DEF GateOf
    <2>2. GatePhase = "deciding" BY <1>4 DEF GatePhase
    <2> QED BY <1>2, <1>3, <2>1, <2>2 DEF PolicyGate!Execute
<1>5. CASE decided[c] # "approved"
    <2>1. decided[c] = "none" BY <1>5 DEF CallInv
    <2>2. GateOf(c)' = GateOf(c) BY <1>1, <2>1 DEF GateOf, Unsettled
    <2> QED BY <1>2, <1>3, <2>2, PolicyGateStutters
<1> QED BY <1>4, <1>5

\* A turn with held calls asks for them, in a round of its own.
LEMMA GateTurnEnds ==
    ASSUME PolicyInv, TurnEnds
    PROVE  (\E K \in SUBSET Call : PolicyGate!Ask("run", K)) \/ UNCHANGED PolicyGate!gvars
<1> USE DEF TurnEnds, PolicyInv, PolicyTypeOK
<1> DEFINE K == {c \in Call : state[c] = "held"}
<1>1. \A c \in Call : GateOf(c) \notin {"waiting", "approved"} BY DEF GateOf, Unsettled, CallInv
<1>2. CASE K # {}
    <2>1. GatePhase \in {"new", "deciding"} /\ GatePhase' = "open" BY <1>2 DEF GatePhase
    <2>2. \A c \in K : GateOf(c) = "unseen" /\ GateOf(c)' = "waiting"
        BY DEF GateOf, Unsettled, CallInv
    <2>3. \A c \in Call \ K : GateOf(c)' = GateOf(c) BY <1>2 DEF GateOf, Unsettled, CallInv
    <2>4. PolicyGate!Ask("run", K) BY <1>1, <1>2, <2>1, <2>2, <2>3 DEF PolicyGate!Ask
    <2> QED BY <2>4
<1>3. CASE K = {}
    <2>1. GatePhase' = GatePhase BY <1>3 DEF GatePhase
    <2>2. \A c \in Call : GateOf(c)' = GateOf(c) BY <1>3 DEF GateOf, Unsettled, CallInv
    <2> QED BY <2>1, <2>2, PolicyGateStutters
<1> QED BY <1>2, <1>3

\* A resume decides all that waits.
LEMMA GateResume ==
    ASSUME PolicyInv, NEW A \in SUBSET Call, Resume(A)
    PROVE  PolicyGate!Decide("run", A, Waiting \ A)
<1> USE DEF Resume, PolicyInv, PolicyTypeOK
<1>1. A \subseteq Waiting /\ Waiting # {} BY DEF Waiting
<1>2. \A c \in Waiting : decided[c] = "none" /\ GateOf(c) = "waiting"
    BY DEF Waiting, CallInv, GateOf, Unsettled
<1>3. GatePhase = "open" /\ GatePhase' = "deciding" BY <1>1, <1>2 DEF GatePhase, Waiting
<1>4. \A c \in A : GateOf(c)' = "approved" BY <1>1 DEF GateOf, ToRun, Waiting
<1>5. \A c \in Waiting \ A : GateOf(c)' = "denied" BY DEF GateOf, ToRun, Waiting
<1>6. \A c \in Call \ Waiting : GateOf(c)' = GateOf(c)
    BY <1>1 DEF GateOf, Unsettled, ToRun, Waiting
<1>7. A \cup (Waiting \ A) = Waiting /\ Waiting \subseteq Call BY <1>1 DEF Waiting
<1>8. \A c \in A \cup (Waiting \ A) : GateOf(c) = "waiting" BY <1>2, <1>7
<1>9. \A c \in Call : GateOf(c)' = IF c \in A THEN "approved"
                                 ELSE IF c \in Waiting \ A THEN "denied" ELSE GateOf(c)
    BY <1>4, <1>5, <1>6
<1> HIDE DEF Resume, PolicyInv, PolicyTypeOK
<1> QED BY <1>1, <1>3, <1>7, <1>8, <1>9 DEF PolicyGate!Decide

\* The end closes the session, and voids what nobody was asked about.
LEMMA GateEnds ==
    ASSUME PolicyInv, GiveAnswer \/ Fails
    PROVE  PolicyGate!Close({"run"}) \/ UNCHANGED PolicyGate!gvars
<1> USE DEF PolicyInv, PolicyTypeOK
<1>1. /\ phase \in {"model", "tools"} /\ phase' \in {phase, "over"}
      /\ UNCHANGED <<state, decided>>
    BY DEF GiveAnswer, Fails
<1>2. CASE phase' = phase
    BY <1>1, <1>2, PolicyGateStutters DEF GatePhase, GateOf, Unsettled
<1>3. CASE phase' = "over"
    <2>1. GatePhase # "closed" /\ GatePhase' = "closed" BY <1>1, <1>3 DEF GatePhase
    <2>2. \A c \in Call : GateOf(c)' = IF GateOf(c) \in {"unseen", "waiting"}
                                       THEN "void" ELSE GateOf(c)
        BY <1>1, <1>3 DEF GateOf, Unsettled, CallInv
    <2> QED BY <2>1, <2>2 DEF PolicyGate!Close
<1> QED BY <1>1, <1>2, <1>3

\* The agent, with the approvals of the framework, implements the abstract gate.
THEOREM PolicyImplementsGate == PolicySpec => PolicyKeepsGate
<1>1. PolicyInv /\ [PolicyNext]_policyVars => [PolicyGate!Next]_PolicyGate!gvars
    <2> SUFFICES ASSUME PolicyInv, [PolicyNext]_policyVars PROVE [PolicyGate!Next]_PolicyGate!gvars OBVIOUS
    <2>1. CASE UNCHANGED policyVars
        BY <2>1, PolicyGateStutters DEF policyVars, GatePhase, GateOf, Unsettled
    <2>2. ASSUME NEW C \in SUBSET Call, ModelCalls(C) PROVE UNCHANGED PolicyGate!gvars
        BY <2>2, GateModelCalls
    <2>3. ASSUME NEW c \in Call, RunTool(c) PROVE PolicyGate!Next \/ UNCHANGED PolicyGate!gvars
        BY <2>3, GateRunTool DEF PolicyGate!Next
    <2>4. ASSUME TurnEnds PROVE PolicyGate!Next \/ UNCHANGED PolicyGate!gvars
        BY <2>4, GateTurnEnds DEF PolicyGate!Next
    <2>5. ASSUME NEW A \in SUBSET Call, Resume(A) PROVE PolicyGate!Next
        <3>1. Waiting \ A \in SUBSET Call BY DEF Waiting
        <3> QED BY <2>5, <3>1, GateResume DEF PolicyGate!Next
    <2>6. ASSUME GiveAnswer \/ Fails PROVE PolicyGate!Next \/ UNCHANGED PolicyGate!gvars
        BY <2>6, GateEnds DEF PolicyGate!Next
    <2> QED BY <2>1, <2>2, <2>3, <2>4, <2>5, <2>6 DEF PolicyNext
<1> QED BY <1>1, PolicyGateInit, PolicyInvariant, PTL DEF PolicySpec, PolicyKeepsGate, PolicyGate!Spec
=============================================================================
