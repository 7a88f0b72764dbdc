------------------------- MODULE ChatServiceProofs -------------------------
(***************************************************************************)
(* Proofs about ChatService for any number of requests, any chain, budget, *)
(* timeout and vocabulary of sources; and about ProviderConfig, where the  *)
(* chain and the agent of a chat come from.                                *)
(***************************************************************************)
EXTENDS ChatService, ProviderConfig, SequenceLemmas

USE ChatAssumption

\* The chain has a length, and every position of it has a number.
LEMMA ChainLength == Len(Order) \in Nat \ {0}
  OBVIOUS

(***************************************************************************)
(* What one more counted model request adds to the allowance.              *)
(***************************************************************************)
LEMMA OneMoreRequest ==
  ASSUME NEW m \in Nat, NEW L \in Nat
  PROVE  m * L \in Nat /\ (m + 1) * L = m * L + L
  OBVIOUS

LEMMA WithinLimit ==
  ASSUME NEW m \in Nat, NEW n \in Nat, NEW L \in Nat, m <= n
  PROVE  m * L <= n * L
<1>1. PICK d \in Nat : n = m + d
  <2>1. n - m \in Nat /\ n = m + (n - m)
    OBVIOUS
  <2> QED
    BY <2>1
<1>2. n * L = m * L + d * L
  BY <1>1
<1>3. m * L \in Nat /\ d * L \in Nat
  BY OneMoreRequest
<1> QED
  BY <1>2, <1>3

LEMMA ShareType ==
  ASSUME NEW i \in DOMAIN Order
  PROVE  MayRetry(i) \in Nat /\ Share(i) \in Nat /\ Share(i) = MayRetry(i) + 1
  BY DEF Share, MayRetry

\* What a member may cost before, during and after one more model request.
LEMMA Allowance ==
  ASSUME TypeOK, NEW r \in Request, NEW i \in DOMAIN Order
  PROVE  /\ made[r] * Share(i) \in Nat
         /\ made[r] * Share(i) <= RequestLimit * Share(i)
         /\ RequestLimit * Share(i) \in Nat
         /\ (made[r] + 1) * Share(i) = made[r] * Share(i) + Share(i)
         /\ made[r] < RequestLimit => made[r] * Share(i) + Share(i) <= RequestLimit * Share(i)
<1>1. made[r] \in 0..RequestLimit /\ RequestLimit \in Nat /\ Share(i) \in Nat
  BY ShareType DEF TypeOK
<1>2. made[r] * Share(i) \in Nat /\ RequestLimit * Share(i) \in Nat
  BY <1>1, OneMoreRequest
<1>3. made[r] * Share(i) <= RequestLimit * Share(i)
  BY <1>1, WithinLimit
<1>4. (made[r] + 1) * Share(i) = made[r] * Share(i) + Share(i)
  BY <1>1, OneMoreRequest
<1>5. made[r] < RequestLimit => (made[r] + 1) * Share(i) <= RequestLimit * Share(i)
  BY <1>1, WithinLimit
<1> QED
  BY <1>2, <1>3, <1>4, <1>5

\* A model request under way has cost a member its share at most.
LEMMA UnderWayBound ==
  ASSUME NEW r \in Request, TypeOK, SpendInv(r), NEW i \in DOMAIN Order
  PROVE  /\ UnderWay(r, i) \in 0..Share(i)
         /\ phase[r] \notin {"trying", "connecting", "calling"} => UnderWay(r, i) = 0
<1>1. /\ Share(i) \in Nat /\ Share(i) = MayRetry(i) + 1
      /\ i \in Nat /\ member[r] \in Nat /\ retried[r] \in Nat
  <2>1. i \in Nat
    OBVIOUS
  <2>2. member[r] \in Nat /\ retried[r] \in Nat
    BY ChainLength DEF TypeOK
  <2> QED
    BY <2>1, <2>2, ShareType
<1>2. phase[r] = "calling" => retried[r] <= MayRetry(member[r])
  BY DEF SpendInv
<1>3. MayRetry(i) \in Nat
  BY ShareType
<1> QED
  BY <1>1, <1>2, <1>3 DEF UnderWay

\* So a member costs at most its share of every model request in the budget.
LEMMA SpendFits ==
  ASSUME NEW r \in Request, TypeOK, SpendInv(r), NEW i \in DOMAIN Order
  PROVE  calls[r][i] <= RequestLimit * Share(i)
<1>1. calls[r][i] <= made[r] * Share(i) + UnderWay(r, i)
  BY DEF SpendInv, Allowed
<1>2. calls[r][i] \in Nat
  BY DEF TypeOK
<1>3. CASE phase[r] \in {"trying", "connecting", "calling"}
  <2>1. made[r] < RequestLimit
    BY <1>3 DEF SpendInv
  <2> QED
    BY <1>1, <1>2, <2>1, Allowance, UnderWayBound, ShareType
<1>4. CASE phase[r] \notin {"trying", "connecting", "calling"}
  BY <1>1, <1>2, <1>4, Allowance, UnderWayBound
<1> QED
  BY <1>3, <1>4

-----------------------------------------------------------------------------
LEMMA ChatInit == Init => ChatInv
<1> SUFFICES ASSUME Init PROVE ChatInv
  OBVIOUS
<1>1. TypeOK
  BY ChainLength DEF Init, TypeOK, Phases, Answers
<1>2. ASSUME NEW r \in Request PROVE SpendInv(r)
  <2>1. ASSUME NEW i \in DOMAIN Order PROVE calls[r][i] <= Allowed(r, i)
    <3>1. calls[r][i] = 0 /\ made[r] * Share(i) \in Nat /\ UnderWay(r, i) = 0
      BY <1>1, Allowance DEF Init, UnderWay
    <3> QED
      BY <3>1 DEF Allowed
  <2> QED
    BY <2>1 DEF Init, SpendInv
<1> QED
  BY <1>1, <1>2 DEF Init, ChatInv, CitesOnlyFound, NothingLeftBehind

(***************************************************************************)
(* A request whose counters a step leaves alone has spent no more.         *)
(***************************************************************************)
LEMMA BystanderSpends ==
  ASSUME NEW s \in Request, SpendInv(s),
         phase'[s] = phase[s], member'[s] = member[s],
         made'[s] = made[s], calls'[s] = calls[s], retried'[s] = retried[s]
  PROVE  SpendInv(s)'
BY DEF SpendInv, Allowed, UnderWay

\* What a run has spent fits the allowance that includes the request it made.
LEMMA CountedSpends ==
  ASSUME NEW r \in Request, ChatInv, phase[r] = "calling"
  PROVE  /\ made[r] < RequestLimit
         /\ \A i \in DOMAIN Order : calls[r][i] <= (made[r] + 1) * Share(i)
<1>1. TypeOK /\ SpendInv(r) /\ made[r] < RequestLimit
  BY DEF ChatInv, SpendInv
<1>2. ASSUME NEW i \in DOMAIN Order PROVE calls[r][i] <= (made[r] + 1) * Share(i)
  <2>1. calls[r][i] <= made[r] * Share(i) + UnderWay(r, i) /\ calls[r][i] \in Nat
    BY <1>1 DEF SpendInv, Allowed, TypeOK
  <2> QED
    BY <1>1, <2>1, Allowance, UnderWayBound, ShareType
<1> QED
  BY <1>1, <1>2

-----------------------------------------------------------------------------
\* One lemma per action.

LEMMA TickKeeps == ChatInv /\ Tick => ChatInv'
<1> SUFFICES ASSUME ChatInv, Tick PROVE ChatInv'
  OBVIOUS
<1>1. left' \in [Request -> -1..Timeout]
  <2>1. \A r \in Request : left[r] \in -1..Timeout
    BY DEF ChatInv, TypeOK
  <2>2. \A r \in Request : left[r] >= 0 => left[r] - 1 \in -1..Timeout
    BY <2>1, ChatAssumption
  <2>3. left' = [r \in Request |-> IF phase[r] \in Running /\ left[r] >= 0 THEN left[r] - 1 ELSE left[r]]
    BY DEF Tick
  <2> QED BY <2>1, <2>2, <2>3
<1>2. TypeOK'
  BY <1>1 DEF ChatInv, TypeOK, Tick
<1>3. ASSUME NEW s \in Request PROVE SpendInv(s)'
  BY BystanderSpends DEF ChatInv, Tick
<1> QED
  BY <1>2, <1>3 DEF ChatInv, Tick, CitesOnlyFound, NothingLeftBehind

LEMMA LookUpKeeps == ASSUME NEW r \in Request, ChatInv, LookUp(r) PROVE ChatInv'
<1>1. agent' \in [Request -> Request \cup {NoOne}] /\ phase' \in [Request -> Phases]
  <2>1. CASE cached = NoOne
    BY <2>1 DEF ChatInv, TypeOK, LookUp, Phases
  <2>2. CASE cached # NoOne
    <3>1. agent' = [agent EXCEPT ![r] = cached] /\ phase' = [phase EXCEPT ![r] = "resolved"]
      BY <2>2 DEF LookUp
    <3> QED
      BY <3>1 DEF ChatInv, TypeOK, Phases
  <2> QED
    BY <2>1, <2>2
<1>2. phase[r] = "new" /\ phase'[r] \in {"building", "resolved"}
  BY DEF ChatInv, TypeOK, LookUp
<1>3. \A s \in Request : s # r => phase'[s] = phase[s] /\ agent'[s] = agent[s]
  <2>1. CASE cached = NoOne
    BY <2>1 DEF ChatInv, TypeOK, LookUp
  <2>2. CASE cached # NoOne
    BY <2>2 DEF ChatInv, TypeOK, LookUp
  <2> QED
    BY <2>1, <2>2
<1>4. agent'[r] = NoOne => phase'[r] = "building"
  BY DEF ChatInv, TypeOK, LookUp
<1>5. UNCHANGED <<cached, connected, loop, answer, left, member, inflight, made, calls, retried, found, sources>>
  BY DEF LookUp, run
<1>6. TypeOK'
  BY <1>1, <1>5 DEF ChatInv, TypeOK
<1>7. ASSUME NEW s \in Request PROVE SpendInv(s)'
  <2>1. CASE s = r
    BY <2>1, <1>2, <1>5 DEF ChatInv, SpendInv, Allowed, UnderWay
  <2>2. CASE s # r
    BY <2>2, <1>3, <1>5, BystanderSpends DEF ChatInv
  <2> QED
    BY <2>1, <2>2
<1> QED
  BY <1>2, <1>3, <1>4, <1>5, <1>6, <1>7 DEF ChatInv, CitesOnlyFound, NothingLeftBehind

LEMMA BuildKeeps == ASSUME NEW r \in Request, ChatInv, Build(r) PROVE ChatInv'
<1>1. TypeOK'
  BY DEF ChatInv, TypeOK, Build, run, Phases
<1>2. ASSUME NEW s \in Request PROVE SpendInv(s)'
  BY DEF ChatInv, TypeOK, Build, run, SpendInv, Allowed, UnderWay
<1> QED
  BY <1>1, <1>2 DEF ChatInv, TypeOK, Build, run, CitesOnlyFound, NothingLeftBehind

LEMMA StartKeeps == ASSUME NEW r \in Request, ChatInv, Start(r) PROVE ChatInv'
<1>1. TypeOK'
  BY DEF ChatInv, TypeOK, Start, run, Phases
<1>2. ASSUME NEW s \in Request PROVE SpendInv(s)'
  BY DEF ChatInv, TypeOK, Start, run, SpendInv, Allowed, UnderWay
<1> QED
  BY <1>1, <1>2 DEF ChatInv, TypeOK, Start, run, CitesOnlyFound, NothingLeftBehind

(***************************************************************************)
(* A step that ends the run of r with a status and leaves the other        *)
(* requests alone keeps the invariant.                                     *)
(***************************************************************************)
LEMMA FinishKeeps ==
  ASSUME NEW r \in Request, ChatInv, NEW status \in Answers \ {"none"}, Finish(r, status),
         phase[r] \in Running, loop' = NoOne, loop \in {NoOne, r},
         sources' \in [Request -> SUBSET Ids],
         \A s \in Request : s # r => sources'[s] = sources[s],
         sources'[r] \subseteq found[r],
         UNCHANGED <<cached, agent, connected, found>>
  PROVE  ChatInv'
<1>0. /\ left' = [left EXCEPT ![r] = Timeout] /\ member' = [member EXCEPT ![r] = 1]
      /\ made' = [made EXCEPT ![r] = 0] /\ retried' = [retried EXCEPT ![r] = 0]
      /\ calls' = [calls EXCEPT ![r] = [i \in DOMAIN Order |-> 0]]
  BY DEF Finish, CallEnds
<1>1. TypeOK'
  <2>1. Timeout \in -1..Timeout /\ 1 \in 1..Len(Order) /\ 0 \in 0..RequestLimit
    BY ChainLength
  <2>2. /\ left' \in [Request -> -1..Timeout] /\ member' \in [Request -> 1..Len(Order)]
        /\ made' \in [Request -> 0..RequestLimit] /\ retried' \in [Request -> Nat]
        /\ calls' \in [Request -> [DOMAIN Order -> Nat]]
    BY <1>0, <2>1 DEF ChatInv, TypeOK
  <2>3. /\ phase' \in [Request -> Phases] /\ answer' \in [Request -> Answers]
        /\ inflight' \subseteq Request
    BY DEF ChatInv, TypeOK, Finish, CallEnds, Drop, Phases, Answers
  <2> QED
    BY <2>2, <2>3 DEF ChatInv, TypeOK
<1>2. phase'[r] = "done" /\ \A s \in Request : s # r => phase'[s] = phase[s]
  BY DEF ChatInv, TypeOK, Finish
<1>3. ASSUME NEW s \in Request PROVE SpendInv(s)'
  <2>1. CASE s = r
    <3>1. /\ calls'[r] = [i \in DOMAIN Order |-> 0] /\ retried'[r] = 0 /\ made'[r] = 0
      BY <1>0 DEF ChatInv, TypeOK
    <3>2. ASSUME NEW i \in DOMAIN Order PROVE calls'[r][i] <= Allowed(r, i)'
      <4>1. UnderWay(r, i)' = 0
        BY <1>2 DEF UnderWay
      <4>2. Share(i)' = Share(i) /\ Share(i) \in Nat
        BY ShareType DEF Share, MayRetry
      <4> QED
        BY <3>1, <4>1, <4>2 DEF Allowed
    <3> QED
      BY <2>1, <1>2, <3>1, <3>2 DEF SpendInv
  <2>2. CASE s # r
    BY <2>2, <1>0, <1>2, BystanderSpends DEF ChatInv, TypeOK
  <2> QED
    BY <2>1, <2>2
<1>4. r \notin inflight' /\ \A s \in Request : s # r => (s \in inflight' <=> s \in inflight)
  BY DEF Finish, CallEnds, Drop
<1>5. answer'[r] = status /\ \A s \in Request : s # r => answer'[s] = answer[s]
  BY DEF ChatInv, TypeOK, Finish
<1>6. ASSUME NEW s \in Request
      PROVE  /\ agent'[s] = NoOne => phase'[s] \in {"new", "building"}
             /\ loop' = s <=> phase'[s] = "connecting"
             /\ s \in inflight' <=> phase'[s] = "calling"
  <2>1. CASE s = r
    BY <2>1, <1>2, <1>4 DEF ChatInv, Running
  <2>2. CASE s # r
    BY <2>2, <1>2, <1>4 DEF ChatInv
  <2> QED
    BY <2>1, <2>2
<1>7. CitesOnlyFound'
  BY DEF ChatInv, CitesOnlyFound
<1>8. NothingLeftBehind'
  BY <1>2, <1>4, <1>5 DEF ChatInv, NothingLeftBehind
<1> QED
  BY <1>1, <1>3, <1>6, <1>7, <1>8 DEF ChatInv

LEMMA ExpireKeeps == ASSUME NEW r \in Request, ChatInv, Expire(r) PROVE ChatInv'
<1>1. "504" \in Answers \ {"none"}
  BY DEF Answers
<1>2. Finish(r, "504") /\ phase[r] \in Running /\ loop = NoOne
  BY DEF Expire
<1>3. UNCHANGED <<cached, agent, connected, loop, found, sources>>
  BY DEF Expire
<1> QED
  BY <1>1, <1>2, <1>3, FinishKeeps DEF ChatInv, TypeOK, CitesOnlyFound

LEMMA RunBreaksKeeps ==
  ASSUME NEW r \in Request, ChatInv, NEW status \in {"500", "504"}, RunBreaks(r, status)
  PROVE  ChatInv'
<1>1. status \in Answers \ {"none"}
  BY DEF Answers
<1>2. Finish(r, status) /\ phase[r] \in Running /\ loop \in {NoOne, r} /\ loop' = NoOne
  BY DEF RunBreaks, Running
<1>3. UNCHANGED <<cached, agent, connected, found, sources>>
  BY DEF RunBreaks
<1> QED
  BY <1>1, <1>2, <1>3, FinishKeeps DEF ChatInv, TypeOK, CitesOnlyFound

LEMMA TokensExceededKeeps == ASSUME NEW r \in Request, ChatInv, TokensExceeded(r) PROVE ChatInv'
<1>1. "429" \in Answers \ {"none"}
  BY DEF Answers
<1>2. Finish(r, "429") /\ phase[r] \in Running /\ loop = NoOne
  BY DEF TokensExceeded, Running
<1>3. UNCHANGED <<cached, agent, connected, loop, found, sources>>
  BY DEF TokensExceeded
<1> QED
  BY <1>1, <1>2, <1>3, FinishKeeps DEF ChatInv, TypeOK, CitesOnlyFound

LEMMA AnswerOkKeeps ==
  ASSUME NEW r \in Request, ChatInv, NEW claimed \in SUBSET Ids, AnswerOk(r, claimed)
  PROVE  ChatInv'
<1>1. "200" \in Answers \ {"none"}
  BY DEF Answers
<1>2. Finish(r, "200") /\ phase[r] \in Running /\ loop = NoOne
  BY DEF AnswerOk, Running
<1>3. UNCHANGED <<cached, agent, connected, loop, found>>
  BY DEF AnswerOk
<1>4. Grounded(claimed, found[r]) \in SUBSET Ids /\ Grounded(claimed, found[r]) \subseteq found[r]
  BY DEF Grounded, ChatInv, TypeOK
<1>5. /\ sources' \in [Request -> SUBSET Ids]
      /\ sources'[r] \subseteq found[r]
      /\ \A s \in Request : s # r => sources'[s] = sources[s]
  BY <1>4 DEF AnswerOk, ChatInv, TypeOK
<1> QED
  BY <1>1, <1>2, <1>3, <1>5, FinishKeeps

LEMMA BeginTurnKeeps == ASSUME NEW r \in Request, ChatInv, BeginTurn(r) PROVE ChatInv'
<1>0. phase[r] = "turn" /\ loop = NoOne
  BY DEF BeginTurn
<1>u. UNCHANGED <<cached, agent, connected, loop, found, sources>>
  BY DEF BeginTurn
<1>1. CASE CanRequest(made[r])
  <2>1. /\ phase' = [phase EXCEPT ![r] = "trying"]
        /\ member' = [member EXCEPT ![r] = 1]
        /\ UNCHANGED <<answer, inflight, left, made, calls, retried>>
    BY <1>1 DEF BeginTurn
  <2>2. TypeOK'
    <3>1. 1 \in 1..Len(Order)
      BY ChainLength
    <3>2. phase' \in [Request -> Phases] /\ member' \in [Request -> 1..Len(Order)]
      BY <2>1, <3>1 DEF ChatInv, TypeOK, Phases
    <3> QED
      BY <1>u, <2>1, <3>2 DEF ChatInv, TypeOK
  <2>3. phase'[r] = "trying" /\ member'[r] = 1
    BY <2>1 DEF ChatInv, TypeOK
  <2>4. \A s \in Request : s # r => phase'[s] = phase[s] /\ member'[s] = member[s]
    BY <2>1 DEF ChatInv, TypeOK
  <2>5. made[r] < RequestLimit
    BY <1>1 DEF CanRequest, ChatInv, TypeOK
  <2>6. ASSUME NEW s \in Request PROVE SpendInv(s)'
    <3>1. CASE s = r
      <4>1. ASSUME NEW i \in DOMAIN Order PROVE Allowed(r, i)' = Allowed(r, i)
        <5>1. UnderWay(r, i) = 0 /\ UnderWay(r, i)' = 0
          BY <1>0, <2>3 DEF UnderWay
        <5> QED
          BY <2>1, <5>1 DEF Allowed, Share, MayRetry
      <4> QED
        BY <3>1, <1>0, <2>1, <2>3, <2>5, <4>1 DEF ChatInv, SpendInv
    <3>2. CASE s # r
      BY <3>2, <2>1, <2>4, BystanderSpends DEF ChatInv
    <3> QED
      BY <3>1, <3>2
  <2> QED
    BY <1>0, <1>u, <2>1, <2>2, <2>3, <2>4, <2>6 DEF ChatInv, CitesOnlyFound, NothingLeftBehind
<1>2. CASE ~CanRequest(made[r])
  <2>1. Finish(r, "429")
    BY <1>2 DEF BeginTurn
  <2>2. "429" \in Answers \ {"none"} /\ phase[r] \in Running
    BY <1>0 DEF Answers, Running
  <2> QED
    BY <1>0, <1>u, <2>1, <2>2, FinishKeeps DEF ChatInv, TypeOK, CitesOnlyFound
<1> QED
  BY <1>1, <1>2

\* Counting one more model request stays within the limit.
LEMMA CountKeeps ==
  ASSUME NEW r \in Request, ChatInv, phase[r] = "calling", made' = [made EXCEPT ![r] = @ + 1]
  PROVE  /\ made' \in [Request -> 0..RequestLimit]
         /\ made'[r] = made[r] + 1
         /\ \A s \in Request : s # r => made'[s] = made[s]
<1>1. made[r] < RequestLimit /\ made[r] \in 0..RequestLimit
  BY CountedSpends DEF ChatInv, TypeOK
<1>2. made[r] + 1 \in 0..RequestLimit
  BY <1>1
<1> QED
  BY <1>2 DEF ChatInv, TypeOK

LEMMA ContinueKeeps ==
  ASSUME NEW r \in Request, ChatInv, NEW S \in SUBSET Ids, Continue(r, S)
  PROVE  ChatInv'
<1>0. phase[r] = "calling" /\ loop = NoOne
  BY DEF Continue
<1>1. UNCHANGED <<cached, agent, connected, loop, answer, left, member, calls, sources>>
  BY DEF Continue
<1>r. /\ retried' \in [Request -> Nat] /\ retried'[r] = 0
      /\ \A s \in Request : s # r => retried'[s] = retried[s]
  BY DEF Continue, CallEnds, ChatInv, TypeOK
<1>2. /\ made' \in [Request -> 0..RequestLimit]
      /\ made'[r] = made[r] + 1
      /\ \A s \in Request : s # r => made'[s] = made[s]
  BY <1>0, CountKeeps DEF Continue
<1>3. /\ phase' \in [Request -> Phases] /\ phase'[r] = "turn"
      /\ \A s \in Request : s # r => phase'[s] = phase[s]
  BY DEF Continue, ChatInv, TypeOK, Phases
<1>4. /\ found' \in [Request -> SUBSET Ids]
      /\ \A s \in Request : found[s] \subseteq found'[s]
  BY DEF Continue, ChatInv, TypeOK
<1>5. inflight' = inflight \ {r}
  BY DEF Continue, CallEnds, Drop
<1>6. TypeOK'
  BY <1>1, <1>r, <1>2, <1>3, <1>4, <1>5 DEF ChatInv, TypeOK
<1>7. ASSUME NEW s \in Request PROVE SpendInv(s)'
  <2>1. CASE s = r
    <3>1. ASSUME NEW i \in DOMAIN Order PROVE calls[r][i] <= Allowed(r, i)'
      <4>1. calls[r][i] <= (made[r] + 1) * Share(i)
        BY <1>0, CountedSpends
      <4>2. UnderWay(r, i)' = 0 /\ Share(i)' = Share(i)
        BY <1>3 DEF UnderWay, Share, MayRetry
      <4>3. (made[r] + 1) * Share(i) \in Nat
        BY Allowance, ShareType DEF ChatInv
      <4> QED
        BY <1>2, <4>1, <4>2, <4>3 DEF Allowed
    <3> QED
      BY <2>1, <3>1, <1>1, <1>r, <1>3 DEF SpendInv
  <2>2. CASE s # r
    BY <2>2, <1>1, <1>r, <1>2, <1>3, BystanderSpends DEF ChatInv
  <2> QED
    BY <2>1, <2>2
<1>8. CitesOnlyFound'
  BY <1>1, <1>4 DEF ChatInv, CitesOnlyFound
<1>9. NothingLeftBehind'
  BY <1>1, <1>3, <1>5 DEF ChatInv, NothingLeftBehind
<1>10. ASSUME NEW s \in Request
       PROVE  /\ agent'[s] = NoOne => phase'[s] \in {"new", "building"}
              /\ loop' = s <=> phase'[s] = "connecting"
              /\ s \in inflight' <=> phase'[s] = "calling"
  <2>1. CASE s = r
    BY <2>1, <1>0, <1>1, <1>3, <1>5 DEF ChatInv
  <2>2. CASE s # r
    BY <2>2, <1>1, <1>3, <1>5 DEF ChatInv
  <2> QED
    BY <2>1, <2>2
<1> QED
  BY <1>6, <1>7, <1>8, <1>9, <1>10 DEF ChatInv

\* One more provider call is one of the member the run is at.
LEMMA ChargeCounts ==
  ASSUME TypeOK, NEW r \in Request, Charge(r)
  PROVE  /\ calls' \in [Request -> [DOMAIN Order -> Nat]]
         /\ calls'[r][member[r]] = calls[r][member[r]] + 1
         /\ \A i \in DOMAIN Order : i # member[r] => calls'[r][i] = calls[r][i]
         /\ \A s \in Request : s # r => calls'[s] = calls[s]
<1>1. member[r] \in DOMAIN Order /\ calls[r] \in [DOMAIN Order -> Nat]
  BY DEF TypeOK
<1>2. calls' = [calls EXCEPT ![r] = [calls[r] EXCEPT ![member[r]] = calls[r][member[r]] + 1]]
  BY DEF Charge
<1> DEFINE bill == [calls[r] EXCEPT ![member[r]] = calls[r][member[r]] + 1]
<1>3. /\ bill \in [DOMAIN Order -> Nat]
      /\ bill[member[r]] = calls[r][member[r]] + 1
      /\ \A i \in DOMAIN Order : i # member[r] => bill[i] = calls[r][i]
  BY <1>1
<1> HIDE DEF bill
<1>4. calls' = [calls EXCEPT ![r] = bill]
  BY <1>2 DEF bill
<1> QED
  BY <1>3, <1>4 DEF TypeOK

(***************************************************************************)
(* The first call of a member takes a place that its position in the chain *)
(* and its client's retries leave.                                         *)
(***************************************************************************)
LEMMA DispatchKeeps ==
  ASSUME NEW r \in Request, ChatInv, phase[r] \in {"trying", "connecting"}, Dispatch(r),
         loop' = NoOne, loop \in {NoOne, r}, connected' \subseteq Request,
         UNCHANGED <<cached, agent, answer, left, member, made, found, sources>>
  PROVE  ChatInv'
<1>1. /\ phase' \in [Request -> Phases] /\ phase'[r] = "calling"
      /\ \A s \in Request : s # r => phase'[s] = phase[s]
  BY DEF Dispatch, ChatInv, TypeOK, Phases
<1>2. /\ calls' \in [Request -> [DOMAIN Order -> Nat]]
      /\ calls'[r][member[r]] = calls[r][member[r]] + 1
      /\ \A i \in DOMAIN Order : i # member[r] => calls'[r][i] = calls[r][i]
      /\ \A s \in Request : s # r => calls'[s] = calls[s]
  BY ChargeCounts DEF Dispatch, ChatInv
<1>3. inflight' = inflight \cup {r} /\ retried' = retried
  BY DEF Dispatch
<1>4. TypeOK'
  BY <1>1, <1>2, <1>3 DEF ChatInv, TypeOK
<1>5. SpendInv(r)'
  <2>1. made[r] < RequestLimit /\ retried[r] = 0 /\ member[r] \in DOMAIN Order
    BY DEF ChatInv, SpendInv, TypeOK
  <2>2. ASSUME NEW i \in DOMAIN Order PROVE calls'[r][i] <= Allowed(r, i)'
    <3>1. /\ calls[r][i] <= made[r] * Share(i) + UnderWay(r, i)
          /\ calls[r][i] \in Nat /\ made[r] * Share(i) \in Nat
      <4>1. calls[r][i] <= made[r] * Share(i) + UnderWay(r, i) /\ calls[r][i] \in Nat
        BY DEF ChatInv, SpendInv, Allowed, TypeOK
      <4> QED
        BY <4>1, Allowance DEF ChatInv
    <3>2. i \in Nat /\ member[r] \in Nat /\ Share(i)' = Share(i) /\ Share(i) \in Nat
      BY <2>1, ShareType DEF Share, MayRetry
    <3>3. CASE i = member[r]
      <4>1. UnderWay(r, i) = 0 /\ UnderWay(r, i)' = 1
        BY <3>2, <3>3, <2>1, <1>1, <1>3 DEF UnderWay
      <4> QED
        BY <3>1, <3>2, <3>3, <4>1, <1>2 DEF Allowed
    <3>4. CASE i # member[r]
      <4>1. UnderWay(r, i)' = UnderWay(r, i)
        BY <3>2, <3>4, <1>1 DEF UnderWay
      <4> QED
        BY <3>1, <3>2, <3>4, <4>1, <1>2 DEF Allowed
    <3> QED
      BY <3>3, <3>4
  <2>3. MayRetry(member[r])' = MayRetry(member[r]) /\ MayRetry(member[r]) \in Nat
    BY <2>1, ShareType DEF MayRetry
  <2> QED
    BY <2>1, <2>2, <2>3, <1>1, <1>3 DEF SpendInv
<1>6. ASSUME NEW s \in Request PROVE SpendInv(s)'
  <2>1. s # r => SpendInv(s)'
    BY <1>1, <1>2, <1>3, BystanderSpends DEF ChatInv
  <2> QED
    BY <1>5, <2>1
<1>7. CitesOnlyFound'
  BY DEF ChatInv, CitesOnlyFound
<1>8. NothingLeftBehind'
  BY <1>1, <1>3 DEF ChatInv, NothingLeftBehind
<1>9. ASSUME NEW s \in Request
      PROVE  /\ agent'[s] = NoOne => phase'[s] \in {"new", "building"}
             /\ loop' = s <=> phase'[s] = "connecting"
             /\ s \in inflight' <=> phase'[s] = "calling"
  <2>1. CASE s = r
    BY <2>1, <1>1, <1>3 DEF ChatInv
  <2>2. CASE s # r
    BY <2>2, <1>1, <1>3 DEF ChatInv
  <2> QED
    BY <2>1, <2>2
<1> QED
  BY <1>4, <1>6, <1>7, <1>8, <1>9 DEF ChatInv

\* A retry of the client costs one more call of the same member, and the
\* client makes no more of them than it may.
LEMMA RetryKeeps == ASSUME NEW r \in Request, ChatInv, Retry(r) PROVE ChatInv'
<1>0. /\ phase[r] = "calling" /\ retried[r] < MayRetry(member[r])
      /\ UNCHANGED <<cached, agent, connected, loop, phase, answer, left, member,
                     inflight, made, found, sources>>
  BY DEF Retry
<1>1. /\ calls' \in [Request -> [DOMAIN Order -> Nat]]
      /\ calls'[r][member[r]] = calls[r][member[r]] + 1
      /\ \A i \in DOMAIN Order : i # member[r] => calls'[r][i] = calls[r][i]
      /\ \A s \in Request : s # r => calls'[s] = calls[s]
  BY ChargeCounts DEF Retry, ChatInv
<1>2. /\ retried[r] \in Nat /\ retried' \in [Request -> Nat] /\ retried'[r] = retried[r] + 1
      /\ \A s \in Request : s # r => retried'[s] = retried[s]
  BY DEF Retry, ChatInv, TypeOK
<1>3. TypeOK'
  BY <1>0, <1>1, <1>2 DEF ChatInv, TypeOK
<1>4. SpendInv(r)'
  <2>1. made[r] < RequestLimit /\ member[r] \in DOMAIN Order
    BY <1>0 DEF ChatInv, SpendInv, TypeOK
  <2>2. ASSUME NEW i \in DOMAIN Order PROVE calls'[r][i] <= Allowed(r, i)'
    <3>1. /\ calls[r][i] <= made[r] * Share(i) + UnderWay(r, i)
          /\ calls[r][i] \in Nat /\ made[r] * Share(i) \in Nat
      <4>1. calls[r][i] <= made[r] * Share(i) + UnderWay(r, i) /\ calls[r][i] \in Nat
        BY DEF ChatInv, SpendInv, Allowed, TypeOK
      <4> QED
        BY <4>1, Allowance DEF ChatInv
    <3>2. Share(i)' = Share(i)
      BY DEF Share, MayRetry
    <3>3. CASE i = member[r]
      <4>1. UnderWay(r, i) = 1 + retried[r] /\ UnderWay(r, i)' = 1 + (retried[r] + 1)
        BY <3>3, <2>1, <1>0, <1>2 DEF UnderWay
      <4>2. Allowed(r, i)' = made[r] * Share(i) + (2 + retried[r])
        BY <3>2, <4>1, <1>0, <1>2 DEF Allowed
      <4>3. calls'[r][i] = calls[r][i] + 1
        BY <3>3, <1>1
      <4>4. retried[r] \in Nat /\ calls[r][i] + 1 <= made[r] * Share(i) + (2 + retried[r])
        BY <3>1, <4>1, <1>2
      <4> QED
        BY <4>2, <4>3, <4>4
    <3>4. CASE i # member[r]
      <4>1. UnderWay(r, i)' = UnderWay(r, i)
        BY <3>2, <3>4, <1>0 DEF UnderWay
      <4> QED
        BY <3>1, <3>2, <3>4, <4>1, <1>0, <1>1 DEF Allowed
    <3> QED
      BY <3>3, <3>4
  <2>3. MayRetry(member[r])' = MayRetry(member[r]) /\ MayRetry(member[r]) \in Nat
    BY <2>1, <1>0, ShareType DEF MayRetry
  <2> QED
    BY <2>1, <2>2, <2>3, <1>0, <1>2 DEF SpendInv
<1>5. ASSUME NEW s \in Request PROVE SpendInv(s)'
  <2>1. s # r => SpendInv(s)'
    BY <1>0, <1>1, <1>2, BystanderSpends DEF ChatInv
  <2> QED
    BY <1>4, <2>1
<1> QED
  BY <1>0, <1>3, <1>5 DEF ChatInv, CitesOnlyFound, NothingLeftBehind

LEMMA CallMemberKeeps == ASSUME NEW r \in Request, ChatInv, CallMember(r) PROVE ChatInv'
<1>0. /\ phase[r] = "trying" /\ loop = NoOne
      /\ UNCHANGED <<cached, agent, connected, answer, left, member, made, found, sources>>
  BY DEF CallMember
<1>1. CASE NeedsClient(r)
  <2>1. /\ loop' = r /\ phase' = [phase EXCEPT ![r] = "connecting"]
        /\ UNCHANGED <<inflight, calls, retried>>
    BY <1>1 DEF CallMember
  <2>2. /\ phase' \in [Request -> Phases] /\ phase'[r] = "connecting"
        /\ \A s \in Request : s # r => phase'[s] = phase[s]
    BY <2>1 DEF ChatInv, TypeOK, Phases
  <2>3. TypeOK'
    BY <1>0, <2>1, <2>2 DEF ChatInv, TypeOK
  <2>4. ASSUME NEW s \in Request PROVE SpendInv(s)'
    <3>1. CASE s = r
      <4>1. ASSUME NEW i \in DOMAIN Order PROVE Allowed(r, i)' = Allowed(r, i)
        <5>1. UnderWay(r, i)' = UnderWay(r, i)
          BY <1>0, <2>2 DEF UnderWay
        <5> QED
          BY <1>0, <5>1 DEF Allowed, Share, MayRetry
      <4>2. SpendInv(r)
        BY DEF ChatInv
      <4> QED
        BY <3>1, <1>0, <2>1, <2>2, <4>1, <4>2 DEF SpendInv
    <3>2. CASE s # r
      BY <3>2, <1>0, <2>1, <2>2, BystanderSpends DEF ChatInv
    <3> QED
      BY <3>1, <3>2
  <2>5. ASSUME NEW s \in Request
        PROVE  /\ agent'[s] = NoOne => phase'[s] \in {"new", "building"}
               /\ loop' = s <=> phase'[s] = "connecting"
               /\ s \in inflight' <=> phase'[s] = "calling"
    <3>1. CASE s = r
      BY <3>1, <1>0, <2>1, <2>2 DEF ChatInv
    <3>2. CASE s # r
      BY <3>2, <1>0, <2>1, <2>2 DEF ChatInv
    <3> QED
      BY <3>1, <3>2
  <2>6. CitesOnlyFound' /\ NothingLeftBehind'
    BY <1>0, <2>1, <2>2 DEF ChatInv, CitesOnlyFound, NothingLeftBehind
  <2> QED
    BY <2>3, <2>4, <2>5, <2>6 DEF ChatInv
<1>2. CASE ~NeedsClient(r)
  <2>1. Dispatch(r) /\ loop' = loop
    BY <1>2 DEF CallMember
  <2> QED
    BY <1>0, <2>1, DispatchKeeps DEF ChatInv, TypeOK
<1> QED
  BY <1>1, <1>2

LEMMA ClientBuiltKeeps == ASSUME NEW r \in Request, ChatInv, ClientBuilt(r) PROVE ChatInv'
<1>1. /\ phase[r] = "connecting" /\ loop' = NoOne /\ Dispatch(r)
      /\ UNCHANGED <<cached, agent, answer, left, member, made, found, sources>>
  BY DEF ClientBuilt
<1>2. loop = r /\ agent[r] \in Request
  BY <1>1 DEF ChatInv, TypeOK
<1>3. connected' \subseteq Request
  BY <1>2 DEF ClientBuilt, ChatInv, TypeOK
<1> QED
  BY <1>1, <1>2, <1>3, DispatchKeeps

\* Falling back moves the place in the chain: what the member has cost by now
\* is within its share, and the next one has cost nothing yet.
LEMMA NextMemberKeeps ==
  ASSUME NEW r \in Request, ChatInv, phase[r] \in {"connecting", "calling"}, NextMember(r),
         loop' = NoOne, loop \in {NoOne, r},
         UNCHANGED <<cached, agent, connected, found, sources>>
  PROVE  ChatInv'
<1>1. CASE member[r] < Len(Order)
  <2>1. /\ phase' = [phase EXCEPT ![r] = "trying"]
        /\ member' = [member EXCEPT ![r] = member[r] + 1]
        /\ inflight' = inflight \ {r} /\ retried' = [retried EXCEPT ![r] = 0]
        /\ UNCHANGED <<answer, left, made, calls>>
    BY <1>1 DEF NextMember, FallBack, CallEnds, Drop
  <2>2. member[r] + 1 \in 1..Len(Order)
    BY <1>1, ChainLength DEF ChatInv, TypeOK
  <2>3. /\ member' \in [Request -> 1..Len(Order)] /\ member'[r] = member[r] + 1
        /\ phase' \in [Request -> Phases] /\ phase'[r] = "trying"
        /\ retried' \in [Request -> Nat] /\ retried'[r] = 0
        /\ \A s \in Request : s # r =>
             phase'[s] = phase[s] /\ member'[s] = member[s] /\ retried'[s] = retried[s]
    BY <2>1, <2>2 DEF ChatInv, TypeOK, Phases
  <2>4. TypeOK'
    BY <2>1, <2>3 DEF ChatInv, TypeOK
  <2>5. SpendInv(r)'
    <3>1. made[r] < RequestLimit /\ TypeOK /\ SpendInv(r)
      BY DEF ChatInv, SpendInv
    <3>2. ASSUME NEW i \in DOMAIN Order PROVE calls[r][i] <= Allowed(r, i)'
      <4>1. /\ calls[r][i] <= made[r] * Share(i) + UnderWay(r, i)
            /\ calls[r][i] \in Nat /\ made[r] * Share(i) \in Nat
        BY <3>1, Allowance DEF SpendInv, Allowed, TypeOK
      <4>2. UnderWay(r, i) \in 0..Share(i) /\ Share(i) \in Nat /\ Share(i)' = Share(i)
        <5>1. UnderWay(r, i) \in 0..Share(i)
          BY <3>1, UnderWayBound
        <5> QED
          BY <5>1, ShareType DEF Share, MayRetry
      <4>3. i \in Nat /\ member[r] \in Nat
        BY <3>1 DEF TypeOK
      <4>4. CASE i <= member[r]
        <5>1. UnderWay(r, i)' = Share(i)
          BY <4>2, <4>3, <4>4, <2>3 DEF UnderWay
        <5> QED
          BY <4>1, <4>2, <5>1, <2>1 DEF Allowed
      <4>5. CASE ~(i <= member[r])
        <5>1. UnderWay(r, i) = 0 /\ UnderWay(r, i)' = 0
          BY <4>3, <4>5, <2>3 DEF UnderWay
        <5> QED
          BY <4>1, <4>2, <5>1, <2>1 DEF Allowed
      <4> QED
        BY <4>4, <4>5
    <3> QED
      BY <3>1, <3>2, <2>1, <2>3 DEF SpendInv
  <2>6. ASSUME NEW s \in Request PROVE SpendInv(s)'
    <3>1. s # r => SpendInv(s)'
      BY <2>1, <2>3, BystanderSpends DEF ChatInv
    <3> QED
      BY <2>5, <3>1
  <2>7. ASSUME NEW s \in Request
        PROVE  /\ agent'[s] = NoOne => phase'[s] \in {"new", "building"}
               /\ loop' = s <=> phase'[s] = "connecting"
               /\ s \in inflight' <=> phase'[s] = "calling"
    <3>1. CASE s = r
      BY <3>1, <2>1, <2>3 DEF ChatInv
    <3>2. CASE s # r
      BY <3>2, <2>1, <2>3 DEF ChatInv
    <3> QED
      BY <3>1, <3>2
  <2>8. CitesOnlyFound' /\ NothingLeftBehind'
    BY <2>1, <2>3 DEF ChatInv, CitesOnlyFound, NothingLeftBehind
  <2> QED
    BY <2>4, <2>6, <2>7, <2>8 DEF ChatInv
<1>2. CASE ~(member[r] < Len(Order))
  <2>1. Finish(r, "500")
    BY <1>2 DEF NextMember
  <2>2. "500" \in Answers \ {"none"} /\ phase[r] \in Running
    BY DEF Answers, Running
  <2> QED
    BY <2>1, <2>2, FinishKeeps DEF ChatInv, TypeOK, CitesOnlyFound
<1> QED
  BY <1>1, <1>2

LEMMA ClientFailsKeeps == ASSUME NEW r \in Request, ChatInv, ClientFails(r) PROVE ChatInv'
<1>1. loop = r
  BY DEF ClientFails, ChatInv
<1> QED
  BY <1>1, NextMemberKeeps DEF ClientFails

LEMMA CallFailsKeeps == ASSUME NEW r \in Request, ChatInv, CallFails(r) PROVE ChatInv'
  BY NextMemberKeeps DEF CallFails

-----------------------------------------------------------------------------
LEMMA ChatStep == ChatInv /\ [Next]_vars => ChatInv'
<1> SUFFICES ASSUME ChatInv, [Next]_vars PROVE ChatInv'
  OBVIOUS
<1>1. CASE Tick
  BY <1>1, TickKeeps
<1>2. ASSUME NEW r \in Request, Service(r) PROVE ChatInv'
  BY <1>2, LookUpKeeps, BuildKeeps, StartKeeps, BeginTurnKeeps, CallMemberKeeps, ExpireKeeps
     DEF Service
<1>3. ASSUME NEW r \in Request, Provider(r) PROVE ChatInv'
  <2>1. ASSUME NEW S \in SUBSET Ids, Continue(r, S) PROVE ChatInv'
    BY <2>1, ContinueKeeps
  <2>2. Continue(r, {}) => ChatInv'
    BY <2>1
  <2>3. ASSUME NEW i \in Kb, Continue(r, {i}) PROVE ChatInv'
    BY <2>1, <2>3 DEF Ids
  <2>4. ASSUME NEW claimed \in SUBSET Ids, AnswerOk(r, claimed) PROVE ChatInv'
    BY <2>4, AnswerOkKeeps
  <2> QED
    BY <1>3, <2>2, <2>3, <2>4, RetryKeeps, CallFailsKeeps, RunBreaksKeeps, TokensExceededKeeps DEF Provider
<1>4. ASSUME NEW r \in Request, Connect(r) PROVE ChatInv'
  BY <1>4, ClientBuiltKeeps, ClientFailsKeeps DEF Connect
<1>5. CASE UNCHANGED vars
  <2>1. TypeOK' /\ CitesOnlyFound' /\ NothingLeftBehind'
    BY <1>5 DEF vars, run, ChatInv, TypeOK, CitesOnlyFound, NothingLeftBehind
  <2>2. ASSUME NEW s \in Request PROVE SpendInv(s)'
    BY <1>5, BystanderSpends DEF vars, run, ChatInv
  <2> QED
    BY <1>5, <2>1, <2>2 DEF vars, run, ChatInv
<1> QED
  BY <1>1, <1>2, <1>3, <1>4, <1>5 DEF Next

(* Every variable keeps its type: the budget counter never passes the      *)
(* limit, and a place in the chain always names a member.                  *)
THEOREM TypeCorrect == Spec => []TypeOK
<1>1. ChatInv => TypeOK
  BY DEF ChatInv
<1> QED
  BY <1>1, ChatInit, ChatStep, PTL DEF Spec

(* Answers cite only what their own run found, and an answered request     *)
(* leaves no provider at work and no loop occupied.                        *)
THEOREM AnswersAreClean == Spec => [](CitesOnlyFound /\ NothingLeftBehind)
<1>1. ChatInv => CitesOnlyFound /\ NothingLeftBehind
  BY DEF ChatInv
<1> QED
  BY <1>1, ChatInit, ChatStep, PTL DEF Spec

(* In particular a timeout, at whatever depth of the run it strikes, leaves *)
(* no provider call of that request behind.  (chat.py:149-155)             *)
THEOREM NothingIsLeft == Spec => []NothingLeftBehind
  BY AnswersAreClean, PTL

(* A budget of k model requests costs at most k provider calls of a member *)
(* whose client is told not to retry, and k times one more than its        *)
(* client's retries of any other, however often the members fail.          *)
(* (chat.py:145, watsonx.py:214, litellm.py:257, ollama.py:77)             *)
THEOREM SpendIsBounded == Spec => []SpendBounded
<1>1. ChatInv => SpendBounded
  <2> SUFFICES ASSUME ChatInv, NEW r \in Request, NEW i \in DOMAIN Order
               PROVE  calls[r][i] <= RequestLimit * (IF Order[i] \in Pinned THEN 1 ELSE 1 + SdkRetries)
    BY DEF SpendBounded
  <2>1. calls[r][i] <= RequestLimit * Share(i)
    BY SpendFits DEF ChatInv
  <2>2. Share(i) = IF Order[i] \in Pinned THEN 1 ELSE 1 + SdkRetries
    BY DEF Share, MayRetry
  <2> QED
    BY <2>1, <2>2
<1> QED
  BY <1>1, ChatInit, ChatStep, PTL DEF Spec

-----------------------------------------------------------------------------
(***************************************************************************)
(* Before there is a chat, the process has read its settings and built its *)
(* agent: theorems about ProviderConfig, for every set of chains an        *)
(* operator might write.                                                   *)
(***************************************************************************)

\* A process that serves a chain has seen it built; its agent is that chain.
BootInv ==
    stage = "serving" /\ settings.provider = "fallback" =>
        /\ BuildFallback(settings) = "ok"
        /\ chatAgent \in {"none", "ok"}

\* Before the lifespan hook is through, no request has been served.
Unserved == stage # "serving" => chatAgent = "none"

LEMMA BootInit == ConfigInit => BootInv /\ Unserved
  BY DEF ConfigInit, BootInv, Unserved

LEMMA BootStep == BootInv /\ Unserved /\ [ConfigNext]_configVars => BootInv' /\ Unserved'
<1> SUFFICES ASSUME BootInv, Unserved, [ConfigNext]_configVars
             PROVE  BootInv' /\ Unserved'
  OBVIOUS
<1>1. CASE Load
  BY <1>1 DEF Load, BootInv, Unserved
<1>2. CASE DryRun
  BY <1>2 DEF DryRun, BootInv, Unserved
<1>3. CASE Chat
  <2>1. settings' = settings /\ stage' = stage /\ stage = "serving"
    BY <1>3 DEF Chat
  <2>2. settings.provider = "fallback" => chatAgent' = BuildFallback(settings)
    BY <1>3 DEF Chat, GetModel
  <2> QED
    BY <2>1, <2>2 DEF BootInv, Unserved
<1>4. CASE UNCHANGED configVars
  BY <1>4 DEF configVars, BootInv, Unserved
<1> QED
  BY <1>1, <1>2, <1>3, <1>4 DEF ConfigNext

(* LLM_PROVIDER=fallback: once the process serves, no request fails to     *)
(* build its agent, whatever FALLBACK_ORDER says.  (main.py:80-87)         *)
THEOREM DryRunSuffices == ConfigSpec => []FallbackCheckedAtBoot
<1>1. BootInv => FallbackCheckedAtBoot
  BY DEF BootInv, FallbackCheckedAtBoot
<1> QED
  BY <1>1, BootInit, BootStep, PTL DEF ConfigSpec

-----------------------------------------------------------------------------
\* Building ends in one of the outcomes, and in "ok" with at least one member.

LEMMA BuildOneOutcome ==
    ASSUME NEW s, NEW m PROVE BuildOne(s, m) \in Outcomes
  BY DEF BuildOne, Outcomes

LEMMA BuildFallbackOutcome ==
    ASSUME NEW s
    PROVE  /\ BuildFallback(s) \in Outcomes
           /\ BuildFallback(s) = "ok" => RealMembers(s) # <<>>
<1> DEFINE real   == RealMembers(s)
           broken == {i \in DOMAIN real : BuildMember(s, real[i]) # "ok"}
<1>1. BuildMember(s, real[FirstOf(broken)]) \in Outcomes
  BY BuildOneOutcome DEF BuildMember, Outcomes
<1>2. CASE real = <<>>
  BY <1>2 DEF BuildFallback, Outcomes
<1>3. CASE real # <<>> /\ broken # {}
  <2>1. BuildFallback(s) = BuildMember(s, real[FirstOf(broken)])
    BY <1>3 DEF BuildFallback
  <2> QED
    BY <1>1, <1>3, <2>1
<1>4. CASE real # <<>> /\ broken = {}
  BY <1>4 DEF BuildFallback, Outcomes
<1> QED
  BY <1>2, <1>3, <1>4

LEMMA GetModelOutcome ==
    ASSUME NEW s
    PROVE  /\ GetModel(s) \in Outcomes
           /\ GetModel(s) = "ok" => Built(s) # <<>>
  BY BuildOneOutcome, BuildFallbackOutcome DEF GetModel, Built

LEMMA ConfigTypeInit == ConfigInit => ConfigTypeOK
  BY DEF ConfigInit, ConfigTypeOK

LEMMA ConfigTypeStep == ConfigTypeOK /\ [ConfigNext]_configVars => ConfigTypeOK'
<1> SUFFICES ASSUME ConfigTypeOK, [ConfigNext]_configVars PROVE ConfigTypeOK'
  OBVIOUS
<1>1. CASE Load
  BY <1>1 DEF Load, ConfigTypeOK
<1>2. CASE DryRun
  BY <1>2 DEF DryRun, ConfigTypeOK
<1>3. CASE Chat
  BY <1>3, GetModelOutcome DEF Chat, ConfigTypeOK
<1>4. CASE UNCHANGED configVars
  BY <1>4 DEF configVars, ConfigTypeOK
<1> QED
  BY <1>1, <1>2, <1>3, <1>4 DEF ConfigNext

(* Every variable keeps its type, and there is a list of models exactly    *)
(* while there is an agent, for any set of chains.  (api/deps.py:38-60)    *)
THEOREM ConfigTypes == ConfigSpec => []ConfigTypeOK
  BY ConfigTypeInit, ConfigTypeStep, PTL DEF ConfigSpec

-----------------------------------------------------------------------------
\* The filter of Without, over the first m entries of a list.
Kept(f, list, names, m) ==
  f = [n \in 0..m |->
         IF n = 0 THEN <<>>
         ELSE IF list[n] \in names THEN f[n - 1] ELSE Append(f[n - 1], list[n])]

LEMMA KeptExists ==
  ASSUME NEW list, NEW names, NEW N \in Nat
  PROVE  \E f : Kept(f, list, names, N)
<1> DEFINE bad == {m \in Nat : ~\E f : Kept(f, list, names, m)}
<1> SUFFICES ASSUME bad # {} PROVE FALSE
  OBVIOUS
<1>1. PICK m \in bad : \A k \in bad : m <= k
  <2>1. bad \in SUBSET Nat
    OBVIOUS
  <2> HIDE DEF bad
  <2> QED
    BY <2>1, LeastNat
<1>2. m \in Nat /\ ~\E f : Kept(f, list, names, m)
  OBVIOUS
<1>3. CASE m = 0
  <2> DEFINE f == [n \in 0..0 |-> <<>>]
  <2>1. Kept(f, list, names, 0)
    BY DEF Kept
  <2> HIDE DEF f
  <2> QED
    BY <1>2, <1>3, <2>1
<1>4. CASE m # 0
  <2>1. m - 1 \in Nat /\ m - 1 \notin bad
    <3>1. m - 1 \in Nat /\ ~(m <= m - 1)
      BY <1>2, <1>4
    <3> HIDE DEF bad
    <3> QED
      BY <3>1, <1>1
  <2>2. PICK f : Kept(f, list, names, m - 1)
    BY <2>1
  <2> DEFINE next(g, n) == IF list[n] \in names THEN g ELSE Append(g, list[n])
             h == [n \in 0..m |-> IF n < m THEN f[n] ELSE next(f[m - 1], m)]
  <2>3. f = [n \in 0..m - 1 |-> IF n = 0 THEN <<>> ELSE next(f[n - 1], n)]
    BY <2>2 DEF Kept
  <2> HIDE DEF next
  <2>4. ASSUME NEW n \in 0..m
        PROVE  h[n] = IF n = 0 THEN <<>> ELSE next(h[n - 1], n)
    <3>1. CASE n = 0
      BY <3>1, <1>4, <2>1, <2>3
    <3>2. CASE n # 0 /\ n < m
      <4>1. n \in 0..m - 1 /\ n - 1 \in 0..m /\ n - 1 < m
        BY <3>2, <2>1
      <4>2. h[n] = f[n] /\ h[n - 1] = f[n - 1]
        BY <3>2, <4>1
      <4>3. f[n] = next(f[n - 1], n)
        BY <2>3, <3>2, <4>1
      <4> QED
        BY <3>2, <4>2, <4>3
    <3>3. CASE n = m
      <4>1. n - 1 \in 0..m /\ n - 1 < m /\ ~(n < m)
        BY <3>3, <1>4, <2>1
      <4>2. h[n - 1] = f[n - 1]
        BY <4>1
      <4> QED
        BY <3>3, <4>1, <4>2, <1>4
    <3> QED
      BY <3>1, <3>2, <3>3, <1>2
  <2>5. h = [n \in 0..m |-> h[n]]
    OBVIOUS
  <2> HIDE DEF h
  <2>6. Kept(h, list, names, m)
    BY <2>4, <2>5 DEF Kept, next
  <2> QED
    BY <1>2, <2>6
<1> QED
  BY <1>3, <1>4

\* What is kept of a list: entries of its first m, and none of the names.
EntriesOf(s, list, names, T, m) ==
  s \in Seq(T) /\ \A i \in DOMAIN s : \E j \in 1..m : s[i] = list[j] /\ list[j] \notin names

LEMMA KeptHolds ==
  ASSUME NEW T, NEW N \in Nat, NEW list, \A n \in 1..N : list[n] \in T,
         NEW names, NEW f, Kept(f, list, names, N), NEW m \in 0..N
  PROVE  EntriesOf(f[m], list, names, T, m)
<1> DEFINE Good(k) == /\ f[k] \in Seq(T)
                      /\ \A i \in DOMAIN f[k] : \E j \in 1..k : f[k][i] = list[j] /\ list[j] \notin names
           bad == {k \in 0..N : ~Good(k)}
<1>1. f[0] = <<>> /\ \A n \in 1..N : f[n] = IF list[n] \in names THEN f[n - 1] ELSE Append(f[n - 1], list[n])
  <2> DEFINE F(n) == IF n = 0 THEN <<>>
                     ELSE IF list[n] \in names THEN f[n - 1] ELSE Append(f[n - 1], list[n])
  <2>1. f = [n \in 0..N |-> F(n)]
    BY DEF Kept
  <2> HIDE DEF F
  <2>2. \A n \in 0..N : f[n] = F(n)
    BY <2>1
  <2>3. 0 \in 0..N /\ \A n \in 1..N : n \in 0..N /\ n # 0
    OBVIOUS
  <2> QED
    BY <2>2, <2>3 DEF F
<1>2. Good(0)
  BY <1>1
<1>3. ASSUME NEW k \in 1..N, Good(k - 1) PROVE Good(k)
  <2>1. list[k] \in T /\ k \in 1..k /\ \A j \in 1..k - 1 : j \in 1..k
    OBVIOUS
  <2>2. CASE list[k] \in names
    BY <1>1, <1>3, <2>1, <2>2
  <2>3. CASE list[k] \notin names
    <3> DEFINE g == f[k - 1]
    <3>1. g \in Seq(T) /\ f[k] = Append(g, list[k])
      BY <1>1, <1>3, <2>3
    <3>2. \A i \in DOMAIN g : \E j \in 1..k - 1 : g[i] = list[j] /\ list[j] \notin names
      BY <1>3
    <3> HIDE DEF g
    <3>3. /\ f[k] \in Seq(T)
          /\ \A i \in DOMAIN f[k] : (i \in DOMAIN g /\ f[k][i] = g[i]) \/ f[k][i] = list[k]
      BY <2>1, <3>1
    <3> QED
      BY <2>1, <2>3, <3>2, <3>3
  <2> QED
    BY <2>2, <2>3
<1> HIDE DEF Good
<1> SUFFICES ASSUME bad # {} PROVE FALSE
  BY DEF Good, EntriesOf
<1>4. PICK k \in bad : \A l \in bad : k <= l
  <2>1. bad \in SUBSET Nat
    OBVIOUS
  <2> HIDE DEF bad
  <2> QED
    BY <2>1, LeastNat
<1>5. k \in 0..N /\ ~Good(k) /\ k # 0
  BY <1>2
<1>6. k \in 1..N /\ k - 1 \in 0..N /\ ~(k <= k - 1)
  BY <1>5
<1>7. Good(k - 1)
  BY <1>4, <1>6
<1> QED
  BY <1>3, <1>5, <1>6, <1>7

LEMMA WithoutHolds ==
  ASSUME NEW T, NEW list \in Seq(T), NEW names
  PROVE  /\ Without(list, names) \in Seq(T)
         /\ \A i \in DOMAIN Without(list, names) : \E j \in DOMAIN list :
              Without(list, names)[i] = list[j] /\ list[j] \notin names
<1> DEFINE f == CHOOSE f : Kept(f, list, names, Len(list))
<1>1. Without(list, names) = f[Len(list)]
  BY DEF Without, Kept
<1>2. Len(list) \in Nat /\ Len(list) \in 0..Len(list) /\ DOMAIN list = 1..Len(list)
  OBVIOUS
<1>3. Kept(f, list, names, Len(list))
  <2>1. \E h : Kept(h, list, names, Len(list))
    BY <1>2, KeptExists
  <2> QED
    BY <2>1
<1> HIDE DEF f
<1>4. \A n \in 1..Len(list) : list[n] \in T
  OBVIOUS
<1>5. EntriesOf(f[Len(list)], list, names, T, Len(list))
  <2>1. \A N \in Nat : (\A n \in 1..N : list[n] \in T) =>
          \A g : Kept(g, list, names, N) => \A m \in 0..N : EntriesOf(g[m], list, names, T, m)
    BY KeptHolds
  <2>2. \A g : Kept(g, list, names, Len(list)) =>
          \A m \in 0..Len(list) : EntriesOf(g[m], list, names, T, m)
    BY <1>2, <1>4, <2>1, Zenon
  <2>3. \A m \in 0..Len(list) : EntriesOf(f[m], list, names, T, m)
    BY <1>3, <2>2, Zenon
  <2> QED
    BY <1>2, <2>3, Zenon
<1> QED
  BY <1>1, <1>2, <1>5 DEF EntriesOf

\* A model stands on watsonx only if the settings select watsonx.
LEMMA WatsonxIsSelected ==
  ASSUME NEW s \in Settings,
         NEW i \in DOMAIN Built(s), Built(s)[i] = "watsonx"
  PROVE  WatsonxSelected(s)
<1>1. CASE s.provider = "fallback"
  <2>1. s.order \in Seq(STRING)
    BY ConfigAssumption DEF ConfigAssumption, Settings
  <2>2. Parsed(s) \in Seq(STRING)
    BY <2>1, WithoutHolds DEF Parsed
  <2>3. i \in DOMAIN RealMembers(s) /\ RealMembers(s)[i] = "watsonx"
    BY <1>1 DEF Built
  <2>4. PICK j \in DOMAIN Parsed(s) : Parsed(s)[j] = "watsonx"
    BY <2>2, <2>3, WithoutHolds DEF RealMembers
  <2>5. "watsonx" \in Entries(s) /\ Lower("watsonx") = "watsonx"
    BY <2>4 DEF Entries, Lower
  <2> QED
    BY <1>1, <2>5 DEF WatsonxSelected
<1>2. CASE s.provider # "fallback"
  BY <1>2 DEF Built, WatsonxSelected
<1> QED
  BY <1>1, <1>2

\* A process past loading has accepted its settings, and its models are theirs.
CredentialInv ==
  /\ settings \in Settings
  /\ stage \in {"loaded", "serving"} => Accepted(settings)
  /\ models # <<>> => Accepted(settings) /\ models = Built(settings)

(* No model of a provider chain is built on watsonx without the four       *)
(* credentials, for every list of members and however it is spelt: what    *)
(* the builders only say in a comment.  (config.py:264-288)                *)
THEOREM WatsonxHasCredentials == ConfigSpec => []WatsonxComplete
<1>1. ConfigInit => CredentialInv
  BY DEF ConfigInit, CredentialInv
<1>2. CredentialInv /\ [ConfigNext]_configVars => CredentialInv'
  <2> SUFFICES ASSUME CredentialInv, [ConfigNext]_configVars PROVE CredentialInv'
    OBVIOUS
  <2>1. CASE Load
    BY <2>1 DEF Load, CredentialInv
  <2>2. CASE DryRun
    BY <2>2 DEF DryRun, CredentialInv
  <2>3. CASE Chat
    BY <2>3 DEF Chat, CredentialInv
  <2>4. CASE UNCHANGED configVars
    BY <2>4 DEF configVars, CredentialInv
  <2> QED
    BY <2>1, <2>2, <2>3, <2>4 DEF ConfigNext
<1>3. CredentialInv => WatsonxComplete
  <2> SUFFICES ASSUME CredentialInv, NEW i \in DOMAIN models, models[i] = "watsonx"
               PROVE  settings.watsonx = "set"
    BY DEF WatsonxComplete
  <2>1. settings \in Settings
    BY DEF CredentialInv
  <2>2. CASE models = <<>>
    BY <2>2
  <2>3. CASE models # <<>>
    <3>1. Accepted(settings) /\ models = Built(settings)
      BY <2>3 DEF CredentialInv
    <3>2. WatsonxSelected(settings)
      BY <2>1, <3>1, WatsonxIsSelected
    <3> QED
      BY <3>1, <3>2 DEF Accepted
  <2> QED
    BY <2>2, <2>3
<1> QED
  BY <1>1, <1>2, <1>3, PTL DEF ConfigSpec
=============================================================================
