---------------------------- MODULE PatternProofs ----------------------------
(***************************************************************************)
(* Proofs about three of the patterns.  RateLimiter, for any number of     *)
(* requests, any limits and any window and cooldown lengths: the types,    *)
(* that a primary which failed is left alone for the whole cooldown, and   *)
(* that no window lets more than its limit through.  SseStream, for every  *)
(* backstop: the types, the order of the events on the wire, that the      *)
(* producer is held back and cut off, and that a stream never ends         *)
(* silently.  Workflows, for every cap and all documents: what each prompt *)
(* holds, that a result is earned, and that citations resolve.             *)
(***************************************************************************)
EXTENDS RateLimiter, SseStream, Workflows, SequenceLemmas

-----------------------------------------------------------------------------
\* The rate limiter.

\* Counting on a window, granting a hit on it and reading it give a window.
LEMMA WindowType ==
  ASSUME NEW w \in Window, NEW i \in Items, NEW b \in BOOLEAN
  PROVE  /\ CountOn(w, i) \in Window
         /\ Fits(CountOn(w, i).count, i) \in BOOLEAN
         /\ Grant(w, b) \in Window
<1>1. Limit[i] \in Nat
  BY LimitsAssumption
<1>2. w.count \in Nat /\ w.left \in 0..Period /\ w.granted \in Nat
  BY DEF Window
<1>3. /\ (IF w.count > Limit[i] THEN w.count ELSE w.count + 1) \in Nat
      /\ (IF w.left = 0 THEN Period ELSE w.left) \in 0..Period
      /\ (IF b THEN w.granted + 1 ELSE w.granted) \in Nat
  BY <1>2, TimesAssumption
<1>4. CountOn(w, i) \in Window
  BY <1>3 DEF Window, CountOn
<1>5. CountOn(w, i).count \in Nat
  BY <1>4 DEF Window
<1>6. Grant(w, b) \in Window
  BY <1>3 DEF Window, Grant, Allowed
<1>7. QED
  BY <1>1, <1>4, <1>5, <1>6 DEF Fits

\* Replacing one window keeps the type of the buckets.
LEMMA BucketUpdateType ==
  ASSUME NEW B \in [Storages -> [Items -> Window]],
         NEW s \in Storages, NEW i \in Items, NEW w \in Window
  PROVE  [B EXCEPT ![s][i] = w] \in [Storages -> [Items -> Window]]
  OBVIOUS

\* A request that is nowhere, and one that goes on after a hit.
LEMMA IdleType ==
  /\ Idle \in Request
  /\ \A p \in Phases, i \in Items : [Idle EXCEPT !.phase = p, !.item = i] \in Request
  BY DEF Idle, Request, Phases, Items

\* What follows a decided hit keeps the type of the requests.
LEMMA AfterType ==
  ASSUME TypeOK, NEW r \in Requests, NEW i \in Items, NEW fits \in BOOLEAN,
         After(r, i, fits)
  PROVE  request' \in [Requests -> Request]
<1>1. "routing" \in Phases /\ "handler" \in Phases
  BY DEF Phases
<1>2. (IF ~fits THEN Idle
       ELSE [Idle EXCEPT !.phase = IF i = "default" THEN "routing" ELSE "handler", !.item = i])
        \in Request
  BY <1>1, IdleType
<1>3. QED
  BY <1>2 DEF After, Allowed, TypeOK

\* Counting a hit on memory keeps both types.
LEMMA CountOnMemoryType ==
  ASSUME TypeOK, NEW r \in Requests, NEW i \in Items, CountOnMemory(r, i)
  PROVE  /\ bucket'  \in [Storages -> [Items -> Window]]
         /\ request' \in [Requests -> Request]
<1> DEFINE w    == CountOn(bucket["memory"][i], i)
           fits == Fits(w.count, i)
<1>1. "memory" \in Storages
  BY DEF Storages
<1>2. bucket["memory"][i] \in Window
  BY <1>1 DEF TypeOK
<1>3. w \in Window /\ fits \in BOOLEAN
  BY <1>2, WindowType
<1>4. Grant(w, fits) \in Window
  BY <1>3, WindowType
<1>5. bucket' = [bucket EXCEPT !["memory"][i] = Grant(w, fits)] /\ After(r, i, fits)
  BY DEF CountOnMemory
<1>6. bucket \in [Storages -> [Items -> Window]]
  BY DEF TypeOK
<1> HIDE DEF w, fits
<1>7. bucket' \in [Storages -> [Items -> Window]]
  BY <1>1, <1>4, <1>5, <1>6, BucketUpdateType
<1>8. request' \in [Requests -> Request]
  BY <1>3, <1>5, AfterType
<1>9. QED
  BY <1>7, <1>8

\* Every action keeps the type invariant and ties the two clocks together.
LEMMA CooldownStep == CooldownInv /\ [Next]_vars => CooldownInv'
<1> SUFFICES ASSUME CooldownInv, [Next]_vars PROVE CooldownInv'
  OBVIOUS
<1> USE TimesAssumption
<1>0. TypeOK
  BY DEF CooldownInv
<1>1. ASSUME NEW r \in Requests, NEW i \in Items, BeginHit(r, i) PROVE CooldownInv'
  <2>1. CASE Available(degraded, cooldown) /\ degraded' = FALSE
             /\ request'  = [request EXCEPT ![r] = [Idle EXCEPT !.phase = "hitting", !.item = i]]
             /\ UNCHANGED <<up, cooldown, since, bucket>>
    <3>1. [Idle EXCEPT !.phase = "hitting", !.item = i] \in Request
      BY IdleType DEF Phases
    <3>2. request' \in [Requests -> Request]
      BY <1>0, <2>1, <3>1 DEF TypeOK
    <3>3. since = Recovery
      BY <1>0, <2>1 DEF CooldownInv, TypeOK, Available
    <3>4. QED
      BY <1>0, <2>1, <3>2, <3>3 DEF CooldownInv, TypeOK
  <2>2. CASE CountOnMemory(r, i) /\ UNCHANGED <<up, degraded, cooldown, since>>
    BY <1>0, <2>2, CountOnMemoryType DEF CooldownInv, TypeOK
  <2>3. QED
    BY <1>1, <2>1, <2>2 DEF BeginHit
<1>2. ASSUME NEW r \in Requests, PrimaryCounts(r) PROVE CooldownInv'
  <2> DEFINE i == request[r].item
             w == CountOn(bucket["primary"][i], i)
  <2>1. i \in Items /\ "primary" \in Storages /\ "reading" \in Phases
    BY <1>0 DEF TypeOK, Request, Storages, Phases
  <2>2. bucket["primary"][i] \in Window /\ bucket \in [Storages -> [Items -> Window]]
    BY <1>0, <2>1 DEF TypeOK
  <2>3. w \in Window /\ Fits(w.count, i) \in BOOLEAN
    BY <2>1, <2>2, WindowType
  <2>4. /\ bucket'  = [bucket EXCEPT !["primary"][i] = w]
        /\ request' = [request EXCEPT ![r] = [@ EXCEPT !.phase = "reading",
                                                 !.fits = Fits(w.count, i), !.current = TRUE]]
        /\ UNCHANGED <<up, degraded, cooldown, since>>
    BY <1>2 DEF PrimaryCounts
  <2> HIDE DEF w, i
  <2>5. bucket' \in [Storages -> [Items -> Window]]
    BY <2>1, <2>2, <2>3, <2>4, BucketUpdateType
  <2>6. request' \in [Requests -> Request]
    BY <1>0, <2>1, <2>3, <2>4 DEF TypeOK, Request
  <2>7. QED
    BY <1>0, <2>4, <2>5, <2>6 DEF CooldownInv, TypeOK
<1>3. ASSUME NEW r \in Requests, PrimaryReads(r) PROVE CooldownInv'
  <2> DEFINE i == request[r].item
             w == IF request[r].current THEN Grant(bucket["primary"][i], request[r].fits)
                  ELSE bucket["primary"][i]
  <2>1. i \in Items /\ "primary" \in Storages /\ request[r].fits \in BOOLEAN
    BY <1>0 DEF TypeOK, Request, Storages
  <2>2. bucket["primary"][i] \in Window /\ bucket \in [Storages -> [Items -> Window]]
    BY <1>0, <2>1 DEF TypeOK
  <2>3. w \in Window
    BY <2>1, <2>2, WindowType
  <2>4. /\ bucket'  = [bucket EXCEPT !["primary"][i] = w]
        /\ After(r, i, request[r].fits)
        /\ UNCHANGED <<up, degraded, cooldown, since>>
    BY <1>3, <2>1, <2>2 DEF PrimaryReads
  <2> HIDE DEF w, i
  <2>5. bucket' \in [Storages -> [Items -> Window]]
    BY <2>1, <2>2, <2>3, <2>4, BucketUpdateType
  <2>6. request' \in [Requests -> Request]
    BY <1>0, <2>1, <2>4, AfterType
  <2>7. QED
    BY <1>0, <2>4, <2>5, <2>6 DEF CooldownInv, TypeOK
<1>4. ASSUME NEW r \in Requests, PrimaryFails(r) PROVE CooldownInv'
  <2>1. request[r].item \in Items
    BY <1>0 DEF TypeOK, Request
  <2>2. bucket' \in [Storages -> [Items -> Window]] /\ request' \in [Requests -> Request]
    BY <1>0, <1>4, <2>1, CountOnMemoryType DEF PrimaryFails, Recount
  <2>3. degraded' = TRUE /\ cooldown' = Recovery /\ since' = 0 /\ up' = up
    BY <1>4 DEF PrimaryFails, Deadline
  <2>4. QED
    BY <1>0, <2>2, <2>3 DEF CooldownInv, TypeOK
<1>5. ASSUME NEW r \in Requests, NoRouteLimit(r) PROVE CooldownInv'
  <2>1. [request[r] EXCEPT !.phase = "handler"] \in Request
    BY <1>0 DEF TypeOK, Request, Phases
  <2>2. /\ request' = [request EXCEPT ![r] = [request[r] EXCEPT !.phase = "handler"]]
        /\ UNCHANGED <<up, degraded, cooldown, since, bucket>>
    BY <1>0, <1>5 DEF NoRouteLimit, TypeOK
  <2>3. QED
    BY <1>0, <2>1, <2>2 DEF CooldownInv, TypeOK
<1>6. ASSUME NEW r \in Requests, Respond(r) \/ Disconnect(r) PROVE CooldownInv'
  <2>1. request' = [request EXCEPT ![r] = Idle] /\ UNCHANGED <<up, degraded, cooldown, since, bucket>>
    BY <1>6 DEF Respond, Disconnect
  <2>2. QED
    BY <1>0, <2>1, IdleType DEF CooldownInv, TypeOK
<1>7. ASSUME NEW i \in Items, OtherProcess(i) PROVE CooldownInv'
  <2> DEFINE w == CountOn(bucket["primary"][i], i)
  <2>1. "primary" \in Storages
    BY DEF Storages
  <2>2. bucket["primary"][i] \in Window /\ bucket \in [Storages -> [Items -> Window]]
    BY <1>0, <2>1 DEF TypeOK
  <2>3. w \in Window /\ Fits(w.count, i) \in BOOLEAN
    BY <2>2, WindowType
  <2>4. Grant(w, Fits(w.count, i)) \in Window
    BY <2>3, WindowType
  <2>5. /\ bucket' = [bucket EXCEPT !["primary"][i] = Grant(w, Fits(w.count, i))]
        /\ UNCHANGED <<up, degraded, cooldown, since, request>>
    BY <1>7 DEF OtherProcess
  <2> HIDE DEF w
  <2>6. bucket' \in [Storages -> [Items -> Window]]
    BY <2>1, <2>2, <2>4, <2>5, BucketUpdateType
  <2>7. QED
    BY <1>0, <2>5, <2>6 DEF CooldownInv, TypeOK
<1>8. ASSUME Outage \/ Restore PROVE CooldownInv'
  <2>1. up' \in BOOLEAN
    BY <1>8 DEF Outage, Restore
  <2>2. UNCHANGED <<degraded, cooldown, since, bucket, request>>
    BY <1>8 DEF Outage, Restore
  <2>3. QED
    BY <1>0, <2>1, <2>2 DEF CooldownInv, TypeOK
<1>9. ASSUME Tick PROVE CooldownInv'
  <2>1. bucket' \in [Storages -> [Items -> Window]]
    <3>1. ASSUME NEW w \in Window
          PROVE  (IF w.left <= 1 THEN NoWindow ELSE [w EXCEPT !.left = Elapse(@)]) \in Window
      BY DEF Window, NoWindow, Elapse
    <3>2. QED
      BY <1>0, <1>9, <3>1 DEF Tick, TypeOK
  <2>2. request' \in [Requests -> Request]
    <3>1. ASSUME NEW q \in Request, NEW b \in BOOLEAN
          PROVE  [q EXCEPT !.current = @ /\ b] \in Request
      <4>1. (q.current /\ b) \in BOOLEAN
        OBVIOUS
      <4>2. QED
        BY <4>1 DEF Request
    <3>2. \A r \in Requests : request[r] \in Request
      BY <1>0 DEF TypeOK
    <3>3. request' = [r \in Requests |->
            [request[r] EXCEPT !.current = @ /\ bucket["primary"][request[r].item].left > 1]]
      BY <1>9 DEF Tick
    <3>4. QED
      BY <3>1, <3>2, <3>3
  <2>3. /\ cooldown' = Elapse(cooldown)
        /\ since' = IF since = Recovery THEN since ELSE since + 1
        /\ degraded' = degraded /\ up' = up
    BY <1>9 DEF Tick
  <2>4. cooldown' \in 0..Recovery /\ since' \in 0..Recovery
    BY <1>0, <2>3 DEF TypeOK, Elapse
  <2>5. IF degraded' THEN since' + cooldown' = Recovery ELSE since' = Recovery
    BY <1>0, <2>3 DEF CooldownInv, TypeOK, Elapse
  <2>6. QED
    BY <1>0, <2>1, <2>2, <2>3, <2>4, <2>5 DEF CooldownInv, TypeOK
<1>10. CASE UNCHANGED vars
  BY <1>0, <1>10 DEF CooldownInv, TypeOK, vars
<1>11. "default" \in Items /\ "route" \in Items
  BY DEF Items
<1>12. QED
  BY <1>1, <1>2, <1>3, <1>4, <1>5, <1>6, <1>7, <1>8, <1>9, <1>10, <1>11
     DEF Next, Step, Arrive, EnforceRoute

\* The clocks agree in every reachable state, and every variable keeps its type.
THEOREM TypeCorrect == Spec => [](TypeOK /\ CooldownInv)
<1>1. Init => CooldownInv
  <2> SUFFICES ASSUME Init PROVE CooldownInv
    OBVIOUS
  <2>1. NoWindow \in Window
    BY TimesAssumption DEF NoWindow, Window
  <2>2. up \in BOOLEAN /\ degraded \in BOOLEAN /\ ~degraded
    BY DEF Init
  <2>3. cooldown = 0 /\ since = Recovery
    BY DEF Init
  <2>4. bucket \in [Storages -> [Items -> Window]] /\ request \in [Requests -> Request]
    BY <2>1, IdleType DEF Init
  <2>5. QED
    BY <2>2, <2>3, <2>4, TimesAssumption DEF CooldownInv, TypeOK
<1>2. CooldownInv => TypeOK
  BY DEF CooldownInv
<1>3. QED
  BY <1>1, <1>2, CooldownStep, PTL DEF Spec

\* After a failure, however late it is noticed, no hit is sent to the primary
\* storage until recovery_seconds have passed (RateLimiter._primary_available).
THEOREM PrimaryLeftAlone == Spec => CooldownHonoured
<1>1. CooldownInv /\ [Next]_vars =>
        [\A r \in Requests :
           request'[r].phase = "hitting" /\ request[r].phase # "hitting" => since = Recovery]_vars
  <2> SUFFICES ASSUME CooldownInv, Next, NEW r \in Requests,
                      request'[r].phase = "hitting", request[r].phase # "hitting"
               PROVE  since = Recovery
    OBVIOUS
  <2>0. TypeOK
    BY DEF CooldownInv
  <2>1. \A q \in Requests, i \in Items, fits \in BOOLEAN : ~After(q, i, fits)
    <3> SUFFICES ASSUME NEW q \in Requests, NEW i \in Items, NEW fits \in BOOLEAN,
                        After(q, i, fits)
                 PROVE  FALSE
      OBVIOUS
    <3>1. PICK t \in Request : t.phase # "hitting" /\ request' = [request EXCEPT ![q] = t]
      <4>1. CASE fits
        <5>1. PICK p \in {"routing", "handler"} : p = IF i = "default" THEN "routing" ELSE "handler"
          OBVIOUS
        <5>2. /\ [Idle EXCEPT !.phase = p, !.item = i].phase # "hitting"
              /\ [Idle EXCEPT !.phase = p, !.item = i] \in Request
          BY <5>1, IdleType DEF Idle, Phases
        <5>3. request' = [request EXCEPT ![q] = [Idle EXCEPT !.phase = p, !.item = i]]
          BY <4>1, <5>1 DEF After, Allowed
        <5>4. QED
          BY <5>2, <5>3
      <4>2. CASE ~fits
        BY <4>2, IdleType DEF After, Allowed, Idle
      <4>3. QED
        BY <4>1, <4>2
    <3>2. QED
      BY <2>0, <3>1 DEF TypeOK
  <2>2. \A q \in Requests, i \in Items : ~CountOnMemory(q, i)
    <3> SUFFICES ASSUME NEW q \in Requests, NEW i \in Items, CountOnMemory(q, i) PROVE FALSE
      OBVIOUS
    <3>1. Fits(CountOn(bucket["memory"][i], i).count, i) \in BOOLEAN
      BY <2>0, WindowType DEF TypeOK, Storages
    <3>2. QED
      BY <2>1, <3>1 DEF CountOnMemory
  <2>3. \A q \in Requests, i \in Items : BeginHit(q, i) => since = Recovery
    BY <2>0, <2>2, TimesAssumption DEF BeginHit, Available, CooldownInv, TypeOK
  <2>4. ASSUME NEW q \in Requests, PrimaryCounts(q) PROVE FALSE
    BY <2>0, <2>4 DEF PrimaryCounts, TypeOK, Request
  <2>5. ASSUME NEW q \in Requests, PrimaryReads(q) PROVE FALSE
    <3>1. request[q].item \in Items /\ request[q].fits \in BOOLEAN
      BY <2>0 DEF TypeOK, Request
    <3>2. QED
      BY <2>1, <2>5, <3>1 DEF PrimaryReads
  <2>6. ASSUME NEW q \in Requests, PrimaryFails(q) PROVE FALSE
    <3>1. request[q].item \in Items
      BY <2>0 DEF TypeOK, Request
    <3>2. QED
      BY <2>2, <2>6, <3>1 DEF PrimaryFails, Recount
  <2>7. ASSUME NEW q \in Requests, NoRouteLimit(q) \/ Respond(q) \/ Disconnect(q) PROVE FALSE
    BY <2>0, <2>7 DEF NoRouteLimit, Respond, Disconnect, TypeOK, Request, Idle
  <2>8. ASSUME request' = request \/ Tick PROVE FALSE
    BY <2>0, <2>8 DEF Tick, TypeOK, Request
  <2>9. "default" \in Items /\ "route" \in Items
    BY DEF Items
  <2>10. QED
    BY <2>3, <2>4, <2>5, <2>6, <2>7, <2>8, <2>9
       DEF Next, Step, Arrive, EnforceRoute, OtherProcess, Outage, Restore
<1>2. QED
  BY <1>1, TypeCorrect, PTL DEF Spec, CooldownHonoured

-----------------------------------------------------------------------------
(***************************************************************************)
(* The limit.  Between its two awaits a request has been promised a place  *)
(* in the window it was counted in; a window has room for what it granted  *)
(* and what it promised together, and has counted both.                    *)
(***************************************************************************)
Promised(i) ==
  {r \in Requests : /\ request[r].phase = "reading" /\ request[r].item = i
                    /\ request[r].current /\ request[r].fits}

WithinLimit(w, P, i) ==
  /\ IsFiniteSet(P)
  /\ w.granted + Cardinality(P) <= w.count
  /\ w.granted + Cardinality(P) <= Limit[i]

GrantInv ==
  \A i \in Items : /\ WithinLimit(bucket["primary"][i], Promised(i), i)
                   /\ WithinLimit(bucket["memory"][i], {}, i)

\* A promise that is withdrawn (a disconnect, a failure, a new window) leaves room.
LEMMA PromiseWithdrawn ==
  ASSUME NEW i \in Items, NEW w \in Window, NEW P, NEW Q \in SUBSET P, WithinLimit(w, P, i)
  PROVE  WithinLimit(w, Q, i)
<1>1. IsFiniteSet(Q) /\ Cardinality(Q) <= Cardinality(P)
      /\ Cardinality(P) \in Nat /\ Cardinality(Q) \in Nat
  BY FS_Subset, FS_CardinalityType DEF WithinLimit
<1>2. w.granted \in Nat /\ w.count \in Nat /\ Limit[i] \in Nat
  BY LimitsAssumption DEF Window
<1> QED BY <1>1, <1>2 DEF WithinLimit

\* A hit that is counted and fits can be promised one place.
LEMMA CountPromises ==
  ASSUME NEW i \in Items, NEW w \in Window, NEW P, NEW x, NEW Q \in SUBSET (P \cup {x}),
         WithinLimit(w, P, i), x \in Q => Fits(CountOn(w, i).count, i)
  PROVE  WithinLimit(CountOn(w, i), Q, i)
<1> DEFINE v == CountOn(w, i)
<1>1. w.granted \in Nat /\ w.count \in Nat /\ Limit[i] \in Nat
      /\ IsFiniteSet(P) /\ Cardinality(P) \in Nat
  BY LimitsAssumption, FS_CardinalityType DEF Window, WithinLimit
<1>2. /\ v.granted = w.granted
      /\ v.count = IF w.count > Limit[i] THEN w.count ELSE w.count + 1
  BY DEF CountOn, Window
<1> HIDE DEF v
<1>3. CASE x \in Q
  <2>1. v.count <= Limit[i]
    BY <1>3 DEF Fits, v
  <2>2. /\ IsFiniteSet(P \cup {x}) /\ Cardinality(P \cup {x}) \in Nat
        /\ Cardinality(P \cup {x}) <= Cardinality(P) + 1
    <3>1. IsFiniteSet(P \cup {x})
          /\ Cardinality(P \cup {x}) = IF x \in P THEN Cardinality(P) ELSE Cardinality(P) + 1
      BY <1>1, FS_AddElement
    <3> QED BY <1>1, <3>1
  <2>3. IsFiniteSet(Q) /\ Cardinality(Q) \in Nat /\ Cardinality(Q) <= Cardinality(P \cup {x})
    BY <2>2, FS_Subset, FS_CardinalityType
  <2>4. WithinLimit(v, Q, i)
    BY <1>1, <1>2, <2>1, <2>2, <2>3 DEF WithinLimit
  <2> QED BY <2>4 DEF v
<1>4. CASE x \notin Q
  <2>1. Q \in SUBSET P
    BY <1>4
  <2>2. WithinLimit(w, Q, i)
    BY <2>1, PromiseWithdrawn
  <2>3. Cardinality(Q) \in Nat
    BY <2>2, FS_CardinalityType DEF WithinLimit
  <2>4. WithinLimit(v, Q, i)
    BY <1>1, <1>2, <2>2, <2>3 DEF WithinLimit
  <2> QED BY <2>4 DEF v
<1> QED BY <1>3, <1>4

\* Keeping a promise uses it up.
LEMMA GrantKeepsPromise ==
  ASSUME NEW i \in Items, NEW w \in Window, NEW P, NEW x \in P, NEW Q \in SUBSET (P \ {x}),
         WithinLimit(w, P, i)
  PROVE  WithinLimit(Grant(w, TRUE), Q, i)
<1>1. w.granted \in Nat /\ w.count \in Nat /\ Limit[i] \in Nat
      /\ IsFiniteSet(P) /\ Cardinality(P) \in Nat
  BY LimitsAssumption, FS_CardinalityType DEF Window, WithinLimit
<1>2. IsFiniteSet(P \ {x}) /\ Cardinality(P \ {x}) = Cardinality(P) - 1
  BY <1>1, FS_RemoveElement
<1> DEFINE v == Grant(w, TRUE)
<1>3. IsFiniteSet(Q) /\ Cardinality(Q) \in Nat /\ Cardinality(Q) <= Cardinality(P \ {x})
  BY <1>2, FS_Subset, FS_CardinalityType
<1>4. v.granted = w.granted + 1 /\ v.count = w.count
  BY DEF Grant, Allowed, Window
<1> HIDE DEF v
<1>5. v.granted + Cardinality(Q) <= w.granted + Cardinality(P)
  BY <1>1, <1>2, <1>3, <1>4
<1>6. w.granted + Cardinality(P) <= w.count /\ w.granted + Cardinality(P) <= Limit[i]
  BY DEF WithinLimit
<1>7. WithinLimit(v, Q, i)
  BY <1>1, <1>3, <1>4, <1>5, <1>6 DEF WithinLimit
<1> QED BY <1>7 DEF v

\* Counting and granting at once (memory, another process) keeps every promise.
LEMMA CountGrants ==
  ASSUME NEW i \in Items, NEW w \in Window, NEW P, WithinLimit(w, P, i)
  PROVE  WithinLimit(Grant(CountOn(w, i), Fits(CountOn(w, i).count, i)), P, i)
<1> DEFINE v == CountOn(w, i)
           f == Fits(v.count, i)
<1>1. w.granted \in Nat /\ w.count \in Nat /\ Limit[i] \in Nat
      /\ IsFiniteSet(P) /\ Cardinality(P) \in Nat
  BY LimitsAssumption, FS_CardinalityType DEF Window, WithinLimit
<1>2. /\ v.granted = w.granted /\ v \in Window /\ f \in BOOLEAN
      /\ v.count = IF w.count > Limit[i] THEN w.count ELSE w.count + 1
  BY WindowType DEF CountOn, Window
<1>3. f <=> v.count <= Limit[i]
  BY DEF Fits
<1> HIDE DEF v, f
<1>4. Grant(v, f).count = v.count
      /\ Grant(v, f).granted = IF f THEN v.granted + 1 ELSE v.granted
  BY <1>2 DEF Grant, Allowed, Window
<1>5. WithinLimit(Grant(v, f), P, i)
  BY <1>1, <1>2, <1>3, <1>4 DEF WithinLimit
<1> QED BY <1>5 DEF v, f

-----------------------------------------------------------------------------
\* A request that changes takes part in no promise but its own.
LEMMA OneRequest ==
  ASSUME NEW r \in Requests, NEW i \in Items,
         \A q \in Requests : q # r => request'[q] = request[q]
  PROVE  /\ Promised(i)' \subseteq Promised(i) \cup {r}
         /\ r \notin Promised(i)' => Promised(i)' \subseteq Promised(i) \ {r}
BY DEF Promised

\* A request that goes anywhere but to its second await gives its promise up.
LEMMA PromiseEnds ==
  ASSUME TypeOK, NEW r \in Requests, NEW q \in Request, q.phase # "reading",
         request' = [request EXCEPT ![r] = q]
  PROVE  \A i \in Items : Promised(i)' \subseteq Promised(i) \ {r}
BY DEF Promised, TypeOK

\* What follows a counted hit is not the second await.
LEMMA AfterEnds ==
  ASSUME TypeOK, NEW r \in Requests, NEW i \in Items, NEW fits \in BOOLEAN, After(r, i, fits)
  PROVE  \A j \in Items : Promised(j)' \subseteq Promised(j) \ {r}
<1>1. PICK p \in {"routing", "handler"} : p = IF i = "default" THEN "routing" ELSE "handler"
  OBVIOUS
<1>2. /\ [Idle EXCEPT !.phase = p, !.item = i].phase # "reading" /\ Idle.phase # "reading"
      /\ [Idle EXCEPT !.phase = p, !.item = i] \in Request /\ Idle \in Request
  BY <1>1, IdleType DEF Idle, Phases
<1>3. request' = [request EXCEPT ![r] = IF fits THEN [Idle EXCEPT !.phase = p, !.item = i] ELSE Idle]
  BY <1>1 DEF After, Allowed
<1> QED BY <1>2, <1>3, PromiseEnds

\* A step that changes no window and makes no promise keeps the invariant.
LEMMA NoPromise ==
  ASSUME TypeOK, GrantInv, UNCHANGED bucket,
         \A i \in Items : Promised(i)' \subseteq Promised(i)
  PROVE  GrantInv'
<1> SUFFICES ASSUME NEW i \in Items PROVE WithinLimit(bucket["primary"][i], Promised(i)', i)
  BY DEF GrantInv, WithinLimit
<1>1. bucket["primary"][i] \in Window /\ Promised(i)' \in SUBSET Promised(i)
  BY DEF TypeOK, Storages
<1> QED BY <1>1, PromiseWithdrawn DEF GrantInv

\* Counting on memory leaves the primary's windows alone.
LEMMA MemoryKeepsGrants ==
  ASSUME TypeOK, GrantInv, NEW r \in Requests, NEW i \in Items, CountOnMemory(r, i)
  PROVE  GrantInv'
<1> DEFINE w    == CountOn(bucket["memory"][i], i)
           fits == Fits(w.count, i)
<1>1. \A s \in Storages, j \in Items : bucket[s][j] \in Window
  BY DEF TypeOK
<1>2. w \in Window /\ fits \in BOOLEAN /\ "memory" \in Storages /\ "primary" \in Storages
  BY <1>1, WindowType DEF Storages
<1>3. bucket' = [bucket EXCEPT !["memory"][i] = Grant(w, fits)] /\ After(r, i, fits)
  BY DEF CountOnMemory
<1>4. WithinLimit(Grant(w, fits), {}, i)
  BY <1>1, <1>2, CountGrants DEF GrantInv
<1> HIDE DEF w, fits
<1> SUFFICES ASSUME NEW j \in Items
             PROVE  /\ WithinLimit(bucket'["primary"][j], Promised(j)', j)
                    /\ WithinLimit(bucket'["memory"][j], {}, j)
  BY DEF GrantInv, WithinLimit
<1>5. bucket'["primary"][j] = bucket["primary"][j]
      /\ bucket'["memory"][j] = IF j = i THEN Grant(w, fits) ELSE bucket["memory"][j]
  BY <1>2, <1>3 DEF TypeOK
<1>6. Promised(j)' \in SUBSET Promised(j)
  BY <1>2, <1>3, AfterEnds
<1> QED BY <1>1, <1>2, <1>4, <1>5, <1>6, PromiseWithdrawn DEF GrantInv

\* The primary counts: the promise is for the window that was counted on.
LEMMA CountsKeepsGrants ==
  ASSUME TypeOK, GrantInv, NEW r \in Requests, PrimaryCounts(r)
  PROVE  GrantInv'
<1>0. PICK i \in Items : i = request[r].item
  BY DEF TypeOK, Request
<1> DEFINE w == CountOn(bucket["primary"][i], i)
<1>1. "primary" \in Storages /\ "memory" \in Storages
  BY DEF Storages
<1>2. \A s \in Storages, j \in Items : bucket[s][j] \in Window
  BY DEF TypeOK
<1>3. /\ bucket'  = [bucket EXCEPT !["primary"][i] = w]
      /\ request' = [request EXCEPT ![r] = [@ EXCEPT !.phase = "reading",
                                               !.fits = Fits(w.count, i), !.current = TRUE]]
  BY <1>0 DEF PrimaryCounts
<1>4. /\ \A q \in Requests : q # r => request'[q] = request[q]
      /\ request'[r].item = i /\ request'[r].fits = Fits(w.count, i)
  BY <1>0, <1>3 DEF TypeOK, Request
<1>5. \A j \in Items : /\ Promised(j)' \subseteq Promised(j) \cup {r}
                       /\ r \in Promised(j)' => j = i /\ Fits(w.count, i)
                       /\ r \notin Promised(j)' => Promised(j)' \subseteq Promised(j)
  BY <1>4, OneRequest DEF Promised
<1>6. WithinLimit(w, Promised(i)', i)
  <2> DEFINE Q == Promised(i)'
  <2>1. Q \in SUBSET (Promised(i) \cup {r}) /\ (r \in Q => Fits(w.count, i))
    BY <1>1, <1>5
  <2>2. bucket["primary"][i] \in Window /\ WithinLimit(bucket["primary"][i], Promised(i), i)
    BY <1>1, <1>2 DEF GrantInv
  <2> HIDE DEF Q
  <2> QED BY <1>1, <2>1, <2>2, CountPromises DEF Q
<1> HIDE DEF w
<1> SUFFICES ASSUME NEW j \in Items
             PROVE  /\ WithinLimit(bucket'["primary"][j], Promised(j)', j)
                    /\ WithinLimit(bucket'["memory"][j], {}, j)
  BY DEF GrantInv, WithinLimit
<1>7. bucket'["primary"][j] = (IF j = i THEN w ELSE bucket["primary"][j])
      /\ bucket'["memory"][j] = bucket["memory"][j]
  BY <1>1, <1>3 DEF TypeOK
<1>8. CASE j = i
  BY <1>6, <1>7, <1>8 DEF GrantInv
<1>9. CASE j # i
  <2>1. Promised(j)' \in SUBSET Promised(j)
    BY <1>5, <1>9
  <2> QED BY <1>1, <1>2, <1>7, <1>9, <2>1, PromiseWithdrawn DEF GrantInv
<1> QED BY <1>8, <1>9

\* The stats arrive: a promise for a window that is still there is kept.
LEMMA ReadsKeepsGrants ==
  ASSUME TypeOK, GrantInv, NEW r \in Requests, PrimaryReads(r)
  PROVE  GrantInv'
<1>0. PICK i \in Items : i = request[r].item
  BY DEF TypeOK, Request
<1> DEFINE v == IF request[r].current THEN Grant(bucket["primary"][i], request[r].fits)
                ELSE bucket["primary"][i]
<1>1. /\ "primary" \in Storages /\ "memory" \in Storages
      /\ request[r].fits \in BOOLEAN /\ request[r].current \in BOOLEAN
  BY DEF TypeOK, Request, Storages
<1>2. \A s \in Storages, j \in Items : bucket[s][j] \in Window
  BY DEF TypeOK
<1>3. bucket' = [bucket EXCEPT !["primary"][i] = v] /\ After(r, i, request[r].fits)
  BY <1>0, <1>1 DEF PrimaryReads, TypeOK
<1>4. \A j \in Items : Promised(j)' \subseteq Promised(j) \ {r}
  BY <1>1, <1>3, AfterEnds
<1>5. WithinLimit(v, Promised(i)', i)
  <2>1. Promised(i)' \in SUBSET (Promised(i) \ {r}) /\ Promised(i)' \in SUBSET Promised(i)
    BY <1>1, <1>4
  <2>2. bucket["primary"][i] \in Window /\ WithinLimit(bucket["primary"][i], Promised(i), i)
    BY <1>1, <1>2 DEF GrantInv
  <2>3. CASE request[r].current /\ request[r].fits
    <3>1. r \in Promised(i)
      BY <1>0, <2>3 DEF Promised, PrimaryReads
    <3>2. v = Grant(bucket["primary"][i], TRUE)
      BY <1>1, <2>3 DEF Grant, Allowed
    <3> HIDE DEF v
    <3> QED BY <1>1, <2>1, <2>2, <3>1, <3>2, GrantKeepsPromise
  <2>4. CASE ~(request[r].current /\ request[r].fits)
    <3>1. v = bucket["primary"][i]
      BY <1>1, <2>2, <2>4 DEF Grant, Allowed, Window
    <3> HIDE DEF v
    <3> QED BY <1>1, <2>1, <2>2, <3>1, PromiseWithdrawn
  <2> QED BY <2>3, <2>4
<1> HIDE DEF v
<1> SUFFICES ASSUME NEW j \in Items
             PROVE  /\ WithinLimit(bucket'["primary"][j], Promised(j)', j)
                    /\ WithinLimit(bucket'["memory"][j], {}, j)
  BY DEF GrantInv, WithinLimit
<1>6. bucket'["primary"][j] = (IF j = i THEN v ELSE bucket["primary"][j])
      /\ bucket'["memory"][j] = bucket["memory"][j]
  BY <1>1, <1>3 DEF TypeOK
<1>7. Promised(j)' \in SUBSET Promised(j)
  BY <1>4
<1>8. WithinLimit(bucket'["primary"][j], Promised(j)', j)
  <2>1. CASE j = i
    BY <1>5, <1>6, <2>1
  <2>2. CASE j # i
    BY <1>1, <1>2, <1>6, <1>7, <2>2, PromiseWithdrawn DEF GrantInv
  <2> QED BY <2>1, <2>2
<1> QED BY <1>6, <1>8 DEF GrantInv

\* The hits of another process are granted as they are counted.
LEMMA OthersKeepGrants ==
  ASSUME TypeOK, GrantInv, NEW i \in Items, OtherProcess(i)
  PROVE  GrantInv'
<1> DEFINE w == CountOn(bucket["primary"][i], i)
           v == Grant(w, Fits(w.count, i))
<1>1. \A s \in Storages, j \in Items : bucket[s][j] \in Window
  BY DEF TypeOK
<1>2. "memory" \in Storages /\ "primary" \in Storages
  BY DEF Storages
<1>3. bucket' = [bucket EXCEPT !["primary"][i] = v] /\ request' = request
  BY DEF OtherProcess
<1>4. WithinLimit(v, Promised(i), i)
  BY <1>1, <1>2, CountGrants DEF GrantInv
<1> HIDE DEF w, v
<1> SUFFICES ASSUME NEW j \in Items
             PROVE  /\ WithinLimit(bucket'["primary"][j], Promised(j)', j)
                    /\ WithinLimit(bucket'["memory"][j], {}, j)
  BY DEF GrantInv, WithinLimit
<1>5. bucket'["memory"][j] = bucket["memory"][j]
      /\ bucket'["primary"][j] = (IF j = i THEN v ELSE bucket["primary"][j])
  BY <1>2, <1>3 DEF TypeOK
<1>6. Promised(j)' = Promised(j)
  BY <1>3 DEF Promised
<1>7. CASE j = i
  BY <1>4, <1>5, <1>6, <1>7 DEF GrantInv
<1>8. CASE j # i
  BY <1>5, <1>6, <1>8 DEF GrantInv
<1> QED BY <1>7, <1>8

\* When a window ends, the promises made in it end with it.
LEMMA TickKeepsGrants ==
  ASSUME TypeOK, GrantInv, Tick
  PROVE  GrantInv'
<1> SUFFICES ASSUME NEW j \in Items
             PROVE  /\ WithinLimit(bucket'["primary"][j], Promised(j)', j)
                    /\ WithinLimit(bucket'["memory"][j], {}, j)
  BY DEF GrantInv, WithinLimit
<1>0. "memory" \in Storages /\ "primary" \in Storages
  BY DEF Storages
<1>1. WithinLimit(NoWindow, {}, j)
  <2>1. Limit[j] \in Nat
    BY LimitsAssumption
  <2> QED BY <2>1, FS_EmptySet DEF WithinLimit, NoWindow
<1>2. ASSUME NEW s \in Storages, NEW P, WithinLimit(bucket[s][j], P, j), bucket[s][j].left > 1
      PROVE  WithinLimit(bucket'[s][j], P, j)
  <2>1. bucket[s][j] \in Window /\ ~(bucket[s][j].left <= 1)
    BY <1>2 DEF TypeOK, Window
  <2>2. bucket'[s][j] = [bucket[s][j] EXCEPT !.left = Elapse(@)]
    BY <2>1 DEF Tick
  <2>3. bucket'[s][j].granted = bucket[s][j].granted /\ bucket'[s][j].count = bucket[s][j].count
    BY <2>1, <2>2 DEF Window
  <2> QED BY <1>2, <2>3 DEF WithinLimit
<1>3. ASSUME NEW s \in Storages, ~(bucket[s][j].left > 1) PROVE bucket'[s][j] = NoWindow
  <2>1. bucket[s][j].left <= 1
    BY <1>3 DEF TypeOK, Window
  <2> QED BY <2>1 DEF Tick
<1>4. ASSUME NEW r \in Promised(j)'
      PROVE  r \in Promised(j) /\ bucket["primary"][j].left > 1
  <2>1. r \in Requests /\ request[r] \in Request
    BY <1>4 DEF Promised, TypeOK
  <2>2. request'[r] =
          [request[r] EXCEPT !.current = @ /\ bucket["primary"][request[r].item].left > 1]
    BY <2>1 DEF Tick
  <2>3. /\ request'[r].phase = request[r].phase /\ request'[r].item = request[r].item
        /\ request'[r].fits = request[r].fits
        /\ request'[r].current = (request[r].current /\ bucket["primary"][request[r].item].left > 1)
    BY <2>1, <2>2 DEF Request
  <2> QED BY <1>4, <2>1, <2>3 DEF Promised
<1>5. WithinLimit(bucket'["primary"][j], Promised(j)', j)
  <2>1. CASE bucket["primary"][j].left > 1
    <3>1. Promised(j)' \in SUBSET Promised(j) /\ bucket["primary"][j] \in Window
      BY <1>0, <1>4 DEF TypeOK
    <3>2. WithinLimit(bucket["primary"][j], Promised(j)', j)
      BY <3>1, PromiseWithdrawn DEF GrantInv
    <3> QED BY <1>0, <1>2, <2>1, <3>2
  <2>2. CASE ~(bucket["primary"][j].left > 1)
    <3>1. Promised(j)' = {}
      BY <1>4, <2>2
    <3> QED BY <1>0, <1>1, <1>3, <2>2, <3>1
  <2> QED BY <2>1, <2>2
<1>6. WithinLimit(bucket'["memory"][j], {}, j)
  BY <1>0, <1>1, <1>2, <1>3 DEF GrantInv
<1> QED BY <1>5, <1>6

(***************************************************************************)
(* No window of a storage lets more than its limit through, however many   *)
(* requests are between the two awaits of RateLimiter.hit, whatever fails  *)
(* or disconnects, and whatever other processes count on the primary.      *)
(***************************************************************************)
THEOREM LimitKept == Spec => []GrantsWithinLimit
<1>1. Init => GrantInv
  <2> SUFFICES ASSUME Init, NEW i \in Items
               PROVE  /\ WithinLimit(bucket["primary"][i], Promised(i), i)
                      /\ WithinLimit(bucket["memory"][i], {}, i)
    BY DEF GrantInv
  <2>1. Promised(i) = {}
    BY DEF Init, Promised, Idle
  <2>2. bucket["primary"][i] = NoWindow /\ bucket["memory"][i] = NoWindow /\ Limit[i] \in Nat
    BY LimitsAssumption DEF Init, Storages
  <2> QED BY <2>1, <2>2, FS_EmptySet DEF WithinLimit, NoWindow
<1>2. TypeOK /\ GrantInv /\ [Next]_vars => GrantInv'
  <2> SUFFICES ASSUME TypeOK, GrantInv, [Next]_vars PROVE GrantInv'
    OBVIOUS
  <2>1. ASSUME NEW r \in Requests, NEW i \in Items, BeginHit(r, i) PROVE GrantInv'
    <3>1. CASE CountOnMemory(r, i)
      BY <3>1, MemoryKeepsGrants
    <3>2. CASE request' = [request EXCEPT ![r] = [Idle EXCEPT !.phase = "hitting", !.item = i]]
               /\ UNCHANGED bucket
      <4>1. /\ [Idle EXCEPT !.phase = "hitting", !.item = i].phase # "reading"
            /\ [Idle EXCEPT !.phase = "hitting", !.item = i] \in Request
        BY IdleType DEF Idle, Phases
      <4> QED BY <3>2, <4>1, PromiseEnds, NoPromise
    <3> QED BY <2>1, <3>1, <3>2 DEF BeginHit
  <2>2. ASSUME NEW r \in Requests, NoRouteLimit(r) PROVE GrantInv'
    <3>1. /\ [request[r] EXCEPT !.phase = "handler"] \in Request
          /\ [request[r] EXCEPT !.phase = "handler"].phase # "reading"
      BY DEF TypeOK, Request, Phases
    <3>2. request' = [request EXCEPT ![r] = [request[r] EXCEPT !.phase = "handler"]]
          /\ UNCHANGED bucket
      BY <2>2 DEF NoRouteLimit, TypeOK
    <3> QED BY <3>1, <3>2, PromiseEnds, NoPromise
  <2>3. ASSUME NEW r \in Requests, Respond(r) \/ Disconnect(r) PROVE GrantInv'
    <3>1. request' = [request EXCEPT ![r] = Idle] /\ UNCHANGED bucket
      BY <2>3 DEF Respond, Disconnect
    <3>2. Idle \in Request /\ Idle.phase # "reading"
      BY IdleType DEF Idle
    <3> QED BY <3>1, <3>2, PromiseEnds, NoPromise
  <2>4. ASSUME NEW r \in Requests, PrimaryFails(r) PROVE GrantInv'
    <3>1. request[r].item \in Items
      BY DEF TypeOK, Request
    <3> QED BY <2>4, <3>1, MemoryKeepsGrants DEF PrimaryFails, Recount
  <2>5. ASSUME UNCHANGED <<bucket, request>> PROVE GrantInv'
    BY <2>5, NoPromise DEF Promised
  <2>6. "default" \in Items /\ "route" \in Items
    BY DEF Items
  <2> QED
    BY <2>1, <2>2, <2>3, <2>4, <2>5, <2>6,
       CountsKeepsGrants, ReadsKeepsGrants, OthersKeepGrants, TickKeepsGrants
    DEF Next, Step, Arrive, EnforceRoute, Outage, Restore, vars
<1>3. TypeOK /\ GrantInv => GrantsWithinLimit
  <2> SUFFICES ASSUME TypeOK, GrantInv, NEW s \in Storages, NEW i \in Items
               PROVE  bucket[s][i].granted <= Limit[i]
    BY DEF GrantsWithinLimit
  <2>1. bucket[s][i].granted \in Nat /\ Limit[i] \in Nat
    BY LimitsAssumption DEF TypeOK, Window
  <2>2. PICK P : WithinLimit(bucket[s][i], P, i)
    BY DEF GrantInv, Storages
  <2>3. Cardinality(P) \in Nat /\ bucket[s][i].granted + Cardinality(P) <= Limit[i]
    BY <2>2, FS_CardinalityType DEF WithinLimit
  <2> QED BY <2>1, <2>3
<1> QED BY <1>1, <1>2, <1>3, TypeCorrect, PTL DEF Spec

-----------------------------------------------------------------------------
\* The SSE stream.

\* The first events of a sequence are those of the sequence it is extended to.
LEMMA AppendKeeps ==
  ASSUME NEW s \in Seq(Events), NEW e \in Events
  PROVE  /\ Append(s, e) \in Seq(Events)
         /\ Len(Append(s, e)) = Len(s) + 1
         /\ Append(s, e)[Len(s) + 1] = e
         /\ \A i \in 1..Len(s) : Append(s, e)[i] = s[i]
  OBVIOUS

\* The initial state satisfies the invariant.
LEMMA StreamStarts == StreamInit => StreamInv
<1> SUFFICES ASSUME StreamInit PROVE StreamInv
  OBVIOUS
<1>1. StreamTypeOK
  <2>1. released \in BOOLEAN
    BY DEF StreamInit
  <2>2. QED
    BY <2>1 DEF StreamInit, StreamTypeOK, Body, Events
<1>2. OrderPreserved /\ Backpressure
  BY MaxEventsAssumption DEF StreamInit, OrderPreserved, Backpressure, SameUpTo
<1>3. QED
  BY <1>1, <1>2, MaxEventsAssumption DEF StreamInit, StreamInv

\* Every step keeps it.
LEMMA StreamStep == StreamInv /\ [StreamNext]_streamVars => StreamInv'
<1> SUFFICES ASSUME StreamInv, [StreamNext]_streamVars PROVE StreamInv'
  OBVIOUS
<1> USE MaxEventsAssumption
<1>0. StreamTypeOK /\ OrderPreserved /\ Backpressure
  BY DEF StreamInv
<1>1. ASSUME NEW e \in Events, ProducerYields(e) PROVE StreamInv'
  <2>1. produced = wire /\ produced' = Append(produced, e) /\ wire' = wire /\ held' = e
        /\ Len(wire) < MaxEvents
    BY <1>1 DEF ProducerYields, StreamInv
  <2>2. body' \in {"sending", "closing"} /\ producer' = producer /\ client' = client /\ released' = released
    BY <1>1 DEF ProducerYields
  <2>3. /\ produced' \in Seq(Events)
        /\ Len(produced') = Len(wire) + 1
        /\ \A i \in 1..Len(wire) : produced'[i] = wire[i]
    BY <1>0, <2>1, AppendKeeps DEF StreamTypeOK
  <2>4. Len(wire) \in Nat
    BY <1>0 DEF StreamTypeOK
  <2>5. StreamTypeOK'
    BY <1>0, <2>1, <2>2, <2>3 DEF StreamTypeOK, Body
  <2>6. OrderPreserved'
    BY <2>1, <2>3, <2>4 DEF OrderPreserved, SameUpTo
  <2>7. Backpressure'
    BY <2>1, <2>3, <2>4 DEF Backpressure
  <2>8. QED
    BY <2>1, <2>2, <2>5, <2>6, <2>7 DEF StreamInv
<1>2. ASSUME ProducerStops PROVE StreamInv'
  BY <1>0, <1>2 DEF ProducerStops, StreamInv, StreamTypeOK, Body, OrderPreserved, Backpressure, SameUpTo
<1>3. ASSUME ProducerRaises PROVE StreamInv'
  BY <1>0, <1>3 DEF ProducerRaises, OnError, ErrorMarker, StreamInv, StreamTypeOK, Body, Events, Markers,
                    OrderPreserved, Backpressure, SameUpTo
<1>4. ASSUME SendDone PROVE StreamInv'
  <2>1. /\ wire' = Append(wire, held) /\ produced' = produced /\ produced = wire'
        /\ Len(wire) < MaxEvents /\ producer' = producer /\ client' = client /\ released' = released
    BY <1>4 DEF SendDone, StreamInv
  <2>2. wire' \in Seq(Events) /\ Len(wire') = Len(wire) + 1 /\ Len(wire) \in Nat
    BY <1>0, <2>1, AppendKeeps DEF StreamTypeOK
  <2>3. \/ body' = "marking" /\ held' = "error"
        \/ body' = "pulling" /\ held' = held /\ Len(wire') < MaxEvents
    BY <1>4, <2>2 DEF SendDone, AtCap, ErrorMarker
  <2>4. StreamTypeOK'
    BY <1>0, <2>1, <2>2, <2>3 DEF StreamTypeOK, Body, Events, Markers
  <2>5. OrderPreserved' /\ Backpressure'
    BY <2>1, <2>2 DEF OrderPreserved, Backpressure, SameUpTo
  <2>6. QED
    BY <2>1, <2>2, <2>3, <2>4, <2>5 DEF StreamInv
<1>5. ASSUME MarkerSent PROVE StreamInv'
  <2>1. /\ wire' = Append(wire, "error") /\ produced' = produced /\ produced = wire
        /\ Len(wire) <= MaxEvents /\ body' = "closing" /\ held' = held
        /\ producer' = producer /\ client' = client /\ released' = released
    BY <1>5 DEF MarkerSent, AfterMarker, StreamInv
  <2>2. "error" \in Events
    BY DEF Events, Markers
  <2>3. /\ wire' \in Seq(Events) /\ Len(wire') = Len(wire) + 1 /\ Len(wire) \in Nat
        /\ wire'[Len(wire')] = "error"
        /\ \A i \in 1..Len(wire) : wire'[i] = produced'[i]
    BY <1>0, <2>1, <2>2, AppendKeeps DEF StreamTypeOK
  <2>4. StreamTypeOK'
    BY <1>0, <2>1, <2>3 DEF StreamTypeOK, Body
  <2>5. OrderPreserved'
    <3>1. wire' # <<>> /\ Len(wire') - 1 = Len(wire) /\ Len(produced') = Len(wire)
      BY <2>1, <2>3
    <3>2. QED
      BY <2>3, <3>1 DEF OrderPreserved, SameUpTo
  <2>6. Backpressure'
    BY <2>1, <2>3 DEF Backpressure
  <2>7. QED
    BY <2>1, <2>4, <2>5, <2>6 DEF StreamInv
<1>6. ASSUME SendTimeout \/ Cancelled PROVE StreamInv'
  BY <1>0, <1>6 DEF SendTimeout, Cancelled, StreamInv, StreamTypeOK, Body, OrderPreserved, Backpressure,
                    SameUpTo
<1>7. ASSUME Close PROVE StreamInv'
  BY <1>0, <1>7 DEF Close, AfterClose, StreamInv, StreamTypeOK, Body, OrderPreserved, Backpressure,
                    SameUpTo
<1>8. ASSUME ClientStalls \/ ClientLeaves PROVE StreamInv'
  BY <1>0, <1>8 DEF ClientStalls, ClientLeaves, StreamInv, StreamTypeOK, OrderPreserved, Backpressure,
                    SameUpTo
<1>9. CASE UNCHANGED streamVars
  BY <1>0, <1>9 DEF streamVars, StreamInv, StreamTypeOK, OrderPreserved, Backpressure, SameUpTo
<1>10. QED
  BY <1>1, <1>2, <1>3, <1>4, <1>5, <1>6, <1>7, <1>8, <1>9 DEF StreamNext, Producer, Server

\* Every variable keeps its type, for every backstop.
THEOREM StreamTypes == StreamSpec => []StreamTypeOK
<1>1. StreamInv => StreamTypeOK
  BY DEF StreamInv
<1>2. QED
  BY <1>1, StreamStarts, StreamStep, PTL DEF StreamSpec

\* The client is sent the producer's events in order and without a gap, and
\* then at most one error marker of the server's own (_event_stream).
THEOREM Ordered == StreamSpec => []OrderPreserved
<1>1. StreamInv => OrderPreserved
  BY DEF StreamInv
<1>2. QED
  BY <1>1, StreamStarts, StreamStep, PTL DEF StreamSpec

\* The producer is never more than one event ahead of the client, and the
\* stream never longer than the backstop and its marker.
THEOREM HeldBack == StreamSpec => []Backpressure
<1>1. StreamInv => Backpressure
  BY DEF StreamInv
<1>2. QED
  BY <1>1, StreamStarts, StreamStep, PTL DEF StreamSpec

-----------------------------------------------------------------------------
\* A stream is over only when its client was told how the run ended, or no
\* longer reads; and it goes on only while the producer does.
Told ==
  \/ wire # <<>> /\ wire[Len(wire)] = "error"
  \/ producer = "stopped" /\ wire = produced

ToldInv ==
  /\ body \in {"pulling", "sending"} => producer = "running"
  /\ body \in {"closing", "closed"} => Told \/ client \in {"stalled", "gone"}

LEMMA ToldInit == StreamInit => ToldInv
  BY DEF StreamInit, ToldInv

LEMMA ToldStep == StreamInv /\ ToldInv /\ [StreamNext]_streamVars => ToldInv'
<1> SUFFICES ASSUME StreamInv, ToldInv, [StreamNext]_streamVars PROVE ToldInv'
  OBVIOUS
<1>0. StreamTypeOK /\ (body = "pulling" => wire = produced) /\ (body = "marking" => held = "error")
  BY DEF StreamInv
<1>1. ASSUME NEW e \in Events, ProducerYields(e) PROVE ToldInv'
  BY <1>1 DEF ProducerYields, ToldInv
<1>2. ASSUME ProducerStops PROVE ToldInv'
  BY <1>0, <1>2 DEF ProducerStops, ToldInv, Told
<1>3. ASSUME ProducerRaises PROVE ToldInv'
  BY <1>3 DEF ProducerRaises, OnError, ToldInv
<1>4. ASSUME SendDone PROVE ToldInv'
  BY <1>4 DEF SendDone, ToldInv
<1>5. ASSUME MarkerSent PROVE ToldInv'
  <2>1. wire \in Seq(Events) /\ wire' = Append(wire, "error") /\ body' = "closing" /\ "error" \in Events
    BY <1>0, <1>5 DEF MarkerSent, AfterMarker, StreamTypeOK, Events, Markers
  <2>2. Len(wire) \in Nat /\ Len(wire') = Len(wire) + 1 /\ wire'[Len(wire) + 1] = "error"
    BY <2>1, AppendKeeps
  <2>3. Told'
    <3>1. wire' # <<>>
      BY <2>2
    <3> QED
      BY <2>2, <3>1 DEF Told
  <2>4. QED
    BY <2>1, <2>3 DEF ToldInv
<1>6. ASSUME SendTimeout \/ Cancelled PROVE ToldInv'
  BY <1>6 DEF SendTimeout, Cancelled, ToldInv
<1>7. ASSUME Close PROVE ToldInv'
  BY <1>7 DEF Close, ToldInv, Told
<1>8. ASSUME ClientStalls \/ ClientLeaves PROVE ToldInv'
  BY <1>8 DEF ClientStalls, ClientLeaves, ToldInv, Told
<1>9. CASE UNCHANGED streamVars
  BY <1>9 DEF streamVars, ToldInv, Told
<1>10. QED
  BY <1>1, <1>2, <1>3, <1>4, <1>5, <1>6, <1>7, <1>8, <1>9 DEF StreamNext, Producer, Server

\* No silent truncation, for every backstop: a client that read to the end of
\* a stream was sent all of the run, or an error marker (_event_stream).
THEOREM NoTruncation == StreamSpec => []NothingSwallowed
<1>1. ToldInv => NothingSwallowed
  BY DEF ToldInv, Told, NothingSwallowed
<1>2. QED
  BY <1>1, StreamStarts, StreamStep, ToldInit, ToldStep, PTL DEF StreamSpec

-----------------------------------------------------------------------------
\* Workflows.

\* What PromptsAreFresh says of one call, for any list of calls.
FreshAt(s, i) ==
    LET given == s[i].given \ {0}
        role  == s[i].role
    IN  /\ role \in {"draft", "finalize", "evaluate"} => given = {i - 1}
        /\ role \in {"outline", "classify", "answer_cited"} \cup Routes => given = {}
        /\ role = "generate" =>
              IF i > 1 /\ s[i - 1].says = <<"revise", TRUE>>
              THEN given = {i - 2, i - 1} ELSE given = {}

\* The places of the calls of a role in a list of calls.
MadeIn(s, role) == {i \in DOMAIN s : s[i].role = role}

\* A call added to a list leaves the others where they are.
LEMMA CallAdded ==
  ASSUME NEW s \in Seq(Calls), NEW c \in Calls
  PROVE  /\ Append(s, c) \in Seq(Calls)
         /\ Len(s) \in Nat /\ DOMAIN s = 1..Len(s)
         /\ Len(Append(s, c)) = Len(s) + 1
         /\ DOMAIN Append(s, c) = 1..(Len(s) + 1)
         /\ Append(s, c)[Len(s) + 1] = c
         /\ \A i \in 1..Len(s) : Append(s, c)[i] = s[i]
  OBVIOUS

\* Nor does it change what their prompts hold.
LEMMA FreshKept ==
  ASSUME NEW s \in Seq(Calls), NEW c \in Calls,
         \A i \in DOMAIN s : FreshAt(s, i),
         FreshAt(Append(s, c), Len(s) + 1)
  PROVE  \A i \in DOMAIN Append(s, c) : FreshAt(Append(s, c), i)
<1> DEFINE t == Append(s, c)
<1>1. /\ Len(s) \in Nat /\ DOMAIN s = 1..Len(s) /\ DOMAIN t = 1..(Len(s) + 1)
      /\ \A i \in 1..Len(s) : t[i] = s[i]
  BY CallAdded
<1> SUFFICES ASSUME NEW i \in DOMAIN t, i # Len(s) + 1 PROVE FreshAt(t, i)
  OBVIOUS
<1> HIDE DEF t
<1>2. i \in 1..Len(s) /\ i \in DOMAIN s
  BY <1>1
<1>3. t[i] = s[i] /\ (i > 1 => t[i - 1] = s[i - 1])
  BY <1>1, <1>2
<1>4. FreshAt(s, i)
  BY <1>2
<1> QED
  BY <1>2, <1>3, <1>4 DEF FreshAt

\* The calls of a role after one more call.
LEMMA MadeAdded ==
  ASSUME NEW s \in Seq(Calls), NEW c \in Calls, NEW role
  PROVE  MadeIn(Append(s, c), role) =
           IF c.role = role THEN MadeIn(s, role) \cup {Len(s) + 1} ELSE MadeIn(s, role)
<1> DEFINE t == Append(s, c)
<1>1. /\ Len(s) \in Nat /\ DOMAIN s = 1..Len(s) /\ DOMAIN t = 1..(Len(s) + 1)
      /\ t[Len(s) + 1] = c /\ \A i \in 1..Len(s) : t[i] = s[i]
  BY CallAdded
<1> HIDE DEF t
<1>2. MadeIn(t, role) = IF c.role = role THEN MadeIn(s, role) \cup {Len(s) + 1} ELSE MadeIn(s, role)
  BY <1>1 DEF MadeIn
<1> QED
  BY <1>2 DEF t

\* They can be counted, and a new one counts for one.
LEMMA MadeCounted ==
  ASSUME NEW s \in Seq(Calls), NEW role
  PROVE  /\ Cardinality(MadeIn(s, role)) \in Nat
         /\ Cardinality(MadeIn(s, role) \cup {Len(s) + 1}) = Cardinality(MadeIn(s, role)) + 1
         /\ MadeIn(s, role) = {} => Cardinality(MadeIn(s, role)) = 0
<1>1. Len(s) \in Nat /\ DOMAIN s = 1..Len(s)
  OBVIOUS
<1>2. IsFiniteSet(1..Len(s))
  BY <1>1, FS_Interval
<1>3. MadeIn(s, role) \subseteq 1..Len(s) /\ Len(s) + 1 \notin MadeIn(s, role)
  BY <1>1 DEF MadeIn
<1>4. IsFiniteSet(MadeIn(s, role))
  BY <1>2, <1>3, FS_Subset
<1>5. QED
  BY <1>3, <1>4, FS_CardinalityType, FS_AddElement, FS_EmptySet

\* The initial state satisfies the invariant.
LEMMA FlowStart == FlowInit => FlowInv
<1> SUFFICES ASSUME FlowInit PROVE FlowInv
  OBVIOUS
<1>1. /\ pattern \in {"optimizer", "chain", "routing", "rag"} /\ cap \in Int
      /\ stage = "start" /\ calls = <<>> /\ outcome = "none"
  BY WorkflowAssumption DEF FlowInit
<1>2. PromptsAreFresh
  BY <1>1 DEF PromptsAreFresh
<1>3. QED
  BY <1>1, <1>2 DEF FlowInv, OptimizerInv, ChainInv, RoutingInv, ResultIsEarned

\* The parts of the invariant that say what was called are kept by a step that
\* calls nothing.
LEMMA CallsKept ==
  ASSUME FlowInv, calls' = calls
  PROVE  calls' \in Seq(Calls) /\ PromptsAreFresh' /\ Now' = Now
  BY DEF FlowInv, PromptsAreFresh, Now

\* They are kept by one that adds a call whose prompt is fresh.
LEMMA CallMade ==
  ASSUME FlowInv, NEW role \in Roles, NEW given \in SUBSET Nat, NEW says \in Sayings,
         Called(role, given, says),
         FreshAt(Append(calls, [role |-> role, given |-> given, says |-> says]), Now + 1)
  PROVE  /\ calls' \in Seq(Calls) /\ PromptsAreFresh'
         /\ Now \in Nat /\ Now' = Now + 1
         /\ DOMAIN calls = 1..Now /\ DOMAIN calls' = 1..(Now + 1)
         /\ calls'[Now + 1] = [role |-> role, given |-> given, says |-> says]
         /\ \A i \in 1..Now : calls'[i] = calls[i]
<1> DEFINE c == [role |-> role, given |-> given, says |-> says]
<1>1. c \in Calls /\ calls \in Seq(Calls) /\ calls' = Append(calls, c)
  BY DEF Calls, FlowInv, Called
<1>2. \A i \in DOMAIN calls : FreshAt(calls, i)
  BY DEF FlowInv, PromptsAreFresh, FreshAt
<1>3. FreshAt(Append(calls, c), Len(calls) + 1)
  BY DEF Now
<1> HIDE DEF c
<1>4. \A i \in DOMAIN Append(calls, c) : FreshAt(Append(calls, c), i)
  BY <1>1, <1>2, <1>3, FreshKept
<1>5. PromptsAreFresh'
  BY <1>1, <1>4 DEF PromptsAreFresh, FreshAt
<1>6. /\ calls' \in Seq(Calls)
      /\ Now \in Nat /\ Now' = Now + 1
      /\ DOMAIN calls = 1..Now /\ DOMAIN calls' = 1..(Now + 1)
      /\ calls'[Now + 1] = c
      /\ \A i \in 1..Now : calls'[i] = calls[i]
  BY <1>1, CallAdded DEF Now
<1> QED
  BY <1>5, <1>6 DEF c

\* What a model call leaves alone.
Untouched == UNCHANGED <<pattern, lane, cap, index, shown, scored>>

\* The guards of a run: nothing has been called.
LEMMA StartStep == FlowInv /\ Start => FlowInv'
<1> SUFFICES ASSUME FlowInv, Start PROVE FlowInv'
  OBVIOUS
<1>1. /\ calls = <<>> /\ calls' = calls /\ outcome # "answered"
      /\ pattern \in {"optimizer", "chain", "routing", "rag"} /\ cap \in Int
      /\ pattern' = pattern /\ cap' = cap
  BY DEF FlowInv, Start
<1>2. calls' \in Seq(Calls) /\ PromptsAreFresh'
  BY <1>1, CallsKept
<1>3. Rounds' = 0
  BY <1>1, FS_EmptySet DEF Rounds, Made
<1>4. outcome' # "answered"
  BY <1>1 DEF Start, Raise, Continue
<1>5. CASE pattern = "optimizer"
  <2>1. \/ stage' = "over"
        \/ stage' = "generate" /\ cap >= 1
    BY <1>1, <1>5 DEF Start, Raise, Continue
  <2>2. QED
    BY <1>1, <1>2, <1>3, <1>4, <1>5, <2>1
    DEF FlowInv, OptimizerInv, ChainInv, RoutingInv, ResultIsEarned, Made
<1>6. CASE pattern # "optimizer"
  <2>1. \/ pattern = "chain" /\ stage' = "outline"
        \/ pattern = "routing" /\ stage' = "classify"
        \/ pattern = "rag" /\ stage' \in {"retrieve", "over"}
    BY <1>1, <1>6 DEF Start, Raise, Continue
  <2>2. QED
    BY <1>1, <1>2, <1>4, <1>6, <2>1
    DEF FlowInv, OptimizerInv, ChainInv, RoutingInv, ResultIsEarned
<1>7. QED
  BY <1>5, <1>6

\* The generator is told of the attempt and the judgement exactly when the
\* judgement says something.
LEMMA GenerateStep == FlowInv /\ Generate /\ Untouched => FlowInv'
<1> SUFFICES ASSUME FlowInv, Generate, Untouched PROVE FlowInv'
  OBVIOUS
<1> DEFINE given == GeneratorPrompt(Feedback)
           c == [role |-> "generate", given |-> given, says |-> <<"text">>]
<1>1. /\ pattern = "optimizer" /\ stage = "generate" /\ stage' = "evaluate"
      /\ pattern' = pattern /\ cap' = cap /\ cap \in Int /\ outcome' # "answered"
      /\ calls \in Seq(Calls)
  BY DEF FlowInv, Generate, Untouched, Continue, OptimizerInv, ChainInv, RoutingInv
<1>2. /\ \A i \in Made("evaluate") : calls[i].says[1] = "revise"
      /\ Rounds < cap
      /\ calls # <<>> => Now >= 2 /\ calls[Now].says \in {"revise"} \X BOOLEAN
  BY <1>1 DEF FlowInv, OptimizerInv
<1>3. Now \in Nat /\ (calls = <<>> <=> Now = 0)
  BY <1>1 DEF Now
<1>4. given \in SUBSET Nat
  BY <1>2, <1>3 DEF GeneratorPrompt, Feedback
<1>5. c \in Calls
  BY <1>4 DEF Calls, Roles, Sayings
<1>6. /\ Append(calls, c)[Now + 1] = c
      /\ \A i \in 1..Now : Append(calls, c)[i] = calls[i]
  BY <1>1, <1>5, CallAdded DEF Now
<1>7. IF Now + 1 > 1 /\ Append(calls, c)[Now].says = <<"revise", TRUE>>
      THEN given \ {0} = {Now - 1, Now} ELSE given \ {0} = {}
  <2>1. CASE calls = <<>>
    BY <1>3, <2>1 DEF GeneratorPrompt, Feedback
  <2>2. CASE calls # <<>>
    <3>1. Now >= 2 /\ Now \in 1..Now
      BY <1>2, <1>3, <2>2
    <3>2. Append(calls, c)[Now] = calls[Now]
      BY <1>6, <3>1
    <3>3. PICK b \in BOOLEAN : calls[Now].says = <<"revise", b>>
      BY <1>2, <2>2
    <3>4. calls[Now].says[2] = b
      BY <3>3
    <3>5. CASE b = TRUE
      <4>1. given = {0, Now - 1, Now}
        BY <2>2, <3>4, <3>5 DEF GeneratorPrompt, Feedback
      <4>2. given \ {0} = {Now - 1, Now}
        BY <1>3, <3>1, <4>1
      <4>3. Append(calls, c)[Now].says = <<"revise", TRUE>>
        BY <3>2, <3>3, <3>5
      <4> HIDE DEF c, given
      <4>4. QED
        BY <3>1, <4>2, <4>3
    <3>6. CASE b = FALSE
      <4>1. given = {0}
        BY <2>2, <3>4, <3>6 DEF GeneratorPrompt, Feedback
      <4>2. <<"revise", b>>[2] # <<"revise", TRUE>>[2]
        BY <3>6
      <4>3. Append(calls, c)[Now].says # <<"revise", TRUE>>
        BY <3>2, <3>3, <4>2
      <4>4. given \ {0} = {}
        BY <4>1
      <4> HIDE DEF c, given
      <4>5. QED
        BY <4>3, <4>4
    <3>7. QED
      BY <3>5, <3>6
  <2>3. QED
    BY <2>1, <2>2
<1>8. FreshAt(Append(calls, c), Now + 1)
  <2>1. (Now + 1) - 1 = Now /\ (Now + 1) - 2 = Now - 1
    BY <1>3
  <2>2. c.role = "generate" /\ c.given = given
    OBVIOUS
  <2> HIDE DEF c, given
  <2>3. QED
    BY <1>6, <1>7, <2>1, <2>2 DEF FreshAt, Routes
<1>9. /\ calls' \in Seq(Calls) /\ PromptsAreFresh' /\ Now' = Now + 1
      /\ calls'[Now + 1] = c /\ calls' = Append(calls, c)
  <2>1. Called("generate", given, <<"text">>)
    BY DEF Generate
  <2>2. "generate" \in Roles /\ <<"text">> \in Sayings
    BY DEF Roles, Sayings
  <2>3. calls' = Append(calls, c)
    BY <2>1 DEF Called
  <2> HIDE DEF given
  <2>4. QED
    BY <1>4, <1>8, <2>1, <2>2, <2>3, CallMade
<1>10. Made("evaluate")' = Made("evaluate") /\ Rounds' = Rounds
  <2>1. c.role # "evaluate"
    OBVIOUS
  <2> HIDE DEF c
  <2>2. MadeIn(Append(calls, c), "evaluate") = MadeIn(calls, "evaluate")
    BY <1>1, <1>5, <2>1, MadeAdded
  <2>3. QED
    BY <1>9, <2>2 DEF MadeIn, Made, Rounds
<1>11. OptimizerInv'
  <2>1. \A i \in Made("evaluate") : calls'[i].says[1] = "revise"
    BY <1>1, <1>2, <1>6, <1>9 DEF Made, Now
  <2>2. c.role = "generate"
    OBVIOUS
  <2> HIDE DEF c
  <2>3. \A i \in Made("evaluate")' : calls'[i].says[1] = "revise"
    BY <1>10, <2>1
  <2>4. Rounds' < cap'
    BY <1>1, <1>2, <1>10
  <2>5. Now' >= 1 /\ calls'[Now'].role = "generate"
    BY <1>3, <1>9, <2>2
  <2>6. QED
    BY <1>1, <2>3, <2>4, <2>5 DEF OptimizerInv
<1>12. QED
  BY <1>1, <1>9, <1>11 DEF FlowInv, ChainInv, RoutingInv, ResultIsEarned

\* The evaluator judges the attempt just made; the loop ends on a pass or when
\* the cap is used up.
LEMMA EvaluateStep == FlowInv /\ Evaluate /\ Untouched => FlowInv'
<1> SUFFICES ASSUME FlowInv, Evaluate, Untouched PROVE FlowInv'
  OBVIOUS
<1>0. PICK verdict \in {"pass", "revise"}, feedback \in BOOLEAN :
         Called("evaluate", {0, Now}, <<verdict, feedback>>) /\ Judged(verdict)
  BY DEF Evaluate
<1> DEFINE c == [role |-> "evaluate", given |-> {0, Now}, says |-> <<verdict, feedback>>]
<1>1. /\ pattern = "optimizer" /\ stage = "evaluate"
      /\ pattern' = pattern /\ cap' = cap /\ cap \in Int /\ outcome # "answered"
      /\ calls \in Seq(Calls)
  BY DEF FlowInv, Evaluate, Untouched, OptimizerInv, ChainInv, RoutingInv
<1>2. /\ \A i \in Made("evaluate") : calls[i].says[1] = "revise"
      /\ Rounds < cap
      /\ Now >= 1 /\ calls[Now].role = "generate"
  BY <1>1 DEF FlowInv, OptimizerInv
<1>3. Now \in Nat
  BY <1>1 DEF Now
<1>4. /\ "evaluate" \in Roles /\ {0, Now} \in SUBSET Nat /\ <<verdict, feedback>> \in Sayings
  <2>1. <<verdict, feedback>> \in {"pass", "revise"} \X BOOLEAN
    OBVIOUS
  <2>2. QED
    BY <1>3, <2>1 DEF Roles, Sayings
<1>5. c \in Calls
  BY <1>4 DEF Calls
<1>6. c.role = "evaluate" /\ c.given = {0, Now} /\ c.says = <<verdict, feedback>> /\ c.says[1] = verdict
  OBVIOUS
<1>7. FreshAt(Append(calls, c), Now + 1)
  <2>1. Append(calls, c)[Now + 1] = c
    BY <1>1, <1>5, CallAdded DEF Now
  <2>2. c.given \ {0} = {Now} /\ (Now + 1) - 1 = Now
    BY <1>2, <1>3
  <2> HIDE DEF c
  <2>3. QED
    BY <1>6, <2>1, <2>2 DEF FreshAt, Routes
<1>8. /\ calls' \in Seq(Calls) /\ PromptsAreFresh' /\ Now' = Now + 1
      /\ calls'[Now + 1] = c /\ \A i \in 1..Now : calls'[i] = calls[i]
  BY <1>0, <1>4, <1>7, CallMade
<1> HIDE DEF c
<1>9. Made("evaluate")' = Made("evaluate") \cup {Now + 1}
  <2>1. MadeIn(Append(calls, c), "evaluate") = MadeIn(calls, "evaluate") \cup {Len(calls) + 1}
    BY <1>1, <1>5, <1>6, MadeAdded
  <2>2. calls' = Append(calls, c)
    BY <1>0 DEF Called, c
  <2>3. QED
    BY <2>1, <2>2 DEF MadeIn, Made, Now
<1>10. Rounds' = Rounds + 1 /\ Rounds \in Nat
  <2>1. Made("evaluate") = MadeIn(calls, "evaluate")
    BY DEF MadeIn, Made
  <2>2. /\ Cardinality(Made("evaluate")) \in Nat
        /\ Cardinality(Made("evaluate") \cup {Now + 1}) = Cardinality(Made("evaluate")) + 1
    BY <1>1, <2>1, MadeCounted DEF Now
  <2>3. QED
    BY <1>9, <2>2 DEF Rounds
<1>11. /\ \A i \in Made("evaluate") : calls'[i].says[1] = "revise"
       /\ calls'[Now + 1].says = <<verdict, feedback>> /\ calls'[Now + 1].says[1] = verdict
       /\ calls'[Now].role = "generate"
  <2>1. Made("evaluate") \subseteq 1..Now
    BY <1>1 DEF Made, Now
  <2>2. \A i \in Made("evaluate") : calls'[i] = calls[i]
    BY <1>8, <2>1
  <2>3. \A i \in Made("evaluate") : calls'[i].says[1] = "revise"
    BY <1>2, <2>2
  <2>4. calls'[Now] = calls[Now]
    BY <1>2, <1>3, <1>8
  <2>5. QED
    BY <1>2, <1>6, <1>8, <2>3, <2>4
<1>12. \A i \in Made("evaluate") : i # Now + 1
  BY <1>1, <1>3 DEF Made, Now
<1>13. CASE verdict = "pass"
  <2>1. /\ stage' = "over" /\ outcome' = "answered"
        /\ result'.text = Now /\ result'.reason = "passed"
    BY <1>0, <1>13 DEF Judged, Answer
  <2>2. {i \in Made("evaluate")' : calls'[i].says[1] = "pass"} = {Now'}
    BY <1>8, <1>9, <1>11, <1>12, <1>13
  <2>3. ResultIsEarned'
    <3>1. Made("evaluate")' # {}
      BY <1>9
    <3>2. Cardinality(Made("evaluate")') <= cap'
      BY <1>1, <1>2, <1>10 DEF Rounds
    <3>3. result'.text = Now' - 1 /\ calls'[result'.text].role = "generate"
      <4>1. Now' - 1 = Now
        BY <1>3, <1>8
      <4>2. QED
        BY <1>11, <2>1, <4>1
    <3>4. QED
      BY <1>1, <2>1, <2>2, <3>1, <3>2, <3>3 DEF ResultIsEarned
  <2>4. OptimizerInv'
    BY <1>8, <2>1 DEF OptimizerInv
  <2>5. QED
    BY <1>1, <1>8, <2>1, <2>3, <2>4 DEF FlowInv, ChainInv, RoutingInv
<1>14. CASE verdict = "revise" /\ Rounds + 1 = cap
  <2>1. /\ stage' = "over" /\ outcome' = "answered"
        /\ result'.text = Now /\ result'.reason = "max_iterations"
    BY <1>0, <1>14 DEF Judged, Answer
  <2>2. {i \in Made("evaluate")' : calls'[i].says[1] = "pass"} = {}
    BY <1>8, <1>9, <1>11, <1>12, <1>14
  <2>3. ResultIsEarned'
    <3>1. Made("evaluate")' # {}
      BY <1>9
    <3>2. Cardinality(Made("evaluate")') = cap'
      BY <1>1, <1>10, <1>14 DEF Rounds
    <3>3. result'.text = Now' - 1 /\ calls'[result'.text].role = "generate"
      <4>1. Now' - 1 = Now
        BY <1>3, <1>8
      <4>2. QED
        BY <1>11, <2>1, <4>1
    <3>4. QED
      BY <1>1, <2>1, <2>2, <3>1, <3>2, <3>3 DEF ResultIsEarned
  <2>4. OptimizerInv'
    BY <1>8, <2>1 DEF OptimizerInv
  <2>5. QED
    BY <1>1, <1>8, <2>1, <2>3, <2>4 DEF FlowInv, ChainInv, RoutingInv
<1>15. CASE verdict = "revise" /\ Rounds + 1 # cap
  <2>1. stage' = "generate" /\ outcome' = outcome
    BY <1>0, <1>15 DEF Judged, Continue
  <2>2. \A i \in Made("evaluate")' : calls'[i].says[1] = "revise"
    BY <1>9, <1>11, <1>15
  <2>3. Rounds' < cap'
    BY <1>1, <1>2, <1>10, <1>15
  <2>4. Now' >= 2 /\ calls'[Now'].says \in {"revise"} \X BOOLEAN
    <3>1. Now' >= 2
      BY <1>2, <1>3, <1>8
    <3>2. calls'[Now'].says = <<"revise", feedback>>
      BY <1>8, <1>11, <1>15
    <3>3. QED
      BY <3>1, <3>2
  <2>5. OptimizerInv'
    BY <1>1, <2>1, <2>2, <2>3, <2>4 DEF OptimizerInv
  <2>6. QED
    BY <1>1, <1>8, <2>1, <2>5 DEF FlowInv, ChainInv, RoutingInv, ResultIsEarned
<1>16. QED
  BY <1>13, <1>14, <1>15

\* The chain: an outline, a draft of it, and the gate.
LEMMA OutlineStep == FlowInv /\ Outline /\ Untouched => FlowInv'
<1> SUFFICES ASSUME FlowInv, Outline, Untouched PROVE FlowInv'
  OBVIOUS
<1> DEFINE c == [role |-> "outline", given |-> {0}, says |-> <<"text">>]
<1>1. /\ pattern = "chain" /\ stage' = "draft" /\ calls = <<>> /\ calls \in Seq(Calls)
      /\ pattern' = pattern /\ cap' = cap /\ cap \in Int /\ outcome' # "answered"
  BY DEF FlowInv, Outline, Untouched, Continue, OptimizerInv, ChainInv, RoutingInv
<1>2. Now = 0
  BY <1>1 DEF Now
<1>3. "outline" \in Roles /\ {0} \in SUBSET Nat /\ <<"text">> \in Sayings /\ c \in Calls
  BY DEF Roles, Sayings, Calls
<1>4. c.role = "outline" /\ c.given \ {0} = {} /\ Append(calls, c)[Now + 1] = c
  BY <1>1, <1>3, CallAdded DEF Now
<1>5. FreshAt(Append(calls, c), Now + 1)
  <2> HIDE DEF c
  <2> QED
    BY <1>4 DEF FreshAt, Routes
<1>6. /\ calls' \in Seq(Calls) /\ PromptsAreFresh' /\ Now' = 1 /\ calls'[1] = c
  <2>1. Called("outline", {0}, <<"text">>)
    BY DEF Outline
  <2>2. /\ calls' \in Seq(Calls) /\ PromptsAreFresh' /\ Now' = Now + 1
        /\ DOMAIN calls' = 1..(Now + 1) /\ calls'[Now + 1] = c
        /\ \A i \in 1..Now : calls'[i] = calls[i]
    BY <1>3, <1>5, <2>1, CallMade
  <2> HIDE DEF c
  <2>3. QED
    BY <1>2, <2>2
<1> HIDE DEF c
<1>7. QED
  BY <1>1, <1>4, <1>6 DEF FlowInv, OptimizerInv, ChainInv, RoutingInv, ResultIsEarned

LEMMA DraftStep == FlowInv /\ Draft /\ Untouched => FlowInv'
<1> SUFFICES ASSUME FlowInv, Draft, Untouched PROVE FlowInv'
  OBVIOUS
<1>0. PICK words \in {"enough", "thin"} : Called("draft", {Now}, <<words>>) /\ Gate(words)
  BY DEF Draft
<1> DEFINE c == [role |-> "draft", given |-> {Now}, says |-> <<words>>]
<1>1. /\ pattern = "chain" /\ calls \in Seq(Calls) /\ Now = 1 /\ calls[1].role = "outline"
      /\ pattern' = pattern /\ cap' = cap /\ cap \in Int /\ outcome # "answered"
  BY DEF FlowInv, Draft, Untouched, OptimizerInv, ChainInv, RoutingInv
<1>2. "draft" \in Roles /\ {Now} \in SUBSET Nat /\ <<words>> \in Sayings /\ c \in Calls
  BY <1>1 DEF Roles, Sayings, Calls
<1>3. c.role = "draft" /\ c.given \ {0} = {Now} /\ c.says = <<words>> /\ c.says[1] = words
      /\ Append(calls, c)[Now + 1] = c
  <2>1. Append(calls, c)[Now + 1] = c
    BY <1>1, <1>2, CallAdded DEF Now
  <2>2. c.given = {Now} /\ Now # 0
    BY <1>1
  <2>3. QED
    BY <2>1, <2>2
<1>4. FreshAt(Append(calls, c), Now + 1)
  <2>1. (Now + 1) - 1 = Now
    BY <1>1
  <2> HIDE DEF c
  <2> QED
    BY <1>3, <2>1 DEF FreshAt, Routes
<1>5. /\ calls' \in Seq(Calls) /\ PromptsAreFresh' /\ Now' = 2 /\ DOMAIN calls' = 1..2
      /\ calls'[2] = c /\ calls'[1] = calls[1]
  <2>1. /\ calls' \in Seq(Calls) /\ PromptsAreFresh' /\ Now' = Now + 1
        /\ DOMAIN calls' = 1..(Now + 1) /\ calls'[Now + 1] = c
        /\ \A i \in 1..Now : calls'[i] = calls[i]
    BY <1>0, <1>2, <1>4, CallMade
  <2> HIDE DEF c
  <2>2. QED
    BY <1>1, <2>1
<1> HIDE DEF c
<1>6. CASE words = "enough"
  <2>1. stage' = "finalize" /\ outcome' # "answered"
    BY <1>0, <1>1, <1>6 DEF Gate, Continue
  <2>2. ChainInv'
    BY <1>1, <1>3, <1>5, <1>6, <2>1 DEF ChainInv
  <2>3. QED
    BY <1>1, <1>5, <2>1, <2>2 DEF FlowInv, OptimizerInv, RoutingInv, ResultIsEarned
<1>7. CASE words = "thin"
  <2>1. stage' = "over" /\ result'.text = 0
    BY <1>0, <1>7 DEF Gate, Answer
  <2>2. \E i \in Made("draft")' : calls'[i].says = <<"thin">>
    <3>1. 2 \in Made("draft")' /\ calls'[2].says = <<"thin">>
      BY <1>3, <1>5, <1>7 DEF Made
    <3>2. QED
      BY <3>1
  <2>3. Made("finalize")' = {}
    BY <1>1, <1>3, <1>5 DEF Made
  <2>4. ResultIsEarned'
    BY <1>1, <2>1, <2>2, <2>3 DEF ResultIsEarned
  <2>5. ChainInv'
    BY <2>1 DEF ChainInv
  <2>6. QED
    BY <1>1, <1>5, <2>1, <2>4, <2>5 DEF FlowInv, OptimizerInv, RoutingInv
<1>8. QED
  BY <1>6, <1>7

LEMMA FinalizeStep == FlowInv /\ Finalize /\ Untouched => FlowInv'
<1> SUFFICES ASSUME FlowInv, Finalize, Untouched PROVE FlowInv'
  OBVIOUS
<1> DEFINE c == [role |-> "finalize", given |-> {Now}, says |-> <<"text">>]
<1>1. /\ pattern = "chain" /\ calls \in Seq(Calls) /\ Now = 2
      /\ calls[1].role = "outline" /\ calls[2].role = "draft" /\ calls[2].says = <<"enough">>
      /\ pattern' = pattern /\ cap' = cap /\ cap \in Int
  BY DEF FlowInv, Finalize, Untouched, OptimizerInv, ChainInv, RoutingInv
<1>2. "finalize" \in Roles /\ {Now} \in SUBSET Nat /\ <<"text">> \in Sayings /\ c \in Calls
  BY <1>1 DEF Roles, Sayings, Calls
<1>3. c.role = "finalize" /\ c.given \ {0} = {Now} /\ Append(calls, c)[Now + 1] = c
  <2>1. Append(calls, c)[Now + 1] = c
    BY <1>1, <1>2, CallAdded DEF Now
  <2>2. c.given = {Now} /\ Now # 0
    BY <1>1
  <2>3. QED
    BY <2>1, <2>2
<1>4. FreshAt(Append(calls, c), Now + 1)
  <2>1. (Now + 1) - 1 = Now
    BY <1>1
  <2> HIDE DEF c
  <2> QED
    BY <1>3, <2>1 DEF FreshAt, Routes
<1>5. /\ calls' \in Seq(Calls) /\ PromptsAreFresh' /\ DOMAIN calls' = 1..3
      /\ calls'[3] = c /\ calls'[2] = calls[2] /\ calls'[1] = calls[1]
  <2>1. Called("finalize", {Now}, <<"text">>)
    BY DEF Finalize
  <2>2. /\ calls' \in Seq(Calls) /\ PromptsAreFresh' /\ Now' = Now + 1
        /\ DOMAIN calls' = 1..(Now + 1) /\ calls'[Now + 1] = c
        /\ \A i \in 1..Now : calls'[i] = calls[i]
    BY <1>2, <1>4, <2>1, CallMade
  <2> HIDE DEF c
  <2>3. QED
    BY <1>1, <2>2
<1> HIDE DEF c
<1>6. stage' = "over" /\ result'.text = 3
  BY <1>1 DEF Finalize, Answer
<1>7. \A i \in Made("draft")' : calls'[i].says # <<"thin">>
  <2>1. Made("draft")' \subseteq {2}
    BY <1>1, <1>3, <1>5 DEF Made
  <2>2. <<"enough">>[1] # <<"thin">>[1]
    OBVIOUS
  <2>3. calls'[2].says # <<"thin">>
    BY <1>1, <1>5, <2>2
  <2>4. QED
    BY <2>1, <2>3
<1>8. Made("finalize")' # {}
  BY <1>3, <1>5 DEF Made
<1>9. ResultIsEarned'
  BY <1>1, <1>6, <1>7, <1>8 DEF ResultIsEarned
<1>10. ChainInv'
  BY <1>6 DEF ChainInv
<1>11. QED
  BY <1>1, <1>5, <1>6, <1>9, <1>10 DEF FlowInv, OptimizerInv, RoutingInv

\* The router: a classification, and the specialist it names.
LEMMA ClassifyStep == FlowInv /\ Classify /\ Untouched => FlowInv'
<1> SUFFICES ASSUME FlowInv, Classify, Untouched PROVE FlowInv'
  OBVIOUS
<1>0. PICK route \in Routes : Called("classify", {0}, <<route>>)
  BY DEF Classify
<1> DEFINE c == [role |-> "classify", given |-> {0}, says |-> <<route>>]
<1>1. /\ pattern = "routing" /\ stage' = "answer" /\ calls = <<>> /\ calls \in Seq(Calls)
      /\ pattern' = pattern /\ cap' = cap /\ cap \in Int /\ outcome' # "answered"
  BY DEF FlowInv, Classify, Untouched, Continue, OptimizerInv, ChainInv, RoutingInv
<1>2. Now = 0
  BY <1>1 DEF Now
<1>3. "classify" \in Roles /\ {0} \in SUBSET Nat /\ <<route>> \in Sayings /\ c \in Calls
  BY DEF Roles, Sayings, Calls
<1>4. c.role = "classify" /\ c.given \ {0} = {} /\ c.says = <<route>>
      /\ Append(calls, c)[Now + 1] = c
  BY <1>1, <1>3, CallAdded DEF Now
<1>5. FreshAt(Append(calls, c), Now + 1)
  <2> HIDE DEF c
  <2> QED
    BY <1>4 DEF FreshAt, Routes
<1>6. /\ calls' \in Seq(Calls) /\ PromptsAreFresh' /\ Now' = 1 /\ calls'[1] = c
  <2>1. /\ calls' \in Seq(Calls) /\ PromptsAreFresh' /\ Now' = Now + 1
        /\ DOMAIN calls' = 1..(Now + 1) /\ calls'[Now + 1] = c
        /\ \A i \in 1..Now : calls'[i] = calls[i]
    BY <1>0, <1>3, <1>5, CallMade
  <2> HIDE DEF c
  <2>2. QED
    BY <1>2, <2>1
<1> HIDE DEF c
<1>7. RoutingInv'
  BY <1>1, <1>4, <1>6 DEF RoutingInv
<1>8. QED
  BY <1>1, <1>6, <1>7 DEF FlowInv, OptimizerInv, ChainInv, ResultIsEarned

LEMMA AnswerRoutedStep == FlowInv /\ AnswerRouted /\ Untouched => FlowInv'
<1> SUFFICES ASSUME FlowInv, AnswerRouted, Untouched PROVE FlowInv'
  OBVIOUS
<1> DEFINE c == [role |-> Specialist, given |-> {0}, says |-> <<"text">>]
<1>1. /\ pattern = "routing" /\ calls \in Seq(Calls) /\ Now = 1
      /\ \E route \in Routes : calls[1].says = <<route>>
      /\ pattern' = pattern /\ cap' = cap /\ cap \in Int
  BY DEF FlowInv, AnswerRouted, Untouched, OptimizerInv, ChainInv, RoutingInv
<1>2. PICK route \in Routes : calls[1].says = <<route>>
  BY <1>1
<1>3. Specialist = route
  BY <1>1, <1>2 DEF Specialist
<1>4. Specialist \in Roles /\ {0} \in SUBSET Nat /\ <<"text">> \in Sayings /\ c \in Calls
  BY <1>3 DEF Roles, Sayings, Calls
<1>5. c.role = route /\ c.given \ {0} = {} /\ Append(calls, c)[Now + 1] = c
  BY <1>1, <1>3, <1>4, CallAdded DEF Now
<1>6. FreshAt(Append(calls, c), Now + 1)
  <2> HIDE DEF c
  <2> QED
    BY <1>5 DEF FreshAt, Routes
<1>7. /\ calls' \in Seq(Calls) /\ PromptsAreFresh' /\ Now' = 2
      /\ calls'[2] = c /\ calls'[1] = calls[1]
  <2>1. Called(Specialist, {0}, <<"text">>)
    BY DEF AnswerRouted
  <2>2. /\ calls' \in Seq(Calls) /\ PromptsAreFresh' /\ Now' = Now + 1
        /\ DOMAIN calls' = 1..(Now + 1) /\ calls'[Now + 1] = c
        /\ \A i \in 1..Now : calls'[i] = calls[i]
    BY <1>4, <1>6, <2>1, CallMade
  <2> HIDE DEF c
  <2>3. QED
    BY <1>1, <2>2
<1> HIDE DEF c
<1>8. stage' = "over" /\ result'.text = 2 /\ result'.reason = route
  BY <1>1, <1>3 DEF AnswerRouted, Answer
<1>9. ResultIsEarned'
  BY <1>1, <1>2, <1>5, <1>7, <1>8 DEF ResultIsEarned
<1>10. RoutingInv'
  BY <1>8 DEF RoutingInv
<1>11. QED
  BY <1>1, <1>7, <1>8, <1>9, <1>10 DEF FlowInv, OptimizerInv, ChainInv

\* Retrieval calls the model once, with the task.
LEMMA AnswerCitedStep == FlowInv /\ AnswerCited /\ Untouched => FlowInv'
<1> SUFFICES ASSUME FlowInv, AnswerCited, Untouched PROVE FlowInv'
  OBVIOUS
<1> DEFINE c == [role |-> "answer_cited", given |-> {0}, says |-> <<"text">>]
<1>1. /\ pattern = "rag" /\ calls \in Seq(Calls)
      /\ pattern' = pattern /\ cap' = cap /\ cap \in Int
  BY DEF FlowInv, AnswerCited, Untouched, OptimizerInv, ChainInv, RoutingInv
<1>2. "answer_cited" \in Roles /\ {0} \in SUBSET Nat /\ <<"text">> \in Sayings /\ c \in Calls
  BY DEF Roles, Sayings, Calls
<1>3. c.role = "answer_cited" /\ c.given \ {0} = {} /\ Append(calls, c)[Now + 1] = c
  BY <1>1, <1>2, CallAdded DEF Now
<1>4. FreshAt(Append(calls, c), Now + 1)
  <2> HIDE DEF c
  <2> QED
    BY <1>3 DEF FreshAt, Routes
<1>5. calls' \in Seq(Calls) /\ PromptsAreFresh'
  <2>1. Called("answer_cited", {0}, <<"text">>)
    BY DEF AnswerCited
  <2>2. QED
    BY <1>2, <1>4, <2>1, CallMade
<1>6. stage' = "over"
  BY DEF AnswerCited, Answer, Raise
<1>7. QED
  BY <1>1, <1>5, <1>6 DEF FlowInv, OptimizerInv, ChainInv, RoutingInv, ResultIsEarned

\* A step that calls nothing and gives no answer.
LEMMA NoAnswerStep ==
  ASSUME FlowInv, calls' = calls, pattern' = pattern, cap' = cap,
         outcome' # "answered",
         stage' = "over" \/ (pattern = "rag" /\ stage' = "answer_cited")
  PROVE  FlowInv'
<1>1. calls' \in Seq(Calls) /\ PromptsAreFresh'
  BY CallsKept
<1>2. pattern' \in {"optimizer", "chain", "routing", "rag"} /\ cap' \in Int
  BY DEF FlowInv
<1>3. QED
  BY <1>1, <1>2 DEF FlowInv, OptimizerInv, ChainInv, RoutingInv, ResultIsEarned

\* Every step keeps the invariant.
LEMMA FlowStep == FlowInv /\ [FlowNext]_flowVars => FlowInv'
<1> SUFFICES ASSUME FlowInv, [FlowNext]_flowVars PROVE FlowInv'
  OBVIOUS
<1>1. ASSUME ModelCall, Untouched PROVE FlowInv'
  <2>1. CASE CallFails \/ TimesOut
    <3>1. calls' = calls /\ pattern' = pattern /\ cap' = cap /\ stage' = "over" /\ outcome' # "answered"
      BY <1>1, <2>1 DEF CallFails, TimesOut, Raise, Untouched
    <3>2. QED
      BY <3>1, NoAnswerStep
  <2>2. QED
    BY <1>1, <2>1, GenerateStep, EvaluateStep, OutlineStep, DraftStep, FinalizeStep,
       ClassifyStep, AnswerRoutedStep, AnswerCitedStep DEF ModelCall
<1>2. ASSUME DoRetrieve \/ RefuseTopK, UNCHANGED <<pattern, lane, cap, calls, index>> PROVE FlowInv'
  <2>1. pattern = "rag" /\ outcome # "answered"
    BY <1>2 DEF FlowInv, DoRetrieve, RefuseTopK, OptimizerInv, ChainInv, RoutingInv
  <2>2. outcome' # "answered" /\ stage' \in {"over", "answer_cited"}
    BY <1>2, <2>1 DEF DoRetrieve, RefuseTopK, Raise, Continue
  <2>3. calls' = calls /\ pattern' = pattern /\ cap' = cap
    BY <1>2
  <2>4. QED
    BY <2>1, <2>2, <2>3, NoAnswerStep
<1>3. CASE UNCHANGED flowVars
  <2>1. /\ pattern' = pattern /\ cap' = cap /\ stage' = stage /\ calls' = calls
        /\ outcome' = outcome /\ result' = result
    BY <1>3 DEF flowVars
  <2>2. calls' \in Seq(Calls) /\ PromptsAreFresh' /\ Now' = Now
    BY <2>1, CallsKept
  <2>3. \A role : Made(role)' = Made(role)
    BY <2>1 DEF Made
  <2>4. OptimizerInv' /\ ChainInv' /\ RoutingInv'
    BY <2>1, <2>2, <2>3 DEF FlowInv, OptimizerInv, ChainInv, RoutingInv, Rounds
  <2>5. ResultIsEarned'
    BY <2>1, <2>2, <2>3 DEF FlowInv, ResultIsEarned
  <2>6. QED
    BY <2>1, <2>2, <2>4, <2>5 DEF FlowInv
<1>4. QED
  BY <1>1, <1>2, <1>3, StartStep DEF FlowNext, Untouched

\* The inductive invariant of the sequential lanes, for every cap.
THEOREM FlowInvariant == FlowSpec => []FlowInv
  BY FlowStart, FlowStep, PTL DEF FlowSpec

\* Each prompt holds what came just before it and nothing older, in a loop of
\* any cap (_generator_prompt and the prompts of the chain and the router).
THEOREM FreshPrompts == FlowSpec => []PromptsAreFresh
<1>1. FlowInv => PromptsAreFresh
  BY DEF FlowInv
<1>2. QED
  BY <1>1, FlowInvariant, PTL

\* A result is the attempt judged last, the gate's answer or the chosen
\* specialist's, for every cap (run_evaluator_optimizer, _gate, run_routing).
THEOREM EarnedResults == FlowSpec => []ResultIsEarned
<1>1. FlowInv => ResultIsEarned
  BY DEF FlowInv
<1>2. QED
  BY <1>1, FlowInvariant, PTL

-----------------------------------------------------------------------------
\* The retrieval lane.

\* The chunks of a document are numbered from zero, in its order.
LEMMA DocumentChunked ==
  ASSUME NEW doc \in Document, Chunkable(doc)
  PROVE  /\ ChunkDocument(doc) \in Seq(Chunk)
         /\ \A i \in DOMAIN ChunkDocument(doc) :
               ChunkDocument(doc)[i].id = <<doc.source, i - 1>>
<1> DEFINE chunks == ChunkDocument(doc)
<1>1. /\ doc.source \in Nat /\ doc.metas \in Seq(Meta) /\ Len(doc.metas) \in Nat
      /\ DOMAIN doc.metas = 1..Len(doc.metas) /\ DOMAIN chunks = 1..Len(doc.metas)
  BY DEF Document, ChunkDocument
<1>2. ASSUME NEW i \in 1..Len(doc.metas)
      PROVE  chunks[i] \in Chunk /\ chunks[i].id = <<doc.source, i - 1>>
  <2>1. doc.metas[i] \in Meta /\ HasLocator(doc.metas[i])
    BY <1>1 DEF Chunkable
  <2>2. DeriveLocator(doc.metas[i]) \in {"page", "section", "char"} \X Nat
    <3> DEFINE meta == doc.metas[i]
    <3>1. meta.page \in Anchor /\ meta.heading \in Anchor /\ meta.span \in Anchor
      BY <2>1 DEF Meta
    <3> HIDE DEF meta
    <3>2. CASE meta.page # Absent
      <4>1. DeriveLocator(meta) = <<"page", meta.page>> /\ meta.page \in Nat
        BY <3>1, <3>2 DEF DeriveLocator, Anchor
      <4> QED
        BY <4>1 DEF meta
    <3>3. CASE meta.page = Absent /\ meta.heading # Absent
      <4>1. DeriveLocator(meta) = <<"section", meta.heading>> /\ meta.heading \in Nat
        BY <3>1, <3>3 DEF DeriveLocator, Anchor
      <4> QED
        BY <4>1 DEF meta
    <3>4. CASE meta.page = Absent /\ meta.heading = Absent
      <4>1. meta.span # Absent
        BY <2>1, <3>4 DEF HasLocator, meta
      <4>2. DeriveLocator(meta) = <<"char", meta.span>> /\ meta.span \in Nat
        BY <3>1, <3>4, <4>1 DEF DeriveLocator, Anchor
      <4> QED
        BY <4>2 DEF meta
    <3> QED
      BY <3>2, <3>3, <3>4
  <2>3. chunks[i] = [id |-> <<doc.source, i - 1>>, source |-> doc.source,
                     locator |-> DeriveLocator(doc.metas[i])]
    BY <1>1 DEF ChunkDocument, ChunkId
  <2>4. i - 1 \in Nat
    BY <1>1
  <2> QED
    BY <1>1, <2>2, <2>3, <2>4 DEF Chunk
<1>3. chunks = [i \in 1..Len(doc.metas) |-> chunks[i]]
  BY <1>1 DEF ChunkDocument
<1> HIDE DEF chunks
<1>4. chunks \in Seq(Chunk)
  <2>1. PICK n \in Nat : n = Len(doc.metas)
    BY <1>1
  <2>2. chunks \in [1..n -> Chunk]
    BY <1>2, <1>3, <2>1
  <2> QED
    BY <2>1, <2>2
<1>5. \A i \in DOMAIN chunks : chunks[i].id = <<doc.source, i - 1>>
  BY <1>1, <1>2
<1> QED
  BY <1>4, <1>5 DEF chunks

\* Documents that can be indexed, and what their index is.
Indexable(corpus) ==
    /\ \A d \in DOMAIN corpus : Chunkable(corpus[d])
    /\ \A d, e \in DOMAIN corpus : d # e => corpus[d].source # corpus[e].source

Indexes(chunks, corpus) ==
    /\ chunks \in Seq(Chunk)
    /\ \A a, b \in DOMAIN chunks : chunks[a].id = chunks[b].id => a = b
    /\ \A a \in DOMAIN chunks : \E d \in DOMAIN corpus : chunks[a].id[1] = corpus[d].source

\* One more document adds its chunks at the end.
LEMMA IndexGrows ==
  ASSUME NEW corpus \in Seq(Document), NEW doc \in Document, Indexable(Append(corpus, doc))
  PROVE  /\ Indexable(corpus) /\ Chunkable(doc)
         /\ \A d \in DOMAIN corpus : corpus[d].source # doc.source
         /\ BuildIndex(Append(corpus, doc)) = BuildIndex(corpus) \o ChunkDocument(doc)
<1> DEFINE more == Append(corpus, doc)
           n == Len(corpus)
           parts == [d \in DOMAIN corpus |-> ChunkDocument(corpus[d])]
<1>1. /\ n \in Nat /\ DOMAIN corpus = 1..n /\ DOMAIN more = 1..(n + 1)
      /\ more[n + 1] = doc /\ \A d \in 1..n : more[d] = corpus[d] /\ corpus[d] \in Document
  OBVIOUS
<1> HIDE DEF more, n
<1>2. Indexable(more)
  BY DEF more
<1>3. \A d \in 1..n : d \in 1..(n + 1) /\ d # n + 1 /\ n + 1 \in 1..(n + 1)
  BY <1>1
<1>4. Indexable(corpus) /\ \A d \in DOMAIN corpus : corpus[d].source # doc.source
  BY <1>1, <1>2, <1>3 DEF Indexable
<1>5. Chunkable(doc)
  <2>1. n + 1 \in DOMAIN more
    BY <1>1
  <2> QED
    BY <1>1, <1>2, <2>1 DEF Indexable
<1>6. parts \in Seq(Seq(Chunk)) /\ Len(parts) = n
  <2>1. \A d \in 1..n : ChunkDocument(corpus[d]) \in Seq(Chunk)
    BY <1>1, <1>4, DocumentChunked DEF Indexable
  <2> QED
    BY <1>1, <2>1
<1>7. ChunkDocument(doc) \in Seq(Chunk)
  BY <1>5, DocumentChunked
<1>8. [d \in DOMAIN more |-> ChunkDocument(more[d])] = Append(parts, ChunkDocument(doc))
  <2> DEFINE all == [d \in DOMAIN more |-> ChunkDocument(more[d])]
             grown == Append(parts, ChunkDocument(doc))
  <2>1. /\ grown \in Seq(Seq(Chunk)) /\ DOMAIN grown = 1..(n + 1)
        /\ grown[n + 1] = ChunkDocument(doc) /\ \A d \in 1..n : grown[d] = parts[d]
    BY <1>6, <1>7, Appended
  <2>2. DOMAIN all = 1..(n + 1) /\ \A d \in 1..(n + 1) : all[d] = ChunkDocument(more[d])
    BY <1>1
  <2>3. \A d \in 1..n : parts[d] = ChunkDocument(corpus[d])
    BY <1>1
  <2>4. all = [d \in 1..(n + 1) |-> all[d]]
    BY <2>2
  <2>5. grown = [d \in 1..(n + 1) |-> grown[d]]
    <3> HIDE DEF grown
    <3>1. grown = [d \in DOMAIN grown |-> grown[d]]
      BY <2>1
    <3> QED
      BY <2>1, <3>1
  <2> HIDE DEF all, grown, parts
  <2>6. \A d \in 1..(n + 1) : d \in 1..n \/ d = n + 1
    BY <1>1
  <2>7. \A d \in 1..(n + 1) : all[d] = grown[d]
    BY <1>1, <2>1, <2>2, <2>3, <2>6
  <2>8. all = grown
    BY <2>4, <2>7, <2>5, Zenon
  <2> QED
    BY <2>8 DEF all, grown
<1>9. /\ BuildIndex(more) = FlattenSeq(Append(parts, ChunkDocument(doc)))
      /\ BuildIndex(corpus) = FlattenSeq(parts)
  BY <1>8 DEF BuildIndex
<1> HIDE DEF parts
<1>10. FlattenSeq(Append(parts, ChunkDocument(doc))) = FlattenSeq(parts) \o ChunkDocument(doc)
  BY <1>6, <1>7, FlattenAppend
<1> QED
  BY <1>4, <1>5, <1>9, <1>10 DEF more

\* Documents of different sources are indexed under different ids.
LEMMA CorpusIndexed ==
  ASSUME NEW corpus \in Seq(Document), Indexable(corpus)
  PROVE  Indexes(BuildIndex(corpus), corpus)
<1> DEFINE G == {s \in Seq(Document) : Indexable(s) => Indexes(BuildIndex(s), s)}
<1>1. <<>> \in G
  <2>1. BuildIndex(<<>>) = <<>>
    <3>1. FlattenSeq(<<>>) = <<>>
      BY DEF FlattenSeq
    <3>2. [d \in DOMAIN <<>> |-> ChunkDocument(<<>>[d])] = <<>>
      OBVIOUS
    <3> QED
      BY <3>1, <3>2 DEF BuildIndex
  <2>2. Indexes(<<>>, <<>>)
    BY DEF Indexes
  <2> QED
    BY <2>1, <2>2
<1>2. ASSUME NEW s \in Seq(Document), NEW doc \in Document, s \in G PROVE Append(s, doc) \in G
  <2>1. ASSUME Indexable(Append(s, doc)) PROVE Indexes(BuildIndex(Append(s, doc)), Append(s, doc))
    <3>1. PICK old, new, all, more : /\ old = BuildIndex(s) /\ new = ChunkDocument(doc)
                                     /\ all = old \o new /\ more = Append(s, doc)
      OBVIOUS
    <3>2. Indexable(s) /\ Chunkable(doc) /\ BuildIndex(more) = all
          /\ \A d \in DOMAIN s : s[d].source # doc.source
      BY <2>1, <3>1, IndexGrows
    <3>3. Indexes(old, s)
      BY <1>2, <3>1, <3>2
    <3>4. new \in Seq(Chunk) /\ \A i \in DOMAIN new : new[i].id = <<doc.source, i - 1>>
      BY <3>1, <3>2, DocumentChunked
    <3>5. /\ old \in Seq(Chunk) /\ all \in Seq(Chunk)
          /\ Len(old) \in Nat /\ Len(new) \in Nat
          /\ DOMAIN old = 1..Len(old) /\ DOMAIN new = 1..Len(new)
          /\ DOMAIN all = 1..(Len(old) + Len(new))
          /\ \A a \in 1..Len(old) : all[a] = old[a]
          /\ \A a \in DOMAIN all : a \notin DOMAIN old => all[a] = new[a - Len(old)]
      <4>1. old \in Seq(Chunk)
        BY <3>3 DEF Indexes
      <4> QED
        BY <3>1, <3>4, <4>1
    <3>6. /\ DOMAIN s \subseteq DOMAIN more /\ Len(s) + 1 \in DOMAIN more
          /\ more[Len(s) + 1] = doc /\ \A d \in DOMAIN s : more[d] = s[d]
      BY <3>1
    <3>7. ASSUME NEW a \in DOMAIN all
          PROVE  \/ /\ a \in DOMAIN old /\ all[a] = old[a]
                    /\ \E d \in DOMAIN s : all[a].id[1] = s[d].source
                 \/ /\ a \notin DOMAIN old /\ all[a].id = <<doc.source, (a - Len(old)) - 1>>
                    /\ all[a].id[1] = doc.source
      <4>1. CASE a \in DOMAIN old
        BY <3>3, <3>5, <4>1 DEF Indexes
      <4>2. CASE a \notin DOMAIN old
        <5>1. a - Len(old) \in DOMAIN new /\ all[a] = new[a - Len(old)]
          BY <3>5, <4>2
        <5>2. all[a].id = <<doc.source, (a - Len(old)) - 1>>
          BY <3>4, <5>1
        <5> QED
          BY <4>2, <5>2
      <4> QED
        BY <4>1, <4>2
    <3>8. \A a \in DOMAIN all : \E d \in DOMAIN more : all[a].id[1] = more[d].source
      BY <3>6, <3>7
    <3>9. ASSUME NEW a \in DOMAIN all, NEW b \in DOMAIN all, all[a].id = all[b].id PROVE a = b
      <4>1. CASE a \in DOMAIN old /\ b \in DOMAIN old
        BY <3>3, <3>7, <3>9, <4>1 DEF Indexes
      <4>2. CASE a \notin DOMAIN old /\ b \notin DOMAIN old
        <5>1. <<doc.source, (a - Len(old)) - 1>> = <<doc.source, (b - Len(old)) - 1>>
          BY <3>7, <3>9, <4>2
        <5>2. (a - Len(old)) - 1 = (b - Len(old)) - 1
          BY <5>1
        <5>3. a \in Int /\ b \in Int /\ Len(old) \in Int
          BY <3>5
        <5> QED
          BY <5>2, <5>3
      <4>3. CASE a \in DOMAIN old /\ b \notin DOMAIN old
        BY <3>2, <3>7, <3>9, <4>3
      <4>4. CASE a \notin DOMAIN old /\ b \in DOMAIN old
        BY <3>2, <3>7, <3>9, <4>4
      <4> QED
        BY <4>1, <4>2, <4>3, <4>4
    <3>10. Indexes(all, more)
      BY <3>5, <3>8, <3>9 DEF Indexes
    <3> QED
      BY <3>1, <3>2, <3>10
  <2> QED
    BY <2>1, Appended
<1> HIDE DEF G
<1>3. corpus \in G
  BY <1>1, <1>2, SeqInduct
<1> QED
  BY <1>3 DEF G

\* Score first, then id: a strict order of what is returned, in pairs.
RankedBefore(returned, score, chunks) ==
    {p \in returned \X returned : Before(score, chunks, p[1], p[2])}

\* A missing score counts as zero.
LEMMA ScoreIsNumber ==
  ASSUME NEW returned, NEW score \in [returned -> Scores \cup {Absent}], NEW c \in returned
  PROVE  ScoreOf(score, c) \in Int
<1>1. score[c] \in Scores \cup {Absent}
  OBVIOUS
<1>2. \A x \in Scores : x \in Int
  BY WorkflowAssumption, Zenon
<1>3. Absent \in Int
  BY DEF Absent
<1>4. score[c] \in Int
  BY <1>1, <1>2, <1>3
<1> QED
  BY <1>4 DEF ScoreOf

\* No two chunks tie: their ids differ.
LEMMA RankingOrders ==
  ASSUME NEW chunks \in Seq(Chunk),
         \A a, b \in DOMAIN chunks : chunks[a].id = chunks[b].id => a = b,
         NEW returned \in SUBSET DOMAIN chunks, NEW score \in [returned -> Scores \cup {Absent}]
  PROVE  StrictOrder(RankedBefore(returned, score, chunks), returned)
<1> DEFINE points == [c \in returned |-> ScoreOf(score, c)]
           source == [c \in returned |-> chunks[c].id[1]]
           number == [c \in returned |-> chunks[c].id[2]]
           R == RankedBefore(returned, score, chunks)
<1>1. ASSUME NEW c \in returned
      PROVE  points[c] \in Int /\ points[c] = ScoreOf(score, c)
  BY ScoreIsNumber
<1>2. ASSUME NEW c \in returned
      PROVE  /\ source[c] \in Int /\ number[c] \in Int
             /\ source[c] = chunks[c].id[1] /\ number[c] = chunks[c].id[2]
             /\ chunks[c].id = <<source[c], number[c]>>
  <2>1. c \in DOMAIN chunks /\ chunks[c] \in Chunk
    OBVIOUS
  <2>2. chunks[c].id \in Nat \X Nat
    BY <2>1 DEF Chunk
  <2> QED
    BY <2>2
<1> HIDE DEF points, source, number
<1>3. ASSUME NEW a \in returned, NEW b \in returned, source[a] = source[b], number[a] = number[b]
      PROVE  a = b
  <2>1. chunks[a].id = chunks[b].id /\ a \in DOMAIN chunks /\ b \in DOMAIN chunks
    BY <1>2, <1>3
  <2> QED
    BY <2>1
<1>4. ASSUME NEW a \in returned, NEW b \in returned
      PROVE  <<a, b>> \in R <=> \/ points[a] > points[b]
                                \/ /\ points[a] = points[b]
                                   /\ \/ source[a] < source[b]
                                      \/ source[a] = source[b] /\ number[a] < number[b]
  <2>1. <<a, b>> \in R <=> Before(score, chunks, a, b)
    BY DEF RankedBefore
  <2> QED
    BY <1>1, <1>2, <2>1 DEF Before, IdBefore
<1> HIDE DEF R
<1>5. ASSUME NEW a \in returned PROVE <<a, a>> \notin R
  <2>1. points[a] \in Int /\ source[a] \in Int /\ number[a] \in Int
    BY <1>1, <1>2
  <2> QED
    BY <1>4, <2>1
<1>6. ASSUME NEW a \in returned, NEW b \in returned, NEW c \in returned,
             <<a, b>> \in R, <<b, c>> \in R
      PROVE  <<a, c>> \in R
  <2>1. /\ points[a] \in Int /\ source[a] \in Int /\ number[a] \in Int
        /\ points[b] \in Int /\ source[b] \in Int /\ number[b] \in Int
        /\ points[c] \in Int /\ source[c] \in Int /\ number[c] \in Int
    BY <1>1, <1>2
  <2>2. \/ points[a] > points[b]
        \/ /\ points[a] = points[b]
           /\ source[a] < source[b] \/ (source[a] = source[b] /\ number[a] < number[b])
    BY <1>4, <1>6
  <2>3. \/ points[b] > points[c]
        \/ /\ points[b] = points[c]
           /\ source[b] < source[c] \/ (source[b] = source[c] /\ number[b] < number[c])
    BY <1>4, <1>6
  <2>4. \/ points[a] > points[c]
        \/ /\ points[a] = points[c]
           /\ source[a] < source[c] \/ (source[a] = source[c] /\ number[a] < number[c])
    BY <2>1, <2>2, <2>3
  <2> QED
    BY <1>4, <2>4
<1>7. ASSUME NEW a \in returned, NEW b \in returned, a # b
      PROVE  <<a, b>> \in R \/ <<b, a>> \in R
  <2>1. /\ points[a] \in Int /\ source[a] \in Int /\ number[a] \in Int
        /\ points[b] \in Int /\ source[b] \in Int /\ number[b] \in Int
    BY <1>1, <1>2
  <2>2. source[a] # source[b] \/ number[a] # number[b]
    BY <1>3, <1>7
  <2>3. \/ points[a] > points[b]
        \/ points[b] > points[a]
        \/ /\ points[a] = points[b] /\ points[b] = points[a]
           /\ \/ source[a] < source[b] \/ source[b] < source[a]
              \/ /\ source[a] = source[b] /\ source[b] = source[a]
                 /\ number[a] < number[b] \/ number[b] < number[a]
    BY <2>1, <2>2
  <2> QED
    BY <1>4, <2>3
<1> QED
  BY <1>5, <1>6, <1>7 DEF StrictOrder, R

\* What is kept of the ranking: no more than asked for, and none of those left
\* out scores higher than one that is kept.
LEMMA BestRetrieved ==
  ASSUME NEW chunks \in Seq(Chunk),
         \A a, b \in DOMAIN chunks : chunks[a].id = chunks[b].id => a = b,
         NEW returned \in SUBSET DOMAIN chunks, NEW score \in [returned -> Scores \cup {Absent}],
         NEW k \in Nat
  PROVE  LET kept == Retrieve(returned, score, chunks, k)
         IN  /\ kept \in Seq(returned) /\ Len(kept) <= k
             /\ \A c \in Range(kept), d \in returned \ Range(kept) :
                   ScoreOf(score, c) >= ScoreOf(score, d)
<1> DEFINE R == RankedBefore(returned, score, chunks)
           r == Ranked(returned, score, chunks)
           N == Cardinality(returned)
           m == IF k < Len(r) THEN k ELSE Len(r)
           kept == SubSeq(r, 1, m)
<1>1. IsFiniteSet(returned) /\ N \in Nat
  <2>1. PICK n \in Nat : n = Len(chunks) /\ DOMAIN chunks = 1..n
    OBVIOUS
  <2>2. IsFiniteSet(1..n)
    BY FS_Interval
  <2> QED
    BY <2>1, <2>2, FS_Subset, FS_CardinalityType
<1>2. StrictOrder(R, returned)
  BY RankingOrders
<1>3. \A c \in returned :
         Cardinality({d \in returned : Before(score, chunks, d, c)}) = Rank(R, returned, c)
  <2> SUFFICES ASSUME NEW c \in returned
               PROVE  {d \in returned : Before(score, chunks, d, c)} = {d \in returned : <<d, c>> \in R}
    BY DEF Rank
  <2> QED
    BY DEF RankedBefore
<1> HIDE DEF R
<1>4. /\ r \in [1..N -> returned]
      /\ \A i \in 1..N : Rank(R, returned, r[i]) = i - 1
  <2> DEFINE place(c) == Cardinality({d \in returned : Before(score, chunks, d, c)})
  <2>1. r = [i \in 1..N |-> CHOOSE c \in returned : place(c) = i - 1]
    BY DEF Ranked
  <2>2. \A c \in returned : place(c) = Rank(R, returned, c)
    BY <1>3
  <2> HIDE DEF place, r, N
  <2>3. ASSUME NEW i \in 1..N PROVE r[i] \in returned /\ Rank(R, returned, r[i]) = i - 1
    <3>1. \E c \in returned : Rank(R, returned, c) = i - 1
      BY <1>1, <1>2, RankFound DEF N
    <3>2. \E c \in returned : place(c) = i - 1
      BY <2>2, <3>1
    <3>3. r[i] = CHOOSE c \in returned : place(c) = i - 1
      BY <2>1
    <3>4. r[i] \in returned /\ place(r[i]) = i - 1
      BY <3>2, <3>3
    <3> QED
      BY <2>2, <3>4
  <2>4. r = [i \in 1..N |-> r[i]]
    BY <2>1
  <2> QED
    BY <2>3, <2>4
<1> HIDE DEF r
<1>5. /\ r \in Seq(returned) /\ Len(r) = N
      /\ \A c \in returned : \E i \in DOMAIN r : r[i] = c
      /\ \A i, j \in DOMAIN r : i < j => <<r[i], r[j]>> \in R
  <2>1. \A S, Q, q :
           /\ IsFiniteSet(S) /\ StrictOrder(Q, S) /\ q \in [1..Cardinality(S) -> S]
           /\ \A i \in 1..Cardinality(S) : Rank(Q, S, q[i]) = i - 1
           => /\ q \in Seq(S) /\ Len(q) = Cardinality(S)
              /\ \A x \in S : \E i \in DOMAIN q : q[i] = x
              /\ \A i, j \in DOMAIN q : i < j => <<q[i], q[j]>> \in Q
    BY RankedInOrder
  <2> QED
    BY <1>1, <1>2, <1>4, <2>1, Zenon
<1> HIDE DEF N
<1>6. /\ m \in 0..N /\ m <= k /\ DOMAIN r = 1..N
  BY <1>1, <1>5
<1> HIDE DEF m
<1>7. /\ kept \in Seq(returned) /\ Len(kept) = m /\ DOMAIN kept = 1..m
      /\ \A i \in 1..m : kept[i] = r[i]
  BY <1>1, <1>5, <1>6
<1>8. Retrieve(returned, score, chunks, k) = kept
  BY DEF Retrieve, kept, m, r
<1> HIDE DEF kept
<1>9. ASSUME NEW c \in Range(kept), NEW d \in returned \ Range(kept)
      PROVE  ScoreOf(score, c) >= ScoreOf(score, d)
  <2>1. PICK i \in 1..m : c = kept[i]
    BY <1>7 DEF Range
  <2>2. PICK j \in 1..N : d = r[j]
    BY <1>5, <1>6
  <2>3. j \notin 1..m
    BY <1>7, <2>2 DEF Range
  <2>4. i \in 1..N /\ i < j /\ c = r[i]
    BY <1>1, <1>6, <1>7, <2>1, <2>2, <2>3
  <2>5. <<c, d>> \in R
    BY <1>5, <1>6, <2>2, <2>4
  <2>6. Before(score, chunks, c, d) /\ c \in returned
    BY <2>5 DEF R, RankedBefore
  <2>7. ScoreOf(score, c) \in Int /\ ScoreOf(score, d) \in Int
    BY <2>6, ScoreIsNumber
  <2> QED
    BY <2>6, <2>7 DEF Before
<1>10. kept \in Seq(returned) /\ Len(kept) <= k
  BY <1>6, <1>7
<1> QED
  BY <1>8, <1>9, <1>10

\* The retrieval lane starts with nothing indexed and nothing shown.
LEMMA RagStart == FlowInit => RagInv
<1> SUFFICES ASSUME FlowInit PROVE RagInv
  OBVIOUS
<1>1. cap \in Nat /\ cap >= 0
  BY WorkflowAssumption DEF FlowInit
<1>2. index = <<>> /\ shown = <<>> /\ scored = <<>> /\ outcome # "answered"
  BY DEF FlowInit
<1>3. IndexInv
  BY <1>2 DEF IndexInv
<1>4. ShownInv
  <2>1. DOMAIN scored = {} /\ Len(shown) = 0 /\ shown \in Seq(DOMAIN index)
    BY <1>2
  <2> QED
    BY <1>1, <2>1 DEF ShownInv
<1>5. CitationsResolve
  BY <1>2 DEF CitationsResolve
<1> QED
  BY <1>1, <1>2, <1>3, <1>4, <1>5 DEF RagInv

\* What is indexed, shown and scored stays as it is in most steps; what is left
\* to show of them is that they cite nothing new.
LEMMA RagKept ==
  ASSUME RagInv, index' = index, shown' = shown, scored' = scored,
         pattern' = pattern, cap' = cap, stage' # "start" \/ stage' = stage,
         CitationsResolve'
  PROVE  RagInv'
<1>1. IndexInv'
  BY DEF RagInv, IndexInv
<1>2. ShownInv'
  BY DEF RagInv, ShownInv, ScoreOf
<1> QED
  BY <1>1, <1>2 DEF RagInv

\* Start indexes the documents, if the lane is the one that has any.
LEMMA RagStartStep == FlowInv /\ RagInv /\ Start => RagInv'
<1> SUFFICES ASSUME FlowInv, RagInv, Start PROVE RagInv'
  OBVIOUS
<1>1. /\ shown = <<>> /\ shown' = shown /\ scored' = scored /\ cap' = cap /\ pattern' = pattern
      /\ stage' # "start" /\ stage = "start"
  BY DEF RagInv, Start, Raise, Continue
<1>2. CitationsResolve'
  <2>1. outcome # "answered"
    BY <1>1 DEF FlowInv
  <2>2. outcome' # "answered"
    BY <2>1 DEF Start, Raise, Continue
  <2> QED
    BY <2>2 DEF CitationsResolve
<1>3. CASE index' = index
  BY <1>1, <1>2, <1>3, RagKept
<1>4. CASE index' # index
  <2>1. PICK corpus \in Corpora : /\ \A d \in DOMAIN corpus : Chunkable(corpus[d])
                                  /\ index' = BuildIndex(corpus)
    BY <1>4 DEF Start
  <2>2. corpus \in Seq(Document) /\ Indexable(corpus)
    BY <2>1, WorkflowAssumption DEF Indexable
  <2>3. IndexInv'
    <3>1. PICK chunks : chunks = BuildIndex(corpus)
      OBVIOUS
    <3>2. Indexes(chunks, corpus)
      BY <2>2, <3>1, CorpusIndexed
    <3> QED
      BY <2>1, <3>1, <3>2 DEF Indexes, IndexInv
  <2>4. ShownInv'
    <3>1. shown' = <<>> /\ Len(<<>>) = 0 /\ Range(<<>>) = {} /\ cap' \in Nat
      BY <1>1 DEF RagInv, Range
    <3>2. shown' \in Seq(DOMAIN index')
      BY <3>1
    <3>3. Range(shown') = {} /\ Len(shown') <= cap'
      BY <3>1
    <3> QED
      BY <3>2, <3>3 DEF ShownInv
  <2> QED
    BY <1>1, <1>2, <2>3, <2>4 DEF RagInv
<1> QED
  BY <1>3, <1>4

\* Retrieval shows the best of what was returned.
LEMMA RetrieveStep ==
  ASSUME FlowInv, RagInv, DoRetrieve, UNCHANGED <<pattern, lane, cap, calls, index>>
  PROVE  RagInv'
<1>1. PICK returned \in SUBSET DOMAIN index : \E score \in [returned -> Scores \cup {Absent}] :
         shown' = Retrieve(returned, score, index, cap) /\ scored' = score
  BY DEF DoRetrieve
<1>2. PICK score \in [returned -> Scores \cup {Absent}] :
         shown' = Retrieve(returned, score, index, cap) /\ scored' = score
  BY <1>1
<1>3. /\ outcome # "answered" /\ outcome' = outcome /\ stage' # "start"
      /\ cap \in Nat /\ cap' = cap /\ index' = index /\ IndexInv
  BY DEF DoRetrieve, Continue, FlowInv, RagInv
<1>4. IndexInv' /\ CitationsResolve'
  BY <1>3 DEF IndexInv, CitationsResolve
<1>5. PICK kept : kept = Retrieve(returned, score, index, cap)
  OBVIOUS
<1>6. /\ kept \in Seq(returned) /\ Len(kept) <= cap
      /\ \A c \in Range(kept), d \in returned \ Range(kept) :
            ScoreOf(score, c) >= ScoreOf(score, d)
  BY <1>3, <1>5, BestRetrieved DEF IndexInv
<1>7. shown' = kept /\ scored' = score /\ DOMAIN score = returned
  BY <1>2, <1>5
<1>8. ShownInv'
  <2>1. shown' \in Seq(DOMAIN index')
    BY <1>3, <1>6, <1>7
  <2>2. \A c \in Range(shown'), d \in DOMAIN scored' \ Range(shown') :
           ScoreOf(scored', c) >= ScoreOf(scored', d)
    BY <1>6, <1>7
  <2> QED
    BY <1>3, <1>6, <1>7, <2>1, <2>2 DEF ShownInv, ScoreOf
<1> QED
  BY <1>3, <1>4, <1>8 DEF RagInv

\* A cited answer cites what was shown, and an id of what was shown is the id
\* of nothing else.
LEMMA CitedStep ==
  ASSUME FlowInv, RagInv, AnswerCited, UNCHANGED <<pattern, lane, cap, index, shown, scored>>
  PROVE  RagInv'
<1>1. stage' # "start"
  BY DEF AnswerCited, Answer, Raise
<1>2. CASE outcome' # "answered"
  BY <1>1, <1>2, RagKept DEF CitationsResolve
<1>3. CASE outcome' = "answered"
  <2>1. PICK cited : /\ cited \in SUBSET (Ids(DOMAIN index) \cup {<<0, 99>>})
                     /\ LET error == CitationError(cited, Ids(Range(shown)))
                        IN  IF error = "" THEN Answer(1, "cited", cited) ELSE Raise(error)
    BY DEF AnswerCited
  <2>2. CitationError(cited, Ids(Range(shown))) = "" /\ result'.cites = cited
    BY <1>3, <2>1 DEF CitationError, Answer, Raise
  <2>3. cited # {} /\ cited \subseteq Ids(Range(shown))
    BY <2>2 DEF CitationError
  <2>4. \A c \in Range(shown) : c \in DOMAIN index
    BY DEF RagInv, ShownInv, Range
  <2>5. ASSUME NEW id \in cited
        PROVE  \E c \in Range(shown) : {d \in DOMAIN index : index[d].id = id} = {c}
    <3>1. PICK c \in Range(shown) : id = index[c].id
      BY <2>3 DEF Ids
    <3>2. \A d \in DOMAIN index : index[d].id = id <=> d = c
      BY <2>4, <3>1 DEF RagInv, IndexInv
    <3> QED
      BY <2>4, <3>1, <3>2
  <2>6. pattern = "rag" =>
           /\ Len(shown) <= cap
           /\ \A c \in Range(shown), d \in DOMAIN scored \ Range(shown) :
                 ScoreOf(scored, c) >= ScoreOf(scored, d)
    BY DEF RagInv, ShownInv
  <2>7. CitationsResolve'
    BY <2>2, <2>3, <2>5, <2>6 DEF CitationsResolve, ScoreOf
  <2> QED
    BY <1>1, <2>7, RagKept
<1> QED
  BY <1>2, <1>3

\* Every step keeps the invariant of the retrieval lane.
LEMMA RagStep == FlowInv /\ RagInv /\ [FlowNext]_flowVars => RagInv'
<1> SUFFICES ASSUME FlowInv, RagInv, [FlowNext]_flowVars PROVE RagInv'
  OBVIOUS
<1>1. ASSUME ModelCall, UNCHANGED <<pattern, lane, cap, index, shown, scored>>, ~AnswerCited
      PROVE  RagInv'
  <2>1. stage' # "start"
    BY <1>1 DEF ModelCall, Generate, Evaluate, Judged, Outline, Draft, Gate, Finalize, Classify,
       AnswerRouted, CallFails, TimesOut, Answer, Raise, Continue
  <2>2. pattern = "rag" => outcome' # "answered"
    BY <1>1 DEF FlowInv, ModelCall, Generate, Evaluate, Outline, Draft, Finalize, Classify,
       AnswerRouted, CallFails, TimesOut, Raise
  <2>3. CitationsResolve'
    BY <1>1, <2>2 DEF CitationsResolve
  <2> QED
    BY <1>1, <2>1, <2>3, RagKept
<1>2. ASSUME RefuseTopK, UNCHANGED <<pattern, lane, cap, calls, index>> PROVE RagInv'
  <2>1. stage' # "start" /\ outcome' # "answered" /\ shown' = shown /\ scored' = scored
    BY <1>2 DEF RefuseTopK, Raise
  <2>2. CitationsResolve'
    BY <2>1 DEF CitationsResolve
  <2> QED
    BY <1>2, <2>1, <2>2, RagKept
<1>3. CASE UNCHANGED flowVars
  <2>1. /\ pattern' = pattern /\ cap' = cap /\ stage' = stage /\ index' = index /\ shown' = shown
        /\ scored' = scored /\ outcome' = outcome /\ result' = result
    BY <1>3 DEF flowVars
  <2>2. CitationsResolve'
    BY <2>1 DEF RagInv, CitationsResolve, ScoreOf
  <2> QED
    BY <2>1, <2>2, RagKept
<1> QED
  BY <1>1, <1>2, <1>3, RagStartStep, RetrieveStep, CitedStep DEF FlowNext

\* An answer of the retrieval lane cites something, and each citation names one
\* chunk of the corpus, one of the best of what was returned, for any documents,
\* any top_k and any scores (retrieve, validate_citations).
THEOREM CitedWasShown == FlowSpec => []CitationsResolve
<1>1. FlowInit => FlowInv /\ RagInv
  BY FlowStart, RagStart
<1>2. (FlowInv /\ RagInv) /\ [FlowNext]_flowVars => (FlowInv /\ RagInv)'
  BY FlowStep, RagStep
<1>3. RagInv => CitationsResolve
  BY DEF RagInv
<1> QED
  BY <1>1, <1>2, <1>3, PTL DEF FlowSpec
=============================================================================
