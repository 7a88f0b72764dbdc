----------------------------- MODULE RateLimiter -----------------------------
(***************************************************************************)
(* The rate limiter of patterns/rate-limit for one client key: the ASGI    *)
(* middleware counts every request against the default limit, a route      *)
(* dependency may count it against a stricter one, and RateLimiter.hit     *)
(* counts on a shared primary storage (Redis) or, for a cooldown after a   *)
(* failure, on in-process memory.  A hit awaits the primary twice (hit,    *)
(* then get_window_stats), and other requests run in between; the memory   *)
(* storage never suspends.                                                 *)
(*                                                                         *)
(* Time is kept as what is left of it: a Tick takes one unit from every    *)
(* running timer, so no bound on the clock or on the number of requests is *)
(* needed.                                                                 *)
(***************************************************************************)
EXTENDS Integers

CONSTANTS
  Requests,  \* concurrent requests of one client
  Limit,     \* Limit[i]: the amount of limit i
  Period,    \* length of a fixed window, in ticks
  Recovery   \* recovery_seconds, in ticks

Items    == {"default", "route"}
Storages == {"primary", "memory"}

ASSUME LimitsAssumption == Limit \in [Items -> Nat]
ASSUME TimesAssumption  == Period \in Nat \ {0} /\ Recovery \in Nat \ {0}

VARIABLES
  up,        \* the primary storage answers
  degraded,  \* _degraded_until is not None
  cooldown,  \* what is left until _degraded_until, 0 when it has passed
  since,     \* ticks since the primary last failed, Recovery when longer ago
  bucket,    \* the fixed window of each storage and limit
  request    \* where each request is suspended

vars == <<up, degraded, cooldown, since, bucket, request>>

Phases == {"idle", "hitting", "reading", "routing", "handler"}

\* count stops at one more than the limit: only "fits or not" is ever read.
\* granted (a history) counts the requests this window let through.
Window  == [count: Nat, left: 0..Period, granted: Nat]
Request == [phase: Phases, item: Items, fits: BOOLEAN, current: BOOLEAN]

NoWindow == [count |-> 0, left |-> 0, granted |-> 0]
Idle     == [phase |-> "idle", item |-> "default", fits |-> FALSE, current |-> FALSE]

Init ==
  /\ up       = TRUE
  /\ degraded = FALSE
  /\ cooldown = 0
  /\ since    = Recovery
  /\ bucket   = [s \in Storages |-> [i \in Items |-> NoWindow]]
  /\ request  = [r \in Requests |-> Idle]

-----------------------------------------------------------------------------
\* One hit on a fixed window: the first one opens it.  A definition whose name
\* ends in a suffix is a deliberate fault of the one it precedes.
CountOn(w, i) ==
  [w EXCEPT !.count = IF @ > Limit[i] THEN @ ELSE @ + 1,
            !.left  = IF @ = 0 THEN Period ELSE @]

Fits(n, i) == n <= Limit[i]

\* _primary_available; when the cooldown has passed it also forgets it.
Available_Never(d, t) == ~d
Available(d, t)       == ~d \/ t = 0

\* The last failure counts: a hit that was in flight when another one failed
\* moves the deadline on when it fails as well.
Deadline_First(d, t) == IF d THEN t ELSE Recovery
Deadline(d, t)       == Recovery

\* Both enforcement paths look at the decision before they go on.
Allowed_Ignored(fits) == TRUE
Allowed(fits)         == fits

\* What follows a counted hit: 429, the route, or the handler.
After(r, i, fits) ==
  request' = [request EXCEPT
    ![r] = IF ~Allowed(fits) THEN Idle
           ELSE [Idle EXCEPT !.phase = IF i = "default" THEN "routing" ELSE "handler", !.item = i]]

Grant(w, fits) == [w EXCEPT !.granted = IF Allowed(fits) THEN @ + 1 ELSE @]

\* Counting on memory: hit and stats, without an await that suspends.
CountOnMemory(r, i) ==
  LET w    == CountOn(bucket["memory"][i], i)
      fits == Fits(w.count, i) IN
  /\ bucket' = [bucket EXCEPT !["memory"][i] = Grant(w, fits)]
  /\ After(r, i, fits)

\* RateLimiter.hit up to its first await.
BeginHit(r, i) ==
  \/ /\ Available(degraded, cooldown)
     /\ degraded' = FALSE
     /\ request'  = [request EXCEPT ![r] = [Idle EXCEPT !.phase = "hitting", !.item = i]]
     /\ UNCHANGED <<up, cooldown, since, bucket>>
  \/ /\ ~Available(degraded, cooldown)
     /\ CountOnMemory(r, i)
     /\ UNCHANGED <<up, degraded, cooldown, since>>

-----------------------------------------------------------------------------
\* A request arrives: the middleware counts it before it is routed.
Arrive(r) ==
  /\ request[r].phase = "idle"
  /\ BeginHit(r, "default")

\* It is routed to an endpoint with a stricter limit, or to one without.
EnforceRoute(r) ==
  /\ request[r].phase = "routing"
  /\ BeginHit(r, "route")

NoRouteLimit(r) ==
  /\ request[r].phase = "routing"
  /\ request' = [request EXCEPT ![r].phase = "handler"]
  /\ UNCHANGED <<up, degraded, cooldown, since, bucket>>

\* The primary counts the hit; the answer is yes or no, and stats are asked for.
PrimaryCounts(r) ==
  LET i == request[r].item
      w == CountOn(bucket["primary"][i], i) IN
  /\ request[r].phase = "hitting"
  /\ up
  /\ bucket'  = [bucket EXCEPT !["primary"][i] = w]
  /\ request' = [request EXCEPT ![r] = [@ EXCEPT !.phase = "reading",
                                                 !.fits = Fits(w.count, i), !.current = TRUE]]
  /\ UNCHANGED <<up, degraded, cooldown, since>>

\* The stats arrive: hit returns its decision.  The window it was counted in
\* may have ended meanwhile.
PrimaryReads(r) ==
  LET i == request[r].item IN
  /\ request[r].phase = "reading"
  /\ up
  /\ bucket' = [bucket EXCEPT !["primary"][i] = IF request[r].current THEN Grant(@, request[r].fits) ELSE @]
  /\ After(r, i, request[r].fits)
  /\ UNCHANGED <<up, degraded, cooldown, since>>

\* A call to the primary fails, counted there or not: the limiter degrades and
\* counts the same hit on memory.
Recount_Retries(r, i) ==
  /\ request' = [request EXCEPT ![r].phase = "hitting"]
  /\ UNCHANGED bucket
Recount(r, i) == CountOnMemory(r, i)

PrimaryFails(r) ==
  /\ request[r].phase \in {"hitting", "reading"}
  /\ ~up
  /\ degraded' = TRUE
  /\ cooldown' = Deadline(degraded, cooldown)
  /\ since'    = 0
  /\ Recount(r, request[r].item)
  /\ UNCHANGED up

\* The endpoint answers; the response carries the headers of the hit.
Respond(r) ==
  /\ request[r].phase = "handler"
  /\ request' = [request EXCEPT ![r] = Idle]
  /\ UNCHANGED <<up, degraded, cooldown, since, bucket>>

\* The client disconnects and the server cancels the request: CancelledError
\* is no Exception, so nothing degrades.
Disconnect(r) ==
  /\ request[r].phase # "idle"
  /\ request' = [request EXCEPT ![r] = Idle]
  /\ UNCHANGED <<up, degraded, cooldown, since, bucket>>

\* The primary goes down or comes back; another process counts on it.
Outage  == up  /\ up' = FALSE /\ UNCHANGED <<degraded, cooldown, since, bucket, request>>
Restore == ~up /\ up' = TRUE  /\ UNCHANGED <<degraded, cooldown, since, bucket, request>>

OtherProcess(i) ==
  LET w == CountOn(bucket["primary"][i], i) IN
  /\ up
  /\ bucket' = [bucket EXCEPT !["primary"][i] = Grant(w, Fits(w.count, i))]
  /\ UNCHANGED <<up, degraded, cooldown, since, request>>

\* What is left of a timer after one unit: a deadline that has passed stays passed.
Elapse(t) == IF t = 0 THEN 0 ELSE t - 1

\* One unit of time: timers run down, and a window whose time is up is gone.
Tick ==
  /\ cooldown' = Elapse(cooldown)
  /\ since'    = IF since = Recovery THEN since ELSE since + 1
  /\ bucket'   = [s \in Storages |-> [i \in Items |->
                    IF bucket[s][i].left <= 1 THEN NoWindow
                    ELSE [bucket[s][i] EXCEPT !.left = Elapse(@)]]]
  /\ request'  = [r \in Requests |->
                    [request[r] EXCEPT !.current = @ /\ bucket["primary"][request[r].item].left > 1]]
  /\ UNCHANGED <<up, degraded>>

Step(r) == EnforceRoute(r) \/ NoRouteLimit(r) \/ PrimaryCounts(r) \/ PrimaryReads(r)
           \/ PrimaryFails(r) \/ Respond(r)

Next ==
  \/ \E r \in Requests : Arrive(r) \/ Step(r) \/ Disconnect(r)
  \/ \E i \in Items : OtherProcess(i)
  \/ Outage \/ Restore \/ Tick

\* A request that is in the server goes on: the event loop is fair, a storage
\* call returns or raises, the endpoint answers.  Time passes.
Fairness == /\ \A r \in Requests : WF_vars(Step(r))
            /\ WF_vars(Tick)

Spec == Init /\ [][Next]_vars /\ Fairness

-----------------------------------------------------------------------------
\* Every variable keeps its shape.
TypeOK ==
  /\ up \in BOOLEAN /\ degraded \in BOOLEAN
  /\ cooldown \in 0..Recovery /\ since \in 0..Recovery
  /\ bucket  \in [Storages -> [Items -> Window]]
  /\ request \in [Requests -> Request]

\* However hits interleave between the two awaits, are lost or are counted
\* twice, a window of a storage lets at most its limit through, the processes
\* that share the primary taken together.
GrantsWithinLimit ==
  \A s \in Storages, i \in Items : bucket[s][i].granted <= Limit[i]

\* The primary is not asked again before recovery_seconds have passed since it
\* last failed, even if that failure came late and another hit failed before.
CooldownHonoured ==
  [][\A r \in Requests :
       request'[r].phase = "hitting" /\ request[r].phase # "hitting" => since = Recovery]_vars

\* Why it holds: the deadline and the time since the last failure are two views
\* of one clock, and the limiter is only healthy when that clock has run out.
CooldownInv ==
  /\ TypeOK
  /\ IF degraded THEN since + cooldown = Recovery ELSE since = Recovery

\* A failing storage never fails or hangs a request: each one is answered.
Answered ==
  \A r \in Requests : (request[r].phase # "idle") ~> (request[r].phase = "idle")

\* When the primary stays up and requests keep coming, counting returns to it
\* and stays there.
PrimaryRegained ==
  <>[]up /\ []<>(\E r \in Requests : request[r].phase # "idle") => <>[]~degraded
=============================================================================
