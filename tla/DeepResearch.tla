---------------------------- MODULE DeepResearch ----------------------------
(* One run of run_deep_research (deep-research/research.py): the lead plans *)
(* subquestions, one sub-researcher per subquestion searches and reflects   *)
(* in a loop of its own (researcher.py), and their grounded findings        *)
(* (compression.py) become one report (report.py).  Every await is a place  *)
(* where others may move: model calls, searches and the on_event callback.  *)
EXTENDS Integers, Sequences, FiniteSets

CONSTANTS
  MaxPlan,          \* subquestions the planner may return: any number up to it
  MaxResearchers,   \* the fan-out cap
  MaxIterations,    \* reflect turns of one researcher
  TopK,             \* results of one search
  MaxNotes,         \* the notes a finding keeps
  Hits,             \* what searches can return: source, locator and score;
                    \* sources are numbered in their order as texts, and a
                    \* locator is the sequence of its characters
  Invented,         \* a source no search returns
  MaxCited          \* sources a draft lists at most

ASSUME ResearchAssumption ==
  /\ MaxPlan \in Nat /\ MaxCited \in Nat
  /\ MaxResearchers \in Int /\ MaxIterations \in Int /\ TopK \in Int
  /\ MaxNotes \in Nat \ {0}
  /\ \A h \in Hits : h \in [source : Nat, locator : Seq(Nat), score : Nat]
  /\ \A h \in Hits : h.source # Invented

Researchers == 1..MaxPlan
Sources == {h.source : h \in Hits}
Drafts  == UNION {[1..n -> Sources \cup {Invented}] : n \in 0..MaxCited}

Stages  == {"clarifying", "planning", "telling_brief", "telling_plan", "researching",
            "writing", "telling_report", "returned", "raised"}
Working == {"starting", "reflecting", "searching", "compressing", "announcing"}
NoFinding == [citations |-> <<>>, notes |-> <<>>, iterations |-> 0, truncated |-> FALSE]
NoReport  == [citations |-> <<>>, truncated |-> FALSE]

VARIABLES
  stage,      \* the await the run is in
  planned,    \* subquestions of the plan
  at,         \* the await each researcher is in
  turn,       \* its iterations
  enough,     \* its last verdict
  collected,  \* what its searches returned
  finding,
  report,     \* its citations, and whether the plan was cut
  events      \* history: the calls of on_event

research == <<at, turn, enough, collected, finding>>
vars == <<stage, planned, research, report, events>>

(* The caps are checked first: anything else is a ValueError.               *)
Accepted == MaxResearchers >= 1 /\ MaxIterations >= 1 /\ TopK >= 1

Init ==
  /\ IF Accepted THEN stage \in {"clarifying", "planning"} ELSE stage = "raised"
  /\ planned = 0
  /\ at = [b \in Researchers |-> "none"]
  /\ turn = [b \in Researchers |-> 0]
  /\ enough = [b \in Researchers |-> FALSE]
  /\ collected = [b \in Researchers |-> {}]
  /\ finding = [b \in Researchers |-> NoFinding]
  /\ report = NoReport /\ events = <<>>

-----------------------------------------------------------------------------
(* The lead: an optional clarifying call, the plan, and two events.         *)
Clarify ==
  /\ stage = "clarifying"
  /\ stage' = "planning"
  /\ UNCHANGED <<planned, research, report, events>>

Plan(n) ==
  /\ stage = "planning"
  /\ planned' = n
  /\ stage' = "telling_brief"
  /\ events' = Append(events, <<"brief", 0>>)
  /\ UNCHANGED <<research, report>>

BriefHeard ==
  /\ stage = "telling_brief"
  /\ stage' = "telling_plan"
  /\ events' = Append(events, <<"plan", 0>>)
  /\ UNCHANGED <<planned, research, report>>

\* What is beyond the cap is dropped.
Capped_All(n) == n
Capped(n) == IF n > MaxResearchers THEN MaxResearchers ELSE n
Selected == 1..Capped(planned)

\* gather puts one task per subquestion on the ready queue, and none of them
\* gets past its first call of the model before all have announced themselves.
FanOut ==
  /\ stage = "telling_plan"
  /\ stage' = "researching"
  /\ at' = [b \in Researchers |-> IF b \in Selected THEN "starting" ELSE "none"]
  /\ events' = events \o [b \in Selected |-> <<"started", b>>]
  /\ UNCHANGED <<planned, turn, enough, collected, finding, report>>

-----------------------------------------------------------------------------
(* A researcher: reflect, search, reflect, ... and compress what it found.  *)
StartHeard(b) ==
  /\ at[b] = "starting"
  /\ at' = [at EXCEPT ![b] = "reflecting"]
  /\ UNCHANGED <<stage, planned, turn, enough, collected, finding, report, events>>

\* The loop ends with the verdict that the results suffice, or at its cap.
Onward(satisfied, turns) ==
  IF satisfied \/ turns >= MaxIterations THEN "compressing" ELSE "reflecting"

\* A turn counts, whether it asks for a search or not.
TurnsAfter_NoSearch(b, asks) == IF asks THEN turn[b] ELSE turn[b] + 1
TurnsAfter(b, asks) == turn[b] + 1

Reflect(b, asks, satisfied) ==
  /\ at[b] = "reflecting"
  /\ turn' = [turn EXCEPT ![b] = TurnsAfter(b, asks)]
  /\ enough' = [enough EXCEPT ![b] = satisfied]
  /\ at' = [at EXCEPT ![b] = IF asks THEN "searching" ELSE Onward(satisfied, TurnsAfter(b, asks))]
  /\ UNCHANGED <<stage, planned, collected, finding, report, events>>

SearchReturns(b, found) ==
  /\ at[b] = "searching"
  /\ IsFiniteSet(found) /\ Cardinality(found) <= TopK
  /\ collected' = [collected EXCEPT ![b] = @ \cup found]
  /\ at' = [at EXCEPT ![b] = Onward(enough[b], turn[b])]
  /\ UNCHANGED <<stage, planned, turn, enough, finding, report, events>>

\* The first exception ends the run; the other tasks of gather go on.  What the
\* failing one had collected is gone with it.
Fail(b) ==
  /\ at' = [at EXCEPT ![b] = "failed"]
  /\ turn' = [turn EXCEPT ![b] = 0]
  /\ enough' = [enough EXCEPT ![b] = FALSE]
  /\ collected' = [collected EXCEPT ![b] = {}]
  /\ finding' = [finding EXCEPT ![b] = NoFinding]
  /\ stage' = IF stage = "researching" THEN "raised" ELSE stage
  /\ UNCHANGED <<planned, report, events>>

ResearcherRaises(b) == at[b] \in Working /\ Fail(b)

-----------------------------------------------------------------------------
(* The elements of a set in an order, a set of pairs: the k-th is the one   *)
(* with k - 1 before it.                                                    *)
Ranked(S, order) ==
  [k \in 1..Cardinality(S) |->
     CHOOSE x \in S : Cardinality({y \in S : <<y, x>> \in order}) = k - 1]

(* Citations (map_citations, dedup_citations).  The elements of a sequence, *)
(* each where its key is first seen.                                        *)
Ascending(S) == {p \in S \X S : p[1] < p[2]}
FirstSeen(s, keys) ==
  LET firsts == {i \in DOMAIN s : \A j \in 1..i - 1 : keys[i] # keys[j]}
      places == Ranked(firsts, Ascending(firsts))
  IN  [k \in DOMAIN places |-> s[places[k]]]

\* The key is (source, locator, chunk_id), and a chunk_id is the other two.
DedupKey_AllFields(c) == c
DedupKey(c) == <<c.source, c.locator>>
Dedup(cs) == FirstSeen(cs, [i \in DOMAIN cs |-> DedupKey(cs[i])])

\* What a researcher may cite: its own results.
Known_Shared(b) == UNION {collected[c] : c \in Researchers}
Known(b) == collected[b]

\* A draft that cites nothing, or what was not retrieved, raises.
Sound(b, draft) ==
  /\ draft # <<>>
  /\ \A i \in DOMAIN draft : \E h \in Known(b) : h.source = draft[i]

\* The order of texts, and of tuples: a proper prefix comes first.
TextBefore(l, k) ==
  \E i \in 1..Len(k) :
    /\ i <= Len(l) + 1
    /\ \A j \in 1..i - 1 : l[j] = k[j]
    /\ i = Len(l) + 1 \/ l[i] < k[i]

NegatedLocator(l) == [i \in DOMAIN l |-> -l[i]]

\* The highest score, then the greatest negated locator.
Ahead(h, k) ==
  \/ h.score > k.score
  \/ h.score = k.score /\ TextBefore(NegatedLocator(k.locator), NegatedLocator(h.locator))
Best(b, source) ==
  LET of == {h \in Known(b) : h.source = source}
  IN  CHOOSE h \in of : \A k \in of \ {h} : Ahead(h, k)

MapCitations(b, draft) ==
  LET sources == FirstSeen(draft, draft)
  IN  [i \in DOMAIN sources |-> Best(b, sources[i])]

-----------------------------------------------------------------------------
(* Notes (distill_notes): the best hit of each anchor, ranked and capped.   *)
Anchor(c) == <<c.source, c.locator>>

Distilled(results) ==
  {h \in results : \A k \in results : Anchor(k) = Anchor(h) => k.score <= h.score}

RanksBefore(h, k) ==
  \/ h.score > k.score
  \/ h.score = k.score /\ h.source < k.source
  \/ h.score = k.score /\ h.source = k.source /\ TextBefore(h.locator, k.locator)

RankOrder(S) == {p \in S \X S : RanksBefore(p[1], p[2])}

DistillNotes(results) ==
  LET best == Distilled(results)
      ranked == Ranked(best, RankOrder(best))
  IN  SubSeq(ranked, 1, IF Len(ranked) < MaxNotes THEN Len(ranked) ELSE MaxNotes)

Compress(b, draft) ==
  /\ at[b] = "compressing"
  /\ Sound(b, draft)
  /\ at' = [at EXCEPT ![b] = "announcing"]
  /\ finding' = [finding EXCEPT ![b] =
       [citations |-> MapCitations(b, draft), notes |-> DistillNotes(collected[b]),
        iterations |-> turn[b], truncated |-> ~enough[b]]]
  /\ events' = Append(events, <<"finding", b>>)
  /\ UNCHANGED <<stage, planned, turn, enough, collected, report>>

CitationError(b, draft) ==
  /\ at[b] = "compressing"
  /\ ~Sound(b, draft)
  /\ Fail(b)

FindingHeard(b) ==
  /\ at[b] = "announcing"
  /\ at' = [at EXCEPT ![b] = "done"]
  /\ UNCHANGED <<stage, planned, turn, enough, collected, finding, report, events>>

-----------------------------------------------------------------------------
(* The report, when every researcher is done.                               *)
AllDone_First == Selected = {} \/ \E b \in Selected : at[b] = "done"
AllDone == \A b \in Selected : at[b] = "done"

GatherReturns ==
  /\ stage = "researching"
  /\ AllDone
  /\ stage' = "writing"
  /\ UNCHANGED <<planned, research, report, events>>

\* The citations of all findings, in plan order.
AllCitations ==
  LET upto[n \in 0..Capped(planned)] ==
        IF n = 0 THEN <<>> ELSE upto[n - 1] \o finding[n].citations
  IN  upto[Capped(planned)]

WriteReport ==
  /\ stage = "writing"
  /\ report' = [citations |-> Dedup(AllCitations), truncated |-> planned > MaxResearchers]
  /\ stage' = "telling_report"
  /\ events' = Append(events, <<"report", 0>>)
  /\ UNCHANGED <<planned, research>>

ReportHeard ==
  /\ stage = "telling_report"
  /\ stage' = "returned"
  /\ UNCHANGED <<planned, research, report, events>>

\* A model call of the lead or the writer, or on_event, raises.
LeadRaises ==
  /\ stage \notin {"researching", "returned", "raised"}
  /\ stage' = "raised"
  /\ UNCHANGED <<planned, research, report, events>>

-----------------------------------------------------------------------------
Research(b) ==
  \/ StartHeard(b) \/ FindingHeard(b) \/ ResearcherRaises(b)
  \/ \E asks, satisfied \in BOOLEAN : Reflect(b, asks, satisfied)
  \/ \E found \in SUBSET Hits : SearchReturns(b, found)
  \/ \E draft \in Drafts : Compress(b, draft) \/ CitationError(b, draft)

Lead ==
  \/ Clarify \/ (\E n \in 0..MaxPlan : Plan(n)) \/ BriefHeard \/ FanOut
  \/ GatherReturns \/ WriteReport \/ ReportHeard \/ LeadRaises

Next == Lead \/ \E b \in Researchers : Research(b)

(* While a call is out, some call of the model, the provider or the callback *)
(* returns or raises in the end; which one, is left open.                   *)
Spec == Init /\ [][Next]_vars /\ WF_vars(Next)

-----------------------------------------------------------------------------
(* The variables keep their types, and both caps hold: no researcher beyond *)
(* max_researchers, no turn beyond max_iterations.                          *)
Findings == [citations : Seq(Hits), notes : Seq(Hits),
             iterations : Nat, truncated : BOOLEAN]
TypeOK ==
  /\ stage \in Stages /\ planned \in 0..MaxPlan
  /\ at \in [Researchers -> Working \cup {"none", "done", "failed"}]
  /\ turn \in [Researchers -> Nat]
  /\ \A b \in Researchers : at[b] # "none" => b <= MaxResearchers /\ turn[b] <= MaxIterations
  /\ enough \in [Researchers -> BOOLEAN]
  /\ collected \in [Researchers -> SUBSET Hits]
  /\ finding \in [Researchers -> Findings]
  /\ report \in [citations : Seq(Hits), truncated : BOOLEAN]

(* Events come as documented (brief, plan, started*, finding*, report), also *)
(* when researchers overtake one another or one of them fails: a finding is *)
(* told once and after its start, and the report after all findings.        *)
Place(e) == CHOOSE i \in 1..5 : <<"brief", "plan", "started", "finding", "report">>[i] = e[1]
EventsInOrder ==
  /\ \A i, j \in DOMAIN events : i < j => Place(events[i]) <= Place(events[j]) /\ events[i] # events[j]
  /\ \A i \in DOMAIN events :
       /\ events[i][1] = "finding" => \E j \in 1..i : events[j] = <<"started", events[i][2]>>
       /\ events[i][1] = "report" =>
            \A b \in Selected : \E j \in 1..i : events[j] = <<"finding", b>>

(* A finding cites at least one source, each source once, and each by the   *)
(* best hit that this researcher itself retrieved, however many others      *)
(* retrieve at the same time.  It is truncated exactly if the cap ended its *)
(* loop: not when the agent was satisfied, in its last round or before.     *)
(* Its notes hold no anchor twice, and what they leave out is no better     *)
(* than what they keep: the best hit is always there.                       *)
FindingsGrounded ==
  \A b \in Researchers : at[b] \in {"announcing", "done"} =>
    LET cited == finding[b].citations
        notes == finding[b].notes
    IN  /\ cited # <<>>
        /\ \A i, j \in DOMAIN cited : cited[i].source = cited[j].source => i = j
        /\ \A i \in DOMAIN cited :
             /\ cited[i] \in collected[b]
             /\ \A h \in collected[b] : h.source = cited[i].source => h.score <= cited[i].score
        /\ finding[b].truncated <=> ~enough[b] /\ finding[b].iterations = MaxIterations
        /\ notes # <<>> /\ Len(notes) <= MaxNotes
        /\ \A i \in DOMAIN notes : notes[i] \in collected[b]
        /\ \A i, j \in DOMAIN notes : Anchor(notes[i]) = Anchor(notes[j]) => i = j
        /\ \A h \in collected[b] :
             \/ \E i \in DOMAIN notes : Anchor(notes[i]) = Anchor(h) /\ h.score <= notes[i].score
             \/ Len(notes) = MaxNotes /\ \A i \in DOMAIN notes : h.score <= notes[i].score

Anchors(cs) == {Anchor(cs[i]) : i \in DOMAIN cs}

(* The report of a run cites every anchor that a finding cites, once, and   *)
(* nothing else; it has a finding for every subquestion within the cap, and *)
(* says so exactly if there were more.                                      *)
ReportComplete ==
  stage \in {"telling_report", "returned"} =>
    /\ \A b \in Selected : at[b] = "done"
    /\ \A i, j \in DOMAIN report.citations :
          Anchor(report.citations[i]) = Anchor(report.citations[j]) => i = j
    /\ report.truncated <=> Cardinality(Selected) < planned
    /\ Anchors(report.citations) = UNION {Anchors(finding[b].citations) : b \in Selected}

(* The inductive invariant behind the four: who is at work, and since when; *)
(* why a researcher is where it is; and what has been told of it.  A run    *)
(* that has raised may have researchers at work, but a told report has none. *)
Told == {<<"brief", 0>>, <<"plan", 0>>, <<"report", 0>>} \cup ({"started", "finding"} \X Researchers)
IsTold(e) == \E i \in DOMAIN events : events[i] = e

LeadInv ==
  /\ \A b \in Researchers : at[b] # "none" => b \in Selected /\ Accepted
  /\ stage \in {"clarifying", "planning", "telling_brief", "telling_plan"} =>
        \A b \in Researchers : at[b] = "none"
  /\ stage # "raised" => Accepted
  /\ stage \in {"writing", "telling_report", "returned"} => AllDone

LoopInv(b) ==
  /\ IsFiniteSet(collected[b])
  /\ at[b] \in {"none", "starting"} => turn[b] = 0
  /\ at[b] = "reflecting" => turn[b] < MaxIterations
  /\ at[b] = "compressing" => enough[b] \/ turn[b] = MaxIterations

EventInv ==
  /\ events \in Seq(Told)
  /\ stage \in {"clarifying", "planning"} => events = <<>>
  /\ stage = "telling_brief" => events = <<<<"brief", 0>>>>
  /\ stage = "telling_plan" => events = <<<<"brief", 0>>, <<"plan", 0>>>>
  /\ \A b \in Researchers :
       /\ at[b] # "none" => IsTold(<<"started", b>>)
       /\ at[b] \in {"announcing", "done"} => IsTold(<<"finding", b>>)
       /\ IsTold(<<"finding", b>>) => at[b] \in {"announcing", "done", "failed"}
  /\ IsTold(<<"report", 0>>) => AllDone /\ stage \notin {"researching", "writing"}

ResearchInv ==
  /\ TypeOK /\ LeadInv /\ \A b \in Researchers : LoopInv(b)
  /\ EventInv /\ EventsInOrder
  /\ FindingsGrounded /\ ReportComplete

(* A run ends, and in the end no researcher is left at work, although a     *)
(* failing one leaves its siblings running.                                 *)
Ends == <>(stage \in {"returned", "raised"} /\ \A b \in Researchers : at[b] \notin Working)
=============================================================================
