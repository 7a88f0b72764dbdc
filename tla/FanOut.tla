-------------------------------- MODULE FanOut --------------------------------
(* One run of the parallelization or the orchestrator-workers pattern       *)
(* (patterns/frameworks/*/parallelization.py, orchestrator_workers.py).     *)
(* Model calls are the awaits. The pydantic-ai and beeai lanes start all    *)
(* branches at once and wait in asyncio.gather ("gather"); the llamaindex   *)
(* lane sends one event per branch to a pool of workers and collects their  *)
(* results behind a barrier, under a timeout ("workflow").                  *)
EXTENDS Integers, Sequences, FiniteSets

CONSTANTS
  MaxBranches,   \* branches asked for, or subtasks planned, at most
  MaxWorkers,    \* the cap on the subtasks that are worked on
  Pool,          \* workers of the llamaindex step (_FANOUT_WORKERS)
  Outputs,       \* what a branch may answer
  NoOutput

ASSUME FanOutAssumption ==
  /\ MaxBranches \in Nat /\ MaxWorkers \in Int /\ Pool \in Nat
  /\ NoOutput \notin Outputs

Lanes    == {"gather", "workflow"}
Patterns == {"sectioning", "voting", "orchestrator"}
Branches == 1..MaxBranches
Stages   == {"starting", "fanning", "synthesizing", "returned", "raised", "timed_out"}
Final    == {"returned", "raised", "timed_out"}
Worked   == {"none", "queued", "running", "done", "failed", "cancelled"}

VARIABLES
  lane, pattern,
  asked,        \* n, or the number of subtasks in the plan
  stage,
  branch,       \* what each branch does
  output,
  index,        \* the key results are sorted by; -1 before it is known
  counter,      \* the shared itertools.count()
  arrived,      \* results the barrier of the workflow lane has buffered
  result,       \* the outputs of the answer, in its order
  finished      \* history: the branches in the order they finished

vars == <<lane, pattern, asked, stage, branch, output, index, counter, arrived, result, finished>>

Running  == {b \in Branches : branch[b] = "running"}
Selected == {b \in Branches : branch[b] # "none"}
Done     == {b \in Branches : branch[b] = "done"}

(* max_workers is checked before anything is started; n, where Dispatch      *)
(* takes it.                                                                *)
Accepted == pattern = "orchestrator" => MaxWorkers >= 1

Init ==
  /\ lane \in Lanes /\ pattern \in Patterns
  /\ asked = 0 /\ counter = 0
  /\ stage = IF Accepted THEN "starting" ELSE "raised"
  /\ branch = [b \in Branches |-> "none"]
  /\ output = [b \in Branches |-> NoOutput]
  /\ index  = [b \in Branches |-> -1]
  /\ arrived = {} /\ result = <<>> /\ finished = <<>>

-----------------------------------------------------------------------------
(* Start. gather wraps every branch in a task at once; the workflow sends   *)
(* its events and waits for what comes back.                                *)
Begun == IF lane = "gather" THEN "running" ELSE "queued"

BeginBranches(n) ==
  /\ stage = "starting"
  /\ stage' = "fanning"
  /\ branch' = [b \in Branches |-> IF b <= n THEN Begun ELSE "none"]
  /\ UNCHANGED <<lane, pattern, output, counter, arrived, result, finished>>

\* n >= 1; a branch learns its index only when it has finished.
Dispatch(n) ==
  /\ pattern # "orchestrator"
  /\ n >= 1
  /\ asked' = n
  /\ BeginBranches(n)
  /\ UNCHANGED index

\* The planner answers with any number of subtasks, also with none; those
\* beyond the cap are dropped. A worker keeps the position of its subtask.
Capped(n) == IF n > MaxWorkers THEN MaxWorkers ELSE n

Plan(n) ==
  /\ pattern = "orchestrator"
  /\ asked' = n
  /\ BeginBranches(Capped(n))
  /\ index' = [b \in Branches |-> IF b <= Capped(n) THEN b - 1 ELSE -1]

PlannerRaises ==
  /\ pattern = "orchestrator" /\ stage = "starting"
  /\ stage' = "raised"
  /\ UNCHANGED <<lane, pattern, asked, branch, output, index, counter, arrived, result, finished>>

-----------------------------------------------------------------------------
(* Branches. In the workflow lane a branch waits for a free worker.         *)
Free == Cardinality(Running) < Pool

StartWorker(b) ==
  /\ stage = "fanning"
  /\ branch[b] = "queued"
  /\ Free
  /\ branch' = [branch EXCEPT ![b] = "running"]
  /\ UNCHANGED <<lane, pattern, asked, stage, output, index, counter, arrived, result, finished>>

Finish(b, o) ==
  /\ branch[b] = "running"
  /\ branch' = [branch EXCEPT ![b] = "done"]
  /\ output' = [output EXCEPT ![b] = o]
  /\ finished' = Append(finished, b)
  /\ UNCHANGED <<lane, pattern, asked, stage, arrived, result>>

\* The index is claimed without an await after the answer of the model.
BranchReturns(b, o) ==
  /\ pattern # "orchestrator"
  /\ Finish(b, o)
  /\ index' = [index EXCEPT ![b] = counter]
  /\ counter' = counter + 1

WorkerReturns(b, o) ==
  /\ pattern = "orchestrator"
  /\ Finish(b, o)
  /\ UNCHANGED <<index, counter>>

\* gather hands the first exception on and lets the other tasks run; the
\* workflow runtime cancels what it has started.
AfterEnd(b) == IF lane = "workflow" /\ branch[b] \in {"queued", "running"}
               THEN "cancelled" ELSE branch[b]

BranchRaises(b) ==
  /\ branch[b] = "running"
  /\ stage' = IF stage = "fanning" THEN "raised" ELSE stage
  /\ branch' = [c \in Branches |-> IF c = b THEN "failed" ELSE AfterEnd(c)]
  /\ UNCHANGED <<lane, pattern, asked, output, index, counter, arrived, result, finished>>

-----------------------------------------------------------------------------
(* Fan-in. The results are put in ascending order of their index: the i-th  *)
(* is the one with i - 1 others before it.                                  *)
Rank(S, b) == Cardinality({c \in S : index[c] < index[b]})

ByIndex_AsFinished(S) == [i \in 1..Cardinality(S) |-> finished[i]]
ByIndex(S) == [i \in 1..Cardinality(S) |-> CHOOSE b \in S : Rank(S, b) = i - 1]

Deliver(S) ==
  /\ result' = [i \in 1..Cardinality(S) |-> output[ByIndex(S)[i]]]
  /\ stage' = IF pattern = "orchestrator" THEN "synthesizing" ELSE "returned"

AllDone_AsAsked == Cardinality(Done) = asked
AllDone == Selected = Done

GatherReturns ==
  /\ lane = "gather" /\ stage = "fanning"
  /\ AllDone
  /\ Deliver(Selected)
  /\ UNCHANGED <<lane, pattern, asked, branch, output, index, counter, arrived, finished>>

\* One invocation per result, in any order; the one that completes the set
\* goes on, the others only leave their result in the buffer.
Collect(b) ==
  /\ lane = "workflow" /\ stage = "fanning"
  /\ b \in Done \ arrived
  /\ arrived' = arrived \cup {b}
  /\ IF Cardinality(arrived') = Cardinality(Selected)
     THEN Deliver(arrived')
     ELSE UNCHANGED <<stage, result>>
  /\ UNCHANGED <<lane, pattern, asked, branch, output, index, counter, finished>>

Synthesize ==
  /\ stage = "synthesizing"
  /\ stage' = "returned"
  /\ UNCHANGED <<lane, pattern, asked, branch, output, index, counter, arrived, result, finished>>

SynthesizerRaises ==
  /\ stage = "synthesizing"
  /\ stage' = "raised"
  /\ UNCHANGED <<lane, pattern, asked, branch, output, index, counter, arrived, result, finished>>

\* Workflow(timeout=...): the gather lanes have none.
Timeout ==
  /\ lane = "workflow" /\ stage \notin Final
  /\ stage' = "timed_out"
  /\ branch' = [b \in Branches |-> AfterEnd(b)]
  /\ UNCHANGED <<lane, pattern, asked, output, index, counter, arrived, result, finished>>

-----------------------------------------------------------------------------
BranchStep == \E b \in Branches :
  \/ StartWorker(b) \/ BranchRaises(b) \/ Collect(b)
  \/ \E o \in Outputs : BranchReturns(b, o) \/ WorkerReturns(b, o)

Step ==
  \/ \E n \in 0..MaxBranches : Dispatch(n) \/ Plan(n)
  \/ BranchStep \/ GatherReturns
  \/ Synthesize \/ PlannerRaises \/ SynthesizerRaises

Next == Step \/ Timeout

Spec == Init /\ [][Next]_vars

(* Every model call returns or raises, and time passes.                     *)
FairSpec == Spec /\ WF_vars(Step) /\ WF_vars(Timeout)

-----------------------------------------------------------------------------
(* The variables keep their types, and no more subtasks are begun than the  *)
(* cap allows (max_workers).                                                *)
TypeOK ==
  /\ lane \in Lanes /\ pattern \in Patterns /\ stage \in Stages
  /\ asked \in 0..MaxBranches
  /\ branch \in [Branches -> Worked]
  /\ output \in [Branches -> Outputs \cup {NoOutput}]
  /\ index \in [Branches -> Int] /\ counter \in Nat
  /\ arrived \subseteq Branches
  /\ finished \in Seq(Branches) /\ result \in Seq(Outputs \cup {NoOutput})
  /\ pattern = "orchestrator" => \A b \in Selected : b <= MaxWorkers

(* The answer holds every branch exactly once: in the order of the plan for *)
(* the orchestrator, whichever worker was first, and in the order of        *)
(* completion for parallelization, whichever result was collected first.    *)
ResultInOrder ==
  stage \in {"synthesizing", "returned"} =>
    /\ Selected = Done
    /\ result = IF pattern = "orchestrator"
                THEN [i \in 1..Capped(asked) |-> output[i]]
                ELSE [i \in 1..asked |-> output[finished[i]]]

(* The llamaindex step never runs more branches at once than it has workers *)
(* (num_workers).                                                           *)
PoolRespected == lane = "workflow" => Cardinality(Running) <= Pool

(* A run ends, however branches fail or finish, and in the end nothing it   *)
(* started is still at work, not even the siblings gather leaves behind.    *)
Ends == <>[](stage \in Final /\ Running = {})
=============================================================================
