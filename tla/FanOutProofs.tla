----------------------------- MODULE FanOutProofs -----------------------------
(* Theorems about FanOut, for any number of branches, workers and outputs,  *)
(* any cap, and in both kinds of lane.                                      *)
EXTENDS FanOut, FiniteSetTheorems, FunctionTheorems, TLAPS

(* The branches of a run are the first Width ones.                          *)
Width == IF pattern = "orchestrator" THEN Capped(asked) ELSE asked

(* What is selected, and that nothing starts with a cap that is refused.    *)
WidthInv ==
  /\ stage = "starting" => asked = 0 /\ counter = 0 /\ finished = <<>> /\ Selected = {}
  /\ stage \notin {"raised", "timed_out"} => Accepted
  /\ stage \in {"fanning", "synthesizing", "returned"} => Selected = 1..Width
  /\ arrived \subseteq Done

(* finished lists the branches that are done, each once; in the             *)
(* parallelization lanes a branch holds the index of its place in that      *)
(* list, for the orchestrator that of its place in the plan.                *)
OrderInv ==
  /\ \A i \in DOMAIN finished : branch[finished[i]] = "done"
  /\ \A b \in Done : \E i \in DOMAIN finished : finished[i] = b
  /\ \A i, j \in DOMAIN finished : finished[i] = finished[j] => i = j
  /\ pattern # "orchestrator" =>
       counter = Len(finished) /\ \A i \in DOMAIN finished : index[finished[i]] = i - 1
  /\ pattern = "orchestrator" /\ stage # "starting" => \A b \in Selected : index[b] = b - 1

FanOutInv == TypeOK /\ WidthInv /\ OrderInv /\ PoolRespected /\ ResultInOrder

-----------------------------------------------------------------------------
(* The sets the module counts are finite.                                   *)
LEMMA BranchesFinite ==
  ASSUME NEW S, S \subseteq Branches
  PROVE  IsFiniteSet(S) /\ Cardinality(S) \in Nat
<1>1. IsFiniteSet(Branches)
  BY FS_Interval, FanOutAssumption DEF Branches
<1>2. IsFiniteSet(S)
  BY <1>1, FS_Subset
<1> QED BY <1>2, FS_CardinalityType

(* The first k finished branches are k branches.                            *)
LEMMA FinishedCount ==
  ASSUME FanOutInv, NEW k \in 0..Len(finished)
  PROVE  Cardinality({finished[j] : j \in 1..k}) = k
<1> DEFINE T == {finished[j] : j \in 1..k}
           f == [j \in 1..k |-> finished[j]]
<1>1. 1..k \subseteq DOMAIN finished
  BY DEF FanOutInv, TypeOK
<1>2. f \in Bijection(1..k, T)
  BY <1>1, Fun_IsBij DEF FanOutInv, OrderInv
<1>3. IsFiniteSet(1..k) /\ Cardinality(1..k) = k
  BY FS_Interval
<1> HIDE DEF T, f
<1>4. ExistsBijection(1..k, T)
  BY <1>2 DEF ExistsBijection
<1> QED BY <1>3, <1>4, FS_Bijection DEF T

(* The orchestrator sorts its results into the order of the plan.           *)
LEMMA PlanOrder ==
  ASSUME FanOutInv, pattern = "orchestrator", stage = "fanning", Selected = Done
  PROVE  /\ Cardinality(Selected) = Width
         /\ \A i \in 1..Width : ByIndex(Selected)[i] = i
<1>1. Width \in Nat /\ Selected = 1..Width
  BY FanOutAssumption DEF FanOutInv, WidthInv, TypeOK, Width, Capped, Accepted
<1>2. Cardinality(Selected) = Width
  BY <1>1, FS_Interval
<1>3. ASSUME NEW b \in 1..Width PROVE Rank(Selected, b) = b - 1
  <2>1. \A c \in Selected : index[c] = c - 1
    BY DEF FanOutInv, OrderInv
  <2>2. {c \in Selected : index[c] < index[b]} = 1..b - 1
    BY <1>1, <2>1
  <2>3. Cardinality(1..b - 1) = b - 1
    BY FS_Interval
  <2> QED BY <2>2, <2>3 DEF Rank
<1>4. ASSUME NEW i \in 1..Width PROVE (CHOOSE b \in Selected : Rank(Selected, b) = i - 1) = i
  <2>1. \E b \in Selected : Rank(Selected, b) = i - 1
    BY <1>1, <1>3
  <2>2. \A b \in Selected : Rank(Selected, b) = i - 1 => b = i
    BY <1>1, <1>3
  <2> QED BY <2>1, <2>2
<1> QED BY <1>2, <1>4 DEF ByIndex

(* The other patterns sort theirs into the order of completion.             *)
LEMMA CompletionOrder ==
  ASSUME FanOutInv, pattern # "orchestrator", stage = "fanning", Selected = Done
  PROVE  /\ Cardinality(Selected) = asked /\ Len(finished) = asked
         /\ \A i \in 1..asked : ByIndex(Selected)[i] = finished[i]
<1>1. asked \in Nat /\ Selected = 1..asked /\ Len(finished) \in Nat /\ DOMAIN finished = 1..Len(finished)
  BY DEF FanOutInv, WidthInv, TypeOK, Width
<1>2. Selected = {finished[j] : j \in 1..Len(finished)}
  <2>1. ASSUME NEW j \in 1..Len(finished) PROVE finished[j] \in Done
    <3>1. finished[j] \in Branches
      BY <1>1 DEF FanOutInv, TypeOK
    <3>2. branch[finished[j]] = "done"
      BY <1>1 DEF FanOutInv, OrderInv
    <3> QED BY <3>1, <3>2 DEF Done
  <2>2. \A b \in Done : \E j \in 1..Len(finished) : finished[j] = b
    BY <1>1 DEF FanOutInv, OrderInv
  <2> QED BY <2>1, <2>2
<1>3. Cardinality(Selected) = asked
  BY <1>1, FS_Interval
<1>4. Len(finished) = asked
  <2>1. Len(finished) \in 0..Len(finished)
    BY <1>1
  <2>2. Cardinality({finished[j] : j \in 1..Len(finished)}) = Len(finished)
    BY <2>1, FinishedCount
  <2> QED BY <1>2, <1>3, <2>2
<1>5. ASSUME NEW i \in 1..asked PROVE Rank(Selected, finished[i]) = i - 1
  <2>1. \A j \in 1..asked : index[finished[j]] = j - 1
    BY <1>1, <1>4 DEF FanOutInv, OrderInv
  <2>2. \A j \in 1..asked : index[finished[j]] < index[finished[i]] <=> j \in 1..i - 1
    BY <2>1
  <2>3. {c \in Selected : index[c] < index[finished[i]]} = {finished[j] : j \in 1..i - 1}
    BY <1>2, <1>4, <2>2
  <2>4. i - 1 \in 0..Len(finished)
    BY <1>4
  <2>5. Cardinality({finished[j] : j \in 1..i - 1}) = i - 1
    BY <2>4, FinishedCount
  <2> QED BY <2>3, <2>5 DEF Rank
<1>6. ASSUME NEW i \in 1..asked PROVE (CHOOSE b \in Selected : Rank(Selected, b) = i - 1) = finished[i]
  <2>1. finished[i] \in Selected /\ Rank(Selected, finished[i]) = i - 1
    BY <1>2, <1>4, <1>5
  <2>2. ASSUME NEW b \in Selected, Rank(Selected, b) = i - 1 PROVE b = finished[i]
    <3>1. PICK j \in 1..asked : b = finished[j]
      BY <1>2, <1>4
    <3> QED BY <3>1, <1>5, <2>2
  <2> QED BY <2>1, <2>2
<1> QED BY <1>3, <1>4, <1>6 DEF ByIndex
-----------------------------------------------------------------------------
(* The invariant holds before the run starts.                               *)
LEMMA FanOutInit == Init => FanOutInv
<1> SUFFICES ASSUME Init PROVE FanOutInv
  OBVIOUS
<1> USE FanOutAssumption DEF Init
<1>1. Selected = {} /\ Done = {} /\ Running = {}
  BY DEF Selected, Done, Running
<1>2. TypeOK
  BY <1>1 DEF TypeOK, Stages, Worked
<1>3. WidthInv /\ OrderInv /\ ResultInOrder
  BY <1>1 DEF WidthInv, OrderInv, ResultInOrder
<1>4. PoolRespected
  BY <1>1, FS_EmptySet DEF PoolRespected
<1> QED BY <1>2, <1>3, <1>4 DEF FanOutInv

(* Starting a run selects as many branches as were asked for or the cap     *)
(* allows; in the workflow lane none of them runs yet.                      *)
LEMMA BeginKeeps ==
  ASSUME FanOutInv, NEW n \in 0..MaxBranches, asked' = n, BeginBranches(Width'),
         pattern # "orchestrator" => UNCHANGED index,
         pattern = "orchestrator" => index' = [b \in Branches |-> IF b <= Capped(n) THEN b - 1 ELSE -1]
  PROVE  FanOutInv'
<1> USE FanOutAssumption DEF FanOutInv, BeginBranches
<1>1. /\ Width' \in Int /\ Width' <= n /\ Accepted /\ Width' = IF pattern = "orchestrator" THEN Capped(n) ELSE n
  <2>1. Accepted /\ pattern' = pattern
    BY DEF WidthInv
  <2>2. Width' = IF pattern = "orchestrator" THEN Capped(n) ELSE n
    BY <2>1 DEF Width, Capped
  <2> QED BY <2>1, <2>2 DEF Capped, Accepted
<1>2. Selected' = 1..Width'
  <2>1. \A b \in Branches : branch'[b] # "none" <=> b <= Width'
    BY DEF Begun
  <2> QED BY <2>1, <1>1 DEF Selected, Branches
<1>3. Done' = {} /\ Done = {}
  BY DEF Selected, Done, WidthInv, Begun
<1>4. finished' = <<>> /\ counter' = 0 /\ arrived' = {}
  BY <1>3 DEF WidthInv
<1>5. TypeOK'
  <2>1. branch' \in [Branches -> Worked]
    BY DEF Worked, Begun
  <2>2. index' \in [Branches -> Int]
    <3>1. CASE pattern = "orchestrator"
      <4>1. \A b \in Branches : b - 1 \in Int /\ -1 \in Int
        BY DEF Branches
      <4> QED BY <3>1, <4>1
    <3>2. CASE pattern # "orchestrator"
      BY <3>2 DEF TypeOK
    <3> QED BY <3>1, <3>2
  <2>3. pattern = "orchestrator" => Width' <= MaxWorkers
    BY <1>1 DEF Capped
  <2>4. pattern' = "orchestrator" => \A b \in Selected' : b <= MaxWorkers
    BY <2>3, <1>1, <1>2
  <2> QED BY <2>1, <2>2, <2>4, <1>4 DEF TypeOK, Stages
<1>6. WidthInv'
  BY <1>1, <1>2, <1>3, <1>4 DEF WidthInv, Accepted
<1>7. OrderInv'
  <2>1. pattern' = "orchestrator" => \A b \in Selected' : index'[b] = b - 1
    BY <1>1, <1>2 DEF Branches
  <2> QED BY <2>1, <1>3, <1>4 DEF OrderInv
<1>8. PoolRespected'
  <2>1. lane = "workflow" => Running' = {}
    BY DEF Running, Begun
  <2> QED BY <2>1, FS_EmptySet, FanOutAssumption DEF PoolRespected
<1>9. ResultInOrder'
  BY DEF ResultInOrder
<1> QED BY <1>5, <1>6, <1>7, <1>8, <1>9

(* A branch that finishes while the run waits for it is appended to         *)
(* finished, with the next index where indices are claimed.                 *)
LEMMA FinishKeeps ==
  ASSUME FanOutInv, NEW b \in Branches, NEW o \in Outputs, Finish(b, o),
         IF pattern = "orchestrator" THEN UNCHANGED <<index, counter>>
         ELSE index' = [index EXCEPT ![b] = counter] /\ counter' = counter + 1
  PROVE  FanOutInv'
<1> USE FanOutAssumption DEF FanOutInv, Finish
<1>1. b \in Running /\ b \notin Done /\ b \in Selected
  BY DEF Running, Done, Selected
<1>2. Done' = Done \cup {b} /\ Running' \subseteq Running /\ Selected' = Selected
  BY DEF Done, Running, Selected, TypeOK
<1>3. /\ finished \in Seq(Branches) /\ finished' \in Seq(Branches)
      /\ Len(finished') = Len(finished) + 1
      /\ finished'[Len(finished) + 1] = b
      /\ \A i \in 1..Len(finished) : finished'[i] = finished[i]
      /\ DOMAIN finished = 1..Len(finished) /\ DOMAIN finished' = 1..Len(finished) + 1
  BY DEF TypeOK
<1>4. \A i \in 1..Len(finished) : finished[i] # b
  BY <1>1, <1>3 DEF OrderInv, Done
<1>5. TypeOK'
  BY <1>2, <1>3 DEF TypeOK, Worked
<1>6. WidthInv'
  BY <1>1, <1>2 DEF WidthInv, Width, Accepted
<1>7. OrderInv'
  <2>1. ASSUME NEW i \in DOMAIN finished' PROVE branch'[finished'[i]] = "done"
    <3>1. branch' = [branch EXCEPT ![b] = "done"] /\ branch \in [Branches -> Worked]
      BY DEF TypeOK
    <3>2. CASE i \in 1..Len(finished)
      <4>1. finished'[i] = finished[i] /\ finished[i] \in Branches /\ i \in DOMAIN finished
        BY <1>3, <3>2
      <4>2. branch[finished[i]] = "done"
        BY <4>1 DEF OrderInv
      <4> QED BY <3>1, <4>1, <4>2
    <3>3. CASE i \notin 1..Len(finished)
      <4>1. Len(finished) \in Nat /\ i = Len(finished) + 1
        BY <1>3, <3>3
      <4>2. finished'[i] = b
        BY <4>1, <1>3
      <4> QED BY <3>1, <4>2
    <3> QED BY <3>2, <3>3
  <2>2. \A c \in Done' : \E i \in DOMAIN finished' : finished'[i] = c
    BY <1>2, <1>3 DEF OrderInv
  <2>3. \A i, j \in DOMAIN finished' : finished'[i] = finished'[j] => i = j
    BY <1>3, <1>4 DEF OrderInv
  <2>4. pattern' # "orchestrator" =>
          counter' = Len(finished') /\ \A i \in DOMAIN finished' : index'[finished'[i]] = i - 1
    BY <1>3, <1>4 DEF OrderInv, TypeOK
  <2>5. pattern' = "orchestrator" /\ stage' # "starting" => \A c \in Selected' : index'[c] = c - 1
    BY <1>2 DEF OrderInv
  <2> QED BY <2>1, <2>2, <2>3, <2>4, <2>5 DEF OrderInv
<1>8. PoolRespected'
  <2>1. /\ Cardinality(Running') <= Cardinality(Running)
        /\ Cardinality(Running) \in Int /\ Cardinality(Running') \in Int
    BY <1>2, BranchesFinite, FS_Subset DEF Running
  <2> QED BY <2>1 DEF PoolRespected
<1>9. ResultInOrder'
  BY <1>1 DEF ResultInOrder
<1> QED BY <1>5, <1>6, <1>7, <1>8, <1>9

(* Steps that end the run, or move a branch without finishing it, change    *)
(* neither what is selected nor what is done.                               *)
LEMMA QuietKeeps ==
  ASSUME FanOutInv, stage' \in {"fanning", "raised", "timed_out"},
         stage # "starting" \/ stage' = "raised" \/ stage' = "timed_out",
         branch' \in [Branches -> Worked],
         stage' = "fanning" => stage = "fanning" /\ Selected' = Selected,
         Done' = Done, Selected' = Selected,
         lane = "workflow" => Cardinality(Running') <= Pool,
         UNCHANGED <<lane, pattern, asked, output, index, counter, arrived, result, finished>>
  PROVE  FanOutInv'
<1> USE DEF FanOutInv
<1>1. TypeOK'
  BY DEF TypeOK, Stages
<1>2. WidthInv'
  BY DEF WidthInv, Width, Accepted
<1>3. OrderInv'
  <2>1. ASSUME NEW i \in DOMAIN finished PROVE finished[i] \in Done
    <3>1. finished[i] \in Branches
      BY DEF TypeOK
    <3> QED BY <3>1 DEF OrderInv, Done
  <2>2. \A i \in DOMAIN finished' : finished'[i] \in Done'
    BY <2>1
  <2>3. \A i \in DOMAIN finished' : branch'[finished'[i]] = "done"
    BY <2>2 DEF Done
  <2> QED BY <2>3 DEF OrderInv, WidthInv
<1>4. PoolRespected' /\ ResultInOrder'
  BY DEF PoolRespected, ResultInOrder
<1> QED BY <1>1, <1>2, <1>3, <1>4

(* The four steps that start, fail or end branches.                         *)
LEMMA StartKeeps ==
  ASSUME FanOutInv, NEW b \in Branches, StartWorker(b)
  PROVE  FanOutInv'
<1> USE DEF StartWorker
<1>1. branch \in [Branches -> Worked] /\ branch' = [branch EXCEPT ![b] = "running"]
  BY DEF FanOutInv, TypeOK
<1>2. /\ branch' \in [Branches -> Worked]
      /\ Done' = Done /\ Selected' = Selected /\ Running' = Running \cup {b}
  BY <1>1 DEF Worked, Done, Selected, Running
<1>3. Cardinality(Running') <= Pool
  <2>1. b \notin Running /\ IsFiniteSet(Running) /\ Cardinality(Running) \in Nat
    BY BranchesFinite DEF Running
  <2>2. Cardinality(Running') = Cardinality(Running) + 1
    BY <1>2, <2>1, FS_AddElement
  <2>3. Cardinality(Running) < Pool
    BY DEF Free
  <2> QED BY <2>1, <2>2, <2>3, FanOutAssumption
<1> QED BY <1>2, <1>3, QuietKeeps

LEMMA RaiseKeeps ==
  ASSUME FanOutInv, NEW b \in Branches, BranchRaises(b)
  PROVE  FanOutInv'
<1> USE DEF BranchRaises
<1>1. branch \in [Branches -> Worked] /\ stage \in Stages /\ b \in Selected /\ b \notin Done
  BY DEF FanOutInv, TypeOK, Selected, Done
<1>2. stage # "starting"
  BY <1>1 DEF FanOutInv, WidthInv
<1>3. /\ branch' \in [Branches -> Worked]
      /\ Done' = Done /\ Selected' = Selected /\ Running' \subseteq Running
  BY <1>1 DEF AfterEnd, Worked, Done, Selected, Running
<1>4. lane = "workflow" => Cardinality(Running') <= Pool
  <2>1. /\ Cardinality(Running') <= Cardinality(Running)
        /\ Cardinality(Running) \in Int /\ Cardinality(Running') \in Int
    BY <1>3, BranchesFinite, FS_Subset DEF Running
  <2> QED BY <2>1, FanOutAssumption DEF FanOutInv, PoolRespected
<1>5. stage \notin {"synthesizing", "returned"}
  BY DEF FanOutInv, ResultInOrder, Selected, Done
<1>6. stage' \in {"raised", "timed_out"}
  BY <1>1, <1>2, <1>5 DEF Stages
<1> QED BY <1>2, <1>3, <1>4, <1>6, QuietKeeps

LEMMA TimeoutKeeps ==
  ASSUME FanOutInv, Timeout
  PROVE  FanOutInv'
<1> USE DEF Timeout
<1>1. branch \in [Branches -> Worked]
  BY DEF FanOutInv, TypeOK
<1>2. /\ branch' \in [Branches -> Worked]
      /\ Done' = Done /\ Selected' = Selected /\ Running' = {}
  BY <1>1 DEF AfterEnd, Worked, Done, Selected, Running
<1> QED BY <1>2, QuietKeeps, FS_EmptySet, FanOutAssumption

LEMMA PlannerRaisesKeeps ==
  ASSUME FanOutInv, PlannerRaises
  PROVE  FanOutInv'
<1> USE DEF PlannerRaises
<1>1. /\ branch' \in [Branches -> Worked]
      /\ Done' = Done /\ Selected' = Selected /\ Running' = Running
  BY DEF FanOutInv, TypeOK, Done, Selected, Running
<1> QED BY <1>1, QuietKeeps DEF FanOutInv, PoolRespected

-----------------------------------------------------------------------------
(* A list of n outputs is a sequence.                                        *)
LEMMA IsSequence ==
  ASSUME NEW n \in Nat, NEW S, NEW f, f \in [1..n -> S]
  PROVE  f \in Seq(S)
OBVIOUS

(* What is delivered when all branches are done is in the promised order.   *)
LEMMA DeliverKeeps ==
  ASSUME FanOutInv, stage = "fanning", Selected = Done, Deliver(Selected),
         arrived' \subseteq Done,
         UNCHANGED <<lane, pattern, asked, branch, output, index, counter, finished>>
  PROVE  FanOutInv'
<1>1. Selected' = Selected /\ Done' = Done /\ Running' = Running
  BY DEF Selected, Done, Running
<1>2. stage' \in {"synthesizing", "returned"}
  BY DEF Deliver
<1>3. /\ result' \in Seq(Outputs \cup {NoOutput})
      /\ result' = IF pattern = "orchestrator"
                   THEN [i \in 1..Capped(asked) |-> output[i]]
                   ELSE [i \in 1..asked |-> output[finished[i]]]
  <2>1. output \in [Branches -> Outputs \cup {NoOutput}] /\ finished \in Seq(Branches)
    BY DEF FanOutInv, TypeOK
  <2>2. CASE pattern = "orchestrator"
    <3>1. Cardinality(Selected) = Capped(asked) /\ \A i \in 1..Capped(asked) : ByIndex(Selected)[i] = i
      BY <2>2, PlanOrder DEF Width
    <3>2. Selected = 1..Capped(asked) /\ Capped(asked) \in Nat
      BY <2>2, FanOutAssumption DEF FanOutInv, WidthInv, TypeOK, Width, Capped, Accepted
    <3>3. result' = [i \in 1..Capped(asked) |-> output[i]]
      BY <3>1 DEF Deliver
    <3>4. \A i \in 1..Capped(asked) : output[i] \in Outputs \cup {NoOutput}
      BY <2>1, <3>2 DEF Selected
    <3>5. result' \in [1..Capped(asked) -> Outputs \cup {NoOutput}]
      BY <3>3, <3>4
    <3>6. result' \in Seq(Outputs \cup {NoOutput})
      BY <3>2, <3>5, IsSequence
    <3> QED BY <2>2, <3>3, <3>6
  <2>3. CASE pattern # "orchestrator"
    <3>1. Cardinality(Selected) = asked /\ \A i \in 1..asked : ByIndex(Selected)[i] = finished[i]
      BY <2>3, CompletionOrder
    <3>2. Len(finished) = asked /\ asked \in Nat
      BY <2>3, CompletionOrder DEF FanOutInv, TypeOK
    <3>3. result' = [i \in 1..asked |-> output[finished[i]]]
      BY <3>1 DEF Deliver
    <3>4. \A i \in 1..asked : output[finished[i]] \in Outputs \cup {NoOutput}
      BY <2>1, <3>2
    <3>5. result' \in [1..asked -> Outputs \cup {NoOutput}]
      BY <3>3, <3>4
    <3>6. result' \in Seq(Outputs \cup {NoOutput})
      BY <3>2, <3>5, IsSequence
    <3> QED BY <2>3, <3>3, <3>6
  <2> QED BY <2>2, <2>3
<1>4. TypeOK'
  BY <1>1, <1>2, <1>3 DEF FanOutInv, TypeOK, Stages, Done
<1>5. WidthInv'
  BY <1>1, <1>2 DEF FanOutInv, WidthInv, Width, Capped, Accepted
<1>6. OrderInv' /\ PoolRespected'
  BY <1>1, <1>2 DEF FanOutInv, OrderInv, PoolRespected
<1>7. ResultInOrder'
  BY <1>1, <1>3 DEF ResultInOrder, Capped
<1> QED BY <1>4, <1>5, <1>6, <1>7 DEF FanOutInv

(* The barrier opens only when it holds every branch.                       *)
LEMMA CollectKeeps ==
  ASSUME FanOutInv, NEW b \in Branches, Collect(b)
  PROVE  FanOutInv'
<1> USE DEF Collect
<1>1. arrived' \subseteq Done /\ Done \subseteq Selected /\ Selected \subseteq Branches
  BY DEF FanOutInv, WidthInv, Done, Selected
<1>2. CASE Cardinality(arrived') = Cardinality(Selected)
  <2>1. IsFiniteSet(Selected)
    BY <1>1, BranchesFinite
  <2>2. arrived' \subseteq Selected
    BY <1>1
  <2>3. arrived' = Selected
    BY <1>2, <2>1, <2>2, FS_Subset
  <2>4. Selected = Done /\ Deliver(Selected)
    BY <1>1, <1>2, <2>3
  <2> QED BY <2>4, <1>1, DeliverKeeps
<1>3. CASE Cardinality(arrived') # Cardinality(Selected)
  <2>1. UNCHANGED <<lane, pattern, asked, stage, branch, output, index, counter, result, finished>>
    BY <1>3
  <2>2. Selected' = Selected /\ Done' = Done /\ Running' = Running
    BY <2>1 DEF Selected, Done, Running
  <2>3. TypeOK'
    BY <1>1, <2>1, <2>2 DEF FanOutInv, TypeOK
  <2>4. WidthInv'
    BY <1>1, <2>1, <2>2 DEF FanOutInv, WidthInv, Width, Capped, Accepted
  <2>5. OrderInv' /\ PoolRespected' /\ ResultInOrder'
    BY <2>1, <2>2 DEF FanOutInv, OrderInv, PoolRespected, ResultInOrder, Capped
  <2> QED BY <2>3, <2>4, <2>5 DEF FanOutInv
<1> QED BY <1>2, <1>3

LEMMA SynthesisKeeps ==
  ASSUME FanOutInv, Synthesize \/ SynthesizerRaises
  PROVE  FanOutInv'
<1> USE DEF Synthesize, SynthesizerRaises
<1>1. Selected' = Selected /\ Done' = Done /\ Running' = Running
  BY DEF Selected, Done, Running
<1>2. TypeOK'
  BY <1>1 DEF FanOutInv, TypeOK, Stages
<1>3. WidthInv'
  BY <1>1 DEF FanOutInv, WidthInv, Width, Capped, Accepted
<1>4. OrderInv' /\ PoolRespected' /\ ResultInOrder'
  BY <1>1 DEF FanOutInv, OrderInv, PoolRespected, ResultInOrder, Capped
<1> QED BY <1>2, <1>3, <1>4 DEF FanOutInv

-----------------------------------------------------------------------------
(* Every step keeps the invariant, one case per action.                     *)
LEMMA FanOutStep == FanOutInv /\ [Next]_vars => FanOutInv'
<1> SUFFICES ASSUME FanOutInv, [Next]_vars PROVE FanOutInv'
  OBVIOUS
<1>1. ASSUME NEW n \in 0..MaxBranches, Dispatch(n) PROVE FanOutInv'
  <2>1. Width' = n /\ asked' = n /\ UNCHANGED index /\ pattern # "orchestrator"
    BY <1>1 DEF Dispatch, BeginBranches, Width
  <2>2. BeginBranches(Width')
    BY <1>1, <2>1 DEF Dispatch
  <2> QED BY <2>1, <2>2, BeginKeeps
<1>2. ASSUME NEW n \in 0..MaxBranches, Plan(n) PROVE FanOutInv'
  <2>1. /\ Width' = Capped(n) /\ asked' = n /\ pattern = "orchestrator"
        /\ index' = [b \in Branches |-> IF b <= Capped(n) THEN b - 1 ELSE -1]
    BY <1>2 DEF Plan, BeginBranches, Width, Capped
  <2>2. BeginBranches(Width')
    BY <1>2, <2>1 DEF Plan
  <2> QED BY <2>1, <2>2, BeginKeeps
<1>3. ASSUME NEW b \in Branches, NEW o \in Outputs, BranchReturns(b, o) \/ WorkerReturns(b, o)
      PROVE FanOutInv'
  BY <1>3, FinishKeeps DEF BranchReturns, WorkerReturns
<1>4. ASSUME GatherReturns PROVE FanOutInv'
  <2>1. stage = "fanning" /\ Selected = Done /\ Deliver(Selected)
    BY <1>4 DEF GatherReturns, AllDone
  <2>2. /\ arrived' \subseteq Done
        /\ UNCHANGED <<lane, pattern, asked, branch, output, index, counter, finished>>
    BY <1>4 DEF GatherReturns, FanOutInv, WidthInv
  <2> QED BY <2>1, <2>2, DeliverKeeps
<1>5. ASSUME UNCHANGED vars PROVE FanOutInv'
  BY <1>5 DEF vars, FanOutInv, TypeOK, WidthInv, OrderInv, PoolRespected, ResultInOrder,
              Width, Capped, Accepted, Selected, Done, Running
<1> QED BY <1>1, <1>2, <1>3, <1>4, <1>5, StartKeeps, RaiseKeeps, CollectKeeps, TimeoutKeeps,
           PlannerRaisesKeeps, SynthesisKeeps DEF Next, Step, BranchStep

(* The inductive invariant holds in every run of a fan-out.                 *)
THEOREM FanOutInvariant == Spec => []FanOutInv
BY FanOutInit, FanOutStep, PTL DEF Spec

(* The variables keep their types, and the cap on workers is kept           *)
(* (max_workers).                                                           *)
THEOREM TypeCorrect == Spec => []TypeOK
<1>1. FanOutInv => TypeOK
  BY DEF FanOutInv
<1> QED BY <1>1, FanOutInvariant, PTL

(* The fan-in hands over every branch once: in plan order for the           *)
(* orchestrator, in completion order for parallelization, whatever order    *)
(* results were collected in.                                               *)
THEOREM ResultsAreInOrder == Spec => []ResultInOrder
<1>1. FanOutInv => ResultInOrder
  BY DEF FanOutInv
<1> QED BY <1>1, FanOutInvariant, PTL

(* A workflow never has more branches at work than the step has workers.    *)
THEOREM PoolIsRespected == Spec => []PoolRespected
<1>1. FanOutInv => PoolRespected
  BY DEF FanOutInv
<1> QED BY <1>1, FanOutInvariant, PTL
=============================================================================
