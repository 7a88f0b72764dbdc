------------------------------ MODULE Workflows ------------------------------
(***************************************************************************)
(* The lanes whose model calls follow one another: the bounded loop of     *)
(* generator and evaluator, the prompt chain with its gate, routing to a   *)
(* specialist, in the three frameworks; and the retrieval lane, which has  *)
(* one model call between its ranking and its citation check.              *)
(*                                                                         *)
(* A text is the number of the call that wrote it; the task is text 0.  A  *)
(* call says what its role is, which texts its prompt holds, and what the  *)
(* code reads out of the answer: a verdict, a length, a route.             *)
(***************************************************************************)
EXTENDS Retrieval

CONSTANTS Corpora, \* the document sets to index
          Scores,  \* the similarities a retriever gives, at a scale of integers
          MaxCap   \* the greatest max_iterations or top_k a caller asks for

ASSUME WorkflowAssumption ==
    /\ MaxCap \in Nat /\ Corpora \subseteq Seq(Document) /\ Scores \subseteq Int \ {Absent}
    /\ \A corpus \in Corpora : \A d, e \in DOMAIN corpus :
          d # e => corpus[d].source # corpus[e].source

VARIABLES pattern, lane, \* which lane runs
          cap,           \* max_iterations of the optimizer, top_k of retrieval
          stage,         \* the role to be called next, "start" or "over"
          calls,         \* the model calls so far
          index, shown,  \* the indexed chunks, and those the prompt holds
          scored,        \* what the retriever returned, by score
          outcome,       \* how the run ended
          result         \* its answer

flowVars == <<pattern, lane, cap, stage, calls, index, shown, scored, outcome, result>>

Lanes  == {"pydantic_ai", "beeai", "llamaindex"}
Routes == {"billing", "technical", "general"}

NoResult == [text |-> 0, reason |-> "", cites |-> {}]

FlowInit ==
    /\ \/ pattern = "optimizer" /\ lane \in Lanes /\ cap \in 0..MaxCap
       \/ pattern \in {"chain", "routing"} /\ lane \in Lanes /\ cap = 0
       \/ pattern = "rag" /\ lane = "llamaindex" /\ cap \in 0..MaxCap
    /\ stage = "start" /\ calls = <<>>
    /\ index = <<>> /\ shown = <<>> /\ scored = <<>>
    /\ outcome = "none" /\ result = NoResult

-----------------------------------------------------------------------------
\* Steps every lane is made of.

Now == Len(calls)

\* A call of the model, its answer and what the code reads in it.
Called(role, given, says) ==
    calls' = Append(calls, [role |-> role, given |-> given, says |-> says])

Answer(text, reason, cites) ==
    /\ stage' = "over" /\ outcome' = "answered"
    /\ result' = [text |-> text, reason |-> reason, cites |-> cites]

Raise(error) == stage' = "over" /\ outcome' = error /\ UNCHANGED result

Continue(role) == stage' = role /\ UNCHANGED <<outcome, result>>

\* The guards of run_evaluator_optimizer and of retrieve; a retrieval lane
\* indexes its documents first.
Start ==
    /\ stage = "start"
    /\ UNCHANGED <<pattern, lane, cap, calls, shown, scored>>
    /\ \/ /\ pattern = "optimizer" /\ UNCHANGED index
          /\ IF cap < 1 THEN Raise("ValueError") ELSE Continue("generate")
       \/ pattern = "chain" /\ Continue("outline") /\ UNCHANGED index
       \/ pattern = "routing" /\ Continue("classify") /\ UNCHANGED index
       \/ /\ pattern = "rag"
          /\ \E corpus \in Corpora :
                IF \A d \in DOMAIN corpus : Chunkable(corpus[d])
                THEN index' = BuildIndex(corpus) /\ Continue("retrieve")
                ELSE Raise("ValueError") /\ UNCHANGED index

-----------------------------------------------------------------------------
\* Evaluator-optimizer.

Made(role) == {i \in DOMAIN calls : calls[i].role = role}
Rounds     == Cardinality(Made("evaluate"))

\* Feedback that says nothing is no feedback: the prompt is the task again.
GeneratorPrompt_NoAttempt(feedback) == IF feedback THEN {0, Now} ELSE {0}
GeneratorPrompt(feedback) == IF feedback THEN {0, Now - 1, Now} ELSE {0}

Feedback == calls # <<>> /\ calls[Now].says[2]

Generate ==
    /\ stage = "generate"
    /\ Called("generate", GeneratorPrompt(Feedback), <<"text">>)
    /\ Continue("evaluate")

\* verdict and whether there is feedback; the candidate is the text before.
Judged(verdict) ==
    IF verdict = "pass" THEN Answer(Now, "passed", {})
    ELSE IF Rounds + 1 = cap THEN Answer(Now, "max_iterations", {})
    ELSE Continue("generate")

Evaluate ==
    /\ stage = "evaluate"
    /\ \E verdict \in {"pass", "revise"}, feedback \in BOOLEAN :
          /\ Called("evaluate", {0, Now}, <<verdict, feedback>>)
          /\ Judged(verdict)

-----------------------------------------------------------------------------
\* Prompt chain.

Outline ==
    /\ stage = "outline"
    /\ Called("outline", {0}, <<"text">>)
    /\ Continue("draft")

\* The gate: three words, or the chain ends without an answer.
Gate_Advisory(words) == Continue("finalize")
Gate(words) == IF words = "enough" THEN Continue("finalize") ELSE Answer(0, "gate", {})

Draft ==
    /\ stage = "draft"
    /\ \E words \in {"enough", "thin"} : Called("draft", {Now}, <<words>>) /\ Gate(words)

Finalize ==
    /\ stage = "finalize"
    /\ Called("finalize", {Now}, <<"text">>)
    /\ Answer(Now + 1, "gate", {})

-----------------------------------------------------------------------------
\* Routing: a route outside the vocabulary fails validation (CallFails).

Classify ==
    /\ stage = "classify"
    /\ \E route \in Routes : Called("classify", {0}, <<route>>)
    /\ Continue("answer")

Specialist == calls[Now].says[1]

AnswerRouted ==
    /\ stage = "answer"
    /\ Called(Specialist, {0}, <<"text">>)
    /\ Answer(Now + 1, Specialist, {})

-----------------------------------------------------------------------------
\* Retrieval: any part of the index may be returned, with any scores.

DoRetrieve ==
    /\ stage = "retrieve" /\ cap >= 1
    /\ \E returned \in SUBSET DOMAIN index : \E score \in [returned -> Scores \cup {Absent}] :
          /\ shown' = Retrieve(returned, score, index, cap)
          /\ scored' = score
    /\ Continue("answer_cited")

RefuseTopK ==
    /\ stage = "retrieve" /\ cap < 1
    /\ Raise("ValueError") /\ UNCHANGED <<shown, scored>>

Ids(places) == {index[c].id : c \in places}

\* The model may cite what it was shown, what is indexed, or what does not exist.
AnswerCited ==
    /\ stage = "answer_cited"
    /\ \E cited \in SUBSET (Ids(DOMAIN index) \cup {<<0, 99>>}) :
          /\ Called("answer_cited", {0}, <<"text">>)
          /\ LET error == CitationError(cited, Ids(Range(shown)))
             IN  IF error = "" THEN Answer(1, "cited", cited) ELSE Raise(error)

-----------------------------------------------------------------------------
\* A call that raises, of the model or of the retriever, or an answer that
\* does not validate ends the run.

CallFails ==
    /\ stage \notin {"start", "over"}
    /\ stage = "retrieve" => cap >= 1
    /\ Raise("error")
    /\ UNCHANGED calls

\* Only two LlamaIndex workflows have a timeout.
TimesOut ==
    /\ lane = "llamaindex" /\ pattern \in {"chain", "routing"}
    /\ stage \notin {"start", "over"}
    /\ Raise("WorkflowTimeoutError")
    /\ UNCHANGED calls

ModelCall ==
    \/ Generate \/ Evaluate \/ Outline \/ Draft \/ Finalize
    \/ Classify \/ AnswerRouted \/ AnswerCited \/ CallFails \/ TimesOut

FlowNext ==
    \/ Start
    \/ ModelCall /\ UNCHANGED <<pattern, lane, cap, index, shown, scored>>
    \/ (DoRetrieve \/ RefuseTopK) /\ UNCHANGED <<pattern, lane, cap, calls, index>>

FlowSpec == FlowInit /\ [][FlowNext]_flowVars

-----------------------------------------------------------------------------
\* Each prompt holds what came just before it and nothing older: a generator
\* that was told to revise sees the attempt that was judged and the judgement,
\* an evaluator the attempt of its own round, a drafter the outline, an editor
\* the draft ("feedback fed into the next iteration on revise").
PromptsAreFresh ==
    \A i \in DOMAIN calls :
        LET given == calls[i].given \ {0}
            role  == calls[i].role
        IN  /\ role \in {"draft", "finalize", "evaluate"} => given = {i - 1}
            /\ role \in {"outline", "classify", "answer_cited"} \cup Routes => given = {}
            /\ role = "generate" =>
                  IF i > 1 /\ calls[i - 1].says = <<"revise", TRUE>>
                  THEN given = {i - 2, i - 1} ELSE given = {}

\* The answer is the one the steps earned.  Optimizer: the attempt judged last,
\* reported as passed exactly if it was, after no earlier pass and within the
\* cap, which is used up if it was not.  Chain: nothing, and no editor called,
\* exactly if the draft was thin.  Routing: the text of the specialist for the
\* route the classifier gave, the only one called.
ResultIsEarned ==
    outcome = "answered" =>
        /\ pattern = "optimizer" =>
              LET judged == Made("evaluate")
                  passed == {i \in judged : calls[i].says[1] = "pass"}
              IN  /\ judged # {} /\ Cardinality(judged) <= cap
                  /\ result.text = Now - 1 /\ calls[result.text].role = "generate"
                  /\ IF result.reason = "passed" THEN passed = {Now}
                     ELSE passed = {} /\ Cardinality(judged) = cap
        /\ pattern = "chain" =>
              LET thin == \E i \in Made("draft") : calls[i].says = <<"thin">>
              IN  /\ thin <=> result.text = 0
                  /\ thin <=> Made("finalize") = {}
        /\ pattern = "routing" =>
              /\ calls[1].says = <<result.reason>> /\ calls[result.text].role = result.reason
              /\ Now = 2

\* The inductive invariant behind the two: what has been called when the next
\* role is about to be.  The loop goes on only after a "revise" and with rounds
\* left; the chain and the router have one way to each of their steps.
Roles == {"generate", "evaluate", "outline", "draft", "finalize", "classify", "answer_cited"} \cup Routes
Sayings == {<<"text">>, <<"enough">>, <<"thin">>} \cup {<<route>> : route \in Routes}
             \cup ({"pass", "revise"} \X BOOLEAN)
Calls == [role : Roles, given : SUBSET Nat, says : Sayings]

OptimizerInv ==
    pattern = "optimizer" =>
        /\ stage \in {"start", "generate", "evaluate", "over"}
        /\ stage \in {"generate", "evaluate"} =>
              /\ \A i \in Made("evaluate") : calls[i].says[1] = "revise"
              /\ Rounds < cap
        /\ stage = "generate" /\ calls # <<>> =>
              Now >= 2 /\ calls[Now].says \in {"revise"} \X BOOLEAN
        /\ stage = "evaluate" => Now >= 1 /\ calls[Now].role = "generate"

ChainInv ==
    pattern = "chain" =>
        /\ stage \in {"start", "outline", "draft", "finalize", "over"}
        /\ stage = "outline" => calls = <<>>
        /\ stage = "draft" => Now = 1 /\ calls[1].role = "outline"
        /\ stage = "finalize" => /\ Now = 2 /\ calls[1].role = "outline"
                                 /\ calls[2].role = "draft" /\ calls[2].says = <<"enough">>

RoutingInv ==
    pattern = "routing" =>
        /\ stage \in {"start", "classify", "answer", "over"}
        /\ stage = "classify" => calls = <<>>
        /\ stage = "answer" => /\ Now = 1 /\ calls[1].role = "classify"
                               /\ \E route \in Routes : calls[1].says = <<route>>

FlowInv ==
    /\ calls \in Seq(Calls)
    /\ pattern \in {"optimizer", "chain", "routing", "rag"} /\ cap \in Int
    /\ stage = "start" => calls = <<>>
    /\ pattern = "rag" => stage \in {"start", "retrieve", "answer_cited", "over"}
    /\ outcome = "answered" => stage = "over"
    /\ OptimizerInv /\ ChainInv /\ RoutingInv
    /\ PromptsAreFresh /\ ResultIsEarned

\* Each citation of an answer names exactly one chunk of the corpus, one the
\* model was shown; and nothing that was returned and not shown ranks before
\* anything that was ("the highest-scoring chunks survive truncation").
CitationsResolve ==
    outcome = "answered" /\ pattern = "rag" =>
        /\ result.cites # {}
        /\ \A id \in result.cites :
              \E c \in Range(shown) : {d \in DOMAIN index : index[d].id = id} = {c}
        /\ Len(shown) <= cap
        /\ \A c \in Range(shown), d \in DOMAIN scored \ Range(shown) :
              ScoreOf(scored, c) >= ScoreOf(scored, d)

\* The inductive invariant behind it.  An id names one chunk; what is shown is
\* indexed, fits the cap, and is what scored best.
IndexInv == /\ index \in Seq(Chunk)
            /\ \A a, b \in DOMAIN index : index[a].id = index[b].id => a = b

ShownInv == /\ shown \in Seq(DOMAIN index)
            /\ pattern = "rag" => Len(shown) <= cap
            /\ \A c \in Range(shown), d \in DOMAIN scored \ Range(shown) :
                  ScoreOf(scored, c) >= ScoreOf(scored, d)

RagInv == /\ IndexInv /\ ShownInv /\ CitationsResolve
          /\ cap \in Nat
          /\ stage = "start" => shown = <<>>
=============================================================================
