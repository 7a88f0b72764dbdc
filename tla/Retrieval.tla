------------------------------ MODULE Retrieval ------------------------------
(***************************************************************************)
(* The pure parts of the retrieval lane (patterns_rag): chunks and their   *)
(* identity, the index, the ranking of what a retriever returns, and the   *)
(* check of the citations.  An id is <<source, ordinal>> with the sources  *)
(* numbered in the order of the texts source::; below ten thousand chunks  *)
(* it orders like the text source::0000.  The token budget is legal.       *)
(***************************************************************************)
EXTENDS Integers, Sequences, FiniteSets, SequencesExt

Absent == -1 \* no page, heading or span; no score

Anchor   == Nat \cup {Absent}
Meta     == [page : Anchor, heading : Anchor, span : Anchor]
Document == [source : Nat, metas : Seq(Meta)]
Chunk    == [id : Nat \X Nat, source : Nat, locator : {"page", "section", "char"} \X Nat]

\* derive_locator: a page wins over a heading, a heading over a span.
DeriveLocator(meta) ==
    CASE meta.page # Absent -> <<"page", meta.page>>
      [] meta.page = Absent /\ meta.heading # Absent -> <<"section", meta.heading>>
      [] meta.page = Absent /\ meta.heading = Absent /\ meta.span # Absent -> <<"char", meta.span>>

HasLocator(meta) == meta.page # Absent \/ meta.heading # Absent \/ meta.span # Absent

\* chunk_document: one loud failure for a document with an anchorless chunk.
Chunkable(doc) == \A i \in DOMAIN doc.metas : HasLocator(doc.metas[i])

ChunkId(source, ordinal) == <<source, ordinal>>

ChunkDocument(doc) ==
    [i \in DOMAIN doc.metas |->
        [id |-> ChunkId(doc.source, i - 1), source |-> doc.source,
         locator |-> DeriveLocator(doc.metas[i])]]

\* build_index: a node for every chunk of every document.
BuildIndex(corpus) == FlattenSeq([d \in DOMAIN corpus |-> ChunkDocument(corpus[d])])

\* retrieve: by descending score, then by ascending id; then the first top_k.
ScoreOf(score, c) == IF score[c] = Absent THEN 0 ELSE score[c]

IdBefore(a, b) == a[1] < b[1] \/ (a[1] = b[1] /\ a[2] < b[2])

Before_Ascending(score, index, a, b) ==
    \/ ScoreOf(score, a) < ScoreOf(score, b)
    \/ ScoreOf(score, a) = ScoreOf(score, b) /\ IdBefore(index[a].id, index[b].id)

Before(score, index, a, b) ==
    \/ ScoreOf(score, a) > ScoreOf(score, b)
    \/ ScoreOf(score, a) = ScoreOf(score, b) /\ IdBefore(index[a].id, index[b].id)

Ranked(returned, score, index) ==
    LET place(c) == Cardinality({d \in returned : Before(score, index, d, c)})
    IN  [k \in 1..Cardinality(returned) |-> CHOOSE c \in returned : place(c) = k - 1]

Retrieve(returned, score, index, k) ==
    LET ranked == Ranked(returned, score, index)
    IN  SubSeq(ranked, 1, IF k < Len(ranked) THEN k ELSE Len(ranked))

\* validate_citations: what is wrong with citing these ids, nothing being "".
CitationError(cited, known) ==
    IF cited = {} THEN "EmptyCitationError"
    ELSE IF ~(cited \subseteq known) THEN "DanglingCitationError" ELSE ""
=============================================================================
