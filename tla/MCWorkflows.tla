----------------------------- MODULE MCWorkflows -----------------------------
(* Workflows with two small corpora, one of which cannot be chunked. *)
EXTENDS Workflows

Page(n)    == [page |-> n, heading |-> 1, span |-> 5]
Section(n) == [page |-> Absent, heading |-> n, span |-> 5]
Span(n)    == [page |-> Absent, heading |-> Absent, span |-> n]
Anchorless == [page |-> Absent, heading |-> Absent, span |-> Absent]

\* One score is worse than none.
MCScores == {-2, 0, 1}

MCCorpora == {
    <<[source |-> 1, metas |-> <<Page(1), Page(1)>>],
      [source |-> 2, metas |-> <<Section(1), Span(7)>>]>>,
    <<[source |-> 1, metas |-> <<Page(1)>>], [source |-> 2, metas |-> <<Anchorless>>]>> }
=============================================================================
