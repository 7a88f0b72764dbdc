\* Up to three rounds, so that a stale feedback shows; four chunks of two
\* documents, one more than may be shown.
CONSTANTS
    Corpora <- MCCorpora
    Scores  <- MCScores
    MaxCap = 3
SPECIFICATION FlowSpec
INVARIANTS PromptsAreFresh ResultIsEarned CitationsResolve
CHECK_DEADLOCK FALSE
