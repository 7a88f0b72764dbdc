\* Three calls, so that a search, a held call and a later one fit; a known and
\* an unknown customer; an amount at the threshold and one above it.
CONSTANTS
    Call = {c1, c2, c3}
    Customer = {known, stranger}
    Known = {known}
    Amount = {1, 2}
    Threshold = 1
    NoOne = noone
SYMMETRY Symmetry
SPECIFICATION PolicySpec
INVARIANTS NoUnapprovedRisk OnlyKnownActedOn
PROPERTY PolicyKeepsGate
CHECK_DEADLOCK FALSE
