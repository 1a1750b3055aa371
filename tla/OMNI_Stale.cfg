\* Two queries: a result of the first reaches the page after the second
\* has cleared the array.
CONSTANTS
    MaxQueries = 2
    ResultsPerQuery = 2
SPECIFICATION Spec
INVARIANT
    QuiescedPaintsOnlyLatest
