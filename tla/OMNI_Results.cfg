\* Three queries of two results each: a query may start while results of
\* the earlier ones are still in flight.
CONSTANTS
    MaxQueries = 3
    ResultsPerQuery = 2
SPECIFICATION Spec
INVARIANTS
    TypeOK
    QuiescedShowsLatestFinal
