SPECIFICATION Spec
CONSTANTS
    Replicas = {r1, r2}
    Changes = 2
    BatchSize = 2
    MaxToken = 3
    MaxWater = 3
SYMMETRY Symmetry
INVARIANTS NoOtherGaps TermsOrdered SourceOrder NothingSkipped
PROPERTY PublishedForever
\* the fencing token and the high water are bounded
CHECK_DEADLOCK FALSE
