\* Every call of both adapters, with every answer.
SPECIFICATION Spec
CONSTANTS
    Statuses <- MCStatuses
INVARIANTS
    RejectedMeansNothingBought
    ConclusionsAreTheUpstreams
    FitsPurchases
    RetriesFollowTheRules
\* A call ends with its verdict.
CHECK_DEADLOCK FALSE
