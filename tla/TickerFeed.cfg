\* Two callers, two symbols on two exchanges, the first of which comes and goes.
CONSTANTS
    FailureThreshold = 2
    SuccessThreshold = 2
    ResetTimeout = 1
    FailureWindow = 2
    Callers = {c1, c2}
    Symbols = {"BTC", "ETH"}
    Primary = "binance"
    FallbackSlugs <- OneFallback
    Listed <- SplitListing
    Flaky = {"binance"}
    MaxBatchSize = 2
SPECIFICATION Spec
INVARIANTS NobodyForgotten
PROPERTIES ClosesOnEvidence Settles Recovers
