SPECIFICATION FairSpec
CONSTANTS
    Envelope = {e1}
    NoEnvelope = NoEnvelope
    Handler = {h1, h2}
    Person = {p1}
    MaxPulls = 1
    MaxCrashes = 1
INVARIANTS TypeOK SignedCopyOnce OneOpenAgreement
PROPERTIES ExecutedStaysExecuted CompletionArrives
CHECK_DEADLOCK FALSE
