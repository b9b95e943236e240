SPECIFICATION FairSpec
CONSTANTS
    Requests = {r1, r2, r3}
    Keys = {k1}
    NoRequest = NoRequest
    NoKey = NoKey
INVARIANTS TypeOK OneRunner OneSuccess ReplayFaithful
PROPERTIES KeepsPromise EveryRequestEnds
\* Clients may stop asking.
CHECK_DEADLOCK FALSE
