SPECIFICATION Spec
CONSTANTS
    Requests = {r1, r2}
    Keys = {k1}
    NoRequest = NoRequest
    NoKey = NoKey
SYMMETRY AnyName
INVARIANT MoneyMovesOnce
\* Clients may stop asking.
CHECK_DEADLOCK FALSE
