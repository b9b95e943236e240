SPECIFICATION Spec
CONSTANTS
    NoInput = NoInput
    NoUuid = NoUuid
    NoCustomer = NoCustomer
    HalfLen <- MCHalfLen
    Customers <- MCCustomers
    Products <- MCProducts
    Product <- MCProduct
    Currencies <- MCCurrencies
    Uuids <- MCUuids
    Bits <- NamedBits
    DefaultLimit = 1
    MaxLimit = 2
    Inputs <- MCInputs
    OpeningRows <- MCOpeningRows
    OpeningTb <- MCOpeningTb
    Requests = {r1, r2, r3}
SYMMETRY AnyRequest
INVARIANTS TypeOK NumbersGapless AccountsWhole AnswersTruthful ListingComplete
\* Clients may stop asking.
CHECK_DEADLOCK FALSE
