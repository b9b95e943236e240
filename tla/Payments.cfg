SPECIFICATION Spec
CONSTANTS
    NoAccount = NoAccount
    NoHold = NoHold
    NoInput = NoInput
    NoTransfer = NoTransfer
    NoLeg = NoLeg
    NoRow = NoRow
    Requests = {r1, r2, r3}
    HalfLen <- MCHalfLen
    Currencies <- TwoCurrencies
    SystemRow <- MCSystemRow
    TransferCode <- OneCode
    Customers <- Everyone
    TbAccounts <- EveryAccount
    LedgerOf <- TwoLedgers
    DebitsCapped <- EveryDeposit
    CreditsCapped <- BothAssets
    OpeningBook <- AnnHas2
    OpeningStatus <- AllActive
    Inputs <- BusinessInputs
SYMMETRY AnyRequest
INVARIANTS TypeOK BookExplained OneResolution MetadataFollowsTransfer RepliesTruthful NoLateBusiness CurrencyHonoured
\* Clients may stop asking.
CHECK_DEADLOCK FALSE
