SPECIFICATION FairSpec
CONSTANTS
    NoAccount = NoAccount
    NoHold = NoHold
    NoInput = NoInput
    NoTransfer = NoTransfer
    NoLeg = NoLeg
    NoRow = NoRow
    Requests = {r1, r2, r3}
    HalfLen <- MCHalfLen
    Currencies <- MCCurrencies
    SystemRow <- MCSystemRow
    TransferCode <- BankCodes
    Customers <- AnnBob
    TbAccounts <- AnnBobAccounts
    LedgerOf <- OneLedger
    DebitsCapped <- AnnBobDeposits
    CreditsCapped <- Assets
    OpeningBook <- AnnHas3
    OpeningStatus <- AllActive
    Inputs <- LiveInputs
PROPERTY EveryRequestEnds
\* Clients may stop asking.
CHECK_DEADLOCK FALSE
