SPECIFICATION Spec
CONSTANTS
    NoAccount = NoAccount
    NoHold = NoHold
    NoInput = NoInput
    NoTransfer = NoTransfer
    NoLeg = NoLeg
    NoRow = NoRow
    Requests = {r1, r2}
    HalfLen <- MCHalfLen
    Currencies <- MCCurrencies
    SystemRow <- MCSystemRow
    TransferCode <- BankCodes
    Customers <- AnnBob
    TbAccounts <- AnnBobAccounts
    LedgerOf <- OneLedger
    DebitsCapped <- AnnBobDeposits
    CreditsCapped <- Assets
    OpeningBook <- AnnHas2
    OpeningStatus <- AllActive
    Inputs <- CodeInputs
INVARIANT OpenHoldsResolvable
\* Clients may stop asking.
CHECK_DEADLOCK FALSE
