SPECIFICATION Spec
CONSTANTS
    NoAccount = NoAccount
    NoHold = NoHold
    NoInput = NoInput
    NoTransfer = NoTransfer
    NoLeg = NoLeg
    NoRow = NoRow
    Requests = {r1, r2}
    HalfLen <- MCHalfLen
    Currencies <- MCCurrencies
    SystemRow <- MCSystemRow
    TransferCode <- BankCodes
    Customers <- JustAnn
    TbAccounts <- JustAnnAccounts
    LedgerOf <- OneLedger
    DebitsCapped <- JustAnnDeposits
    CreditsCapped <- Assets
    OpeningBook <- AnnHas0
    OpeningStatus <- AllActive
    Inputs <- RaceInputs
INVARIANT ClosedAccountsEmpty
\* Clients may stop asking.
CHECK_DEADLOCK FALSE
