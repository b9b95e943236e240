SPECIFICATION Spec
CONSTANTS
    NoAccount = NoAccount
    NoInput = NoInput
    NoWrite = NoWrite
    HalfLen <- MCHalfLen
    Currencies <- MCCurrencies
    Customers <- MCCustomers
    TbAccounts <- MCTbAccounts
    LedgerOf <- MCLedgerOf
    DebitsCapped <- MCDebitsCapped
    CreditsCapped <- MCCreditsCapped
    Category <- MCCategory
    AccountStatus <- MCAccountStatus
    SystemRow <- MCSystemRow
    OpeningBook <- MCOpeningBook
    OpeningLoan <- MCOpeningLoan
    Inputs <- MCInputs
    Requests = {r1, r2}
INVARIANT RefusedRepaymentsMoveNothing
\* Clients may stop asking.
CHECK_DEADLOCK FALSE
