SPECIFICATION FairSpec
CONSTANTS
    NoAccount = NoAccount
    NoInput = NoInput
    NoEntry = NoEntry
    NoRow = NoRow
    NoQuote = NoQuote
    NoRequest = NoRequest
    HalfLen <- MCHalfLen
    Currencies <- MCCurrencies
    Scale <- MCScale
    RateScale = 1
    Customers <- MCCustomers
    TbAccounts <- MCTbAccounts
    LedgerOf <- MCLedgerOf
    DebitsCapped <- MCDebitsCapped
    CreditsCapped <- MCCreditsCapped
    AccountStatus <- MCAccountStatus
    PoolRow <- MCPoolRow
    Rows <- MCRows
    OpeningRows <- MCOpeningRows
    TTL = 1
    MaxLoad = 1
    MaxTime = 3
    OpeningBook <- MCOpeningBook
    Inputs <- MCInputs
    Requests = {r1, r2}
INVARIANTS TypeOK StampedeProtected FairPrice AnswersTruthful
PROPERTIES RatesFresh RatesInOrder EveryExchangeEnds
\* Clients may stop asking.
CHECK_DEADLOCK FALSE
