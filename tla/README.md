# A verification project for the core banking system

TLA+ models of the Python core bank in `src/src/cbs`, the TLC runs that check
them on small instances, and theorems about them that TLAPS proves for every
instance. The paths below are those of the repository (`cbs/...` is
`src/src/cbs/...`).

## 1. The system

The bank keeps money in **TigerBeetle** (accounts with posted and pending debits
and credits, immutable transfers, limits) and everything else in **PostgreSQL**
(status of accounts, products, owners, metadata of transfers, idempotency keys,
loan details, rates, batch runs). The services are coroutines of one asyncio
process; several processes may share both stores. Every request validates against
PostgreSQL, looks accounts up in TigerBeetle, writes to TigerBeetle, then writes to
PostgreSQL: two stores and no common transaction.

| component | state it keeps | operations | what makes it correct |
|---|---|---|---|
| Transfers, deposits, withdrawals (`service/transfer_service.py`) | TigerBeetle transfers, `transfer_metadata` | `execute`, `get`, `list` | books explained by transfers, honest replies, no row without a transfer, the currency asked for |
| Fees (`service/fee_service.py`) | the same | `charge` | the same |
| Holds (`service/hold_service.py`) | pending transfers | `create`, `capture`, `void`, expiry | a hold is resolved once, and can be resolved |
| Closing (`AccountService.close`) | `accounts.status` | `close` | only an empty account is closed; nobody uses it later |
| Opening, look-up, listing (`AccountService.create`, `get`, `list`, `BalanceService.get`) | `accounts`, owners, loan details, TigerBeetle accounts | `create`, `get`, `list` | unique, gapless numbers; no half-opened account; a listing that misses nothing |
| Loans (`service/loan_service.py`, `store/postgres/loan_repo.py`) | `loan_details`, `loan_repayments` | `disburse`, `repay`, `repay_with_fee`, `update_arrears_status` | every leg of a batch or none; outstanding is explained by the repayments on record; no record without money; the status only moves forward |
| Exchange (`service/fx_service.py`, `cache/fx_cache.py`) | rates, cache | `exchange`, `get_or_refresh` | both legs or none; one load per lifetime of a rate; a bounded age of rates, and no way back to an older one; rounding |
| Idempotency (`api/middleware/idempotency.py`, `store/postgres/idempotency_repo.py`) | `idempotency_keys` | reserve, complete, fail, replay | one execution at a time, one success, faithful replays |
| Error mapping (`service/errors.py`, `TransferRepo.create_transfers`) | none | `map_tb_error`, `check_*_result` | a rejection reaches the client under its name |
| Identifiers (`util/uuid.py`) | none | `uuid_to_uint128`, `uint128_to_uuid`, `tb_id_to_uuid` | the same account in both stores |
| Batch jobs (`cli/_batch_impl.py`) | `batch_runs` | `_execute_batch` | a job completes once per date |
| Ledger set-up (`cli/_setup_impl.py`) | `system_accounts`, TigerBeetle accounts | `_setup_ledger` | one set of system accounts per currency, in both stores |
| Statements (`TransferRepo.get_account_transfers`, `TbAccountRepo.get_account_balances`) | none | paging | a page is read; nothing skipped or repeated |
| Customers, products, settlements, HTTP plumbing, CLI | rows | inserts, reads, formatting | nothing a state machine would add to |

How they interact: the middleware calls the services and sees only a status code;
the services share TigerBeetle accounts and PostgreSQL rows and never hold a lock
over both; `TBClient` runs each call in a thread (`asyncio.to_thread`), which is not
cancelled when its request is; sessions are handed out by `provide_db_session`, which
does not commit, so the caller of a service has to.

What is hard here: any number of requests between a read and the write that relies on
it (balance and status before a closing, a hold before its capture, a key before its
reservation, the number of an account before its insert, a miss in a cache before it is filled); a
TigerBeetle transfer that happened while its request failed, died or
lost its session; retries after such a failure; two byte orders of every identifier;
rejections turned into texts. `PROJECT.json` lists each at its line.

## 2. The modules

| module | models | uses |
|---|---|---|
| `Uint128` | the byte orders of identifiers (`util/uuid.py`) | |
| `Ledger` | TigerBeetle's totals, limits and the effect of each kind of transfer | |
| `Totals` | sums of amounts, written as cardinalities so that they can be proved about | |
| `Payments` | deposits, withdrawals, transfers, fees, holds and closings, interleaved | `Uint128`, `Ledger`, `Totals` |
| `Loans` | disbursements, repayments of up to three legs and the arrears job, interleaved | `Uint128`, `Ledger`, `Totals` |
| `Exchange` | exchanges, the cache of rates with its locks and its clock, the publishing of rates | `Uint128`, `Ledger`, `Totals` |
| `Accounts` | opening, looking up and listing accounts | `Uint128` |
| `OnceOnly` | what an idempotency key promises (abstract) | |
| `Idempotency` | the middleware and its table, with a refinement to `OnceOnly` | `OnceOnly` |
| `MCPayments`, `MCIdempotency`, `MCLoans`, `MCExchange`, `MCAccounts` | small instances for TLC | |
| `Ledger_proofs` | the laws of sums and of the ledger, which the theorems rest on | TLAPS |
| `Payments_proofs`, `Transfers_proofs`, `Idempotency_proofs`, `Loans_proofs`, `Accounts_proofs`, `Exchange_proofs` | theorems | TLAPS |

Definitions with a comment "Mutant:" are deliberately wrong forms of the
definition that follows; nothing uses them but the checks that a property can fail.

### Payments

A request is a coroutine; one action is the code between two awaits. `pc[r]` is the
await request `r` is at:

| action | code |
|---|---|
| `Submit` | the request passes `validate()` |
| `CheckDebit`, `CheckCredit` | `_get_account_metadata`, the loop of `HoldService._validate_accounts`, the first read of `close` |
| `LookupAccounts` | `lookup_accounts` in TigerBeetle, the ledger checks, the transfer dict |
| `LookupHold` | `lookup_transfer` and the amount checks of `capture` and `void` |
| `ExecuteTb` | `create_transfers` and the mapping of its rejection |
| `WriteMetadata` | the fire-and-forget insert into `transfer_metadata` |
| `CheckBalance`, `UpdateStatus` | the balance check and the conditional UPDATE of `close` |
| `Commit`, `CommitFails` | the caller commits the session |
| `DependencyFails`, `Die` | a read raises; the request dies, perhaps with its TigerBeetle call under way |
| `ExpireHold` | TigerBeetle times a pending transfer out |

`book` and `transfers` are TigerBeetle, `status` and `metadata` the committed rows,
`staged` the uncommitted row of a session. A deposit looks the vault and the customer
up in one TigerBeetle call in `_resolve_deposit` and again in `execute`; nothing those
reads return can change, so the model has one `LookupAccounts`. `closedBefore` is a
history variable used by one property.

Abstractions. Identifiers are tuples of `2 * HalfLen` bytes (`HalfLen` is 8 in the code).
A transfer is identified by its request. Dates, texts and the transfer types
other than "transfer" that `_resolve_explicit` serves are not told apart ("payment"), nor are the
codes of transfers that nobody compares. Those of holds, captures and voids are: TigerBeetle
posts or voids a pending transfer only for a transfer of the same code or of none (`TbAccepts`),
and `TransferCode` says which code each is sent with.
`SystemRow` gives the bytes of the vault and the fee account that `system_accounts`
keeps, so a wrong set-up is a value of a constant. "frozen" is a status that the code
reads and no code writes: the branch is modelled, and no run opens with such an account.

### Idempotency and OnceOnly

`Arrive`, `Get`, `Reserve`, `CommitReservation`, `Handle`, `Update`, `Forward` follow
`IdempotencyMiddleware.__call__` from await to await; `RunBare` is the path on which a
database call raises and the handler runs without a reservation; `UpdateFails` is the
logged failure of the final update; `Die` a lost request. The wait of `Reserve` is
PostgreSQL's: `INSERT ... ON CONFLICT` waits for an uncommitted row of the same key. The
handler is abstract: it ends with some class of status and may have moved money even when
that is an error, as the dual writes of the services allow.

`OnceOnly` has a slot per key that is free, held or spent. The refinement maps "pending"
to held, "completed" to spent and the rest to free, and the holder to the reserved request
that still runs. A key whose holder died is held by nobody, for good.

### Loans

`Submit`, `Validate`, `ExecuteTb`, then `SetDisbursedAt` or `ReduceOutstanding`,
`WriteMetadata` and `Commit` follow `disburse`, `repay` and `repay_with_fee`. The look-ups of
`_validate_loan_accounts` and of the system accounts read nothing that changes here, so they are
one step (`Refusal` keeps the order of the errors). `ExecuteTb` sends up to three legs;
`Balancing` says which of them carry the flag 0x10. The services call it the linked flag, and in
TigerBeetle it is balancing_debit: a leg with it takes what is left on the account it debits when
that is less than its amount. Linked is 0x01, which no leg has. So TigerBeetle executes the legs
one by one (`Leg`), each on what those before it have left, and keeps what it has executed
when a later one is turned down (`Batch`). `UpdateArrearsStatus` is the job's
statement on one overdue row.

PostgreSQL's part: a row that an open session has updated is locked (`Locked`), an UPDATE that
waited judges the row as committed last, and a statement that failed spoils the transaction:
the later ones fail, and the commit rolls back without an error (`spoilt`). That is how a
background metadata writer, whose failure is only logged, can undo the repayment it describes:
the client is told "posted", the money has moved, and the loan's row says nothing of it. No
property calls that wrong; `RecordsBehindMoney` checks the other direction.

Taken from the code although something else stands in its way:

- `reduce_outstanding` calls `fetchone()` on an INSERT without RETURNING. SQLAlchemy raises
  there, so with the real driver `repay` ends in ErrServiceUnavailable (`DependencyFails` at
  "update"); the tests' sessions return a row, and the model has both outcomes.
- `loan_details.disbursed_at` is NOT NULL in migration 001, and `AccountService` inserts None
  into it. The runs open with a loan that exists.
- `update_arrears_status` has no caller in `src/`; as the job it is written to be it may run
  at any time. It writes "in_arrears"; `domain/loans.py` has "arrears".

### Exchange

| action | code |
|---|---|
| `Submit` | `exchange` up to its first await: `validate()`, the client's rate, a hit in the cache, or the lock of the pair |
| `AcquireLock` | the second look at the cache under the lock, and the start of the loader |
| `ReadLatest`, `FinishLoad`, `LoadFails` | `get_latest` in PostgreSQL; the entry set and the lock left; the loader raises, whatever it is, and the client gets ErrNotFound |
| `Validate`, `DependencyFails` | the pools, the accounts in TigerBeetle, their ledgers and rows; one of these look-ups raises |
| `ExecuteTb`, `WriteMetadata`, `Commit`, `CommitFails` | both legs in one batch, not linked, the sell leg with the flag 0x10 (`Balancing`, as in Loans); the background rows; the caller's commit |
| `Tick`, `Publish` | the clock of the process; somebody inserts a rate |

All requests of the model are of one process, as they share its cache; several processes would
share nothing but the rows. `AcquireLock` may come in any order of those who wait: asyncio's lock
is fair, so the code does less than the model. A lock that was promised to a waiter makes later
requests wait as well (`MustWait`), as asyncio's does.

Plain from the code, and modelled as it is: nothing compares a client's own rate with the bank's,
and it may buy nothing (a small amount that rounds to zero); a row with `effective_at` in the
future is the latest at once; the age of an entry counts from the moment it was set, not from
that of its row; any time may pass between taking a rate and executing at it. Nobody in `src/`
calls `insert`, so `Publish` happens at any time. The background writer may spoil its session's
transaction; as the rows of an exchange are all there is in it, that is a choice of `noted`.

### Accounts

| action | code |
|---|---|
| `Validate` | product and customer, judged in the code's order (`Refusal`) |
| `NextSequence` | the advisory lock, MAX over the committed numbers, and the end of that transaction |
| `CreateTb`, `CreateTbFails` | `generate_uuidv7` and `create_account` in TigerBeetle |
| `Insert`, `Link`, `CreateLoan` | the rows of the account, its owner and its loan, in one session |
| `Commit`, `CommitFails` | the caller's commit |
| `FindRow`, `FindBalance` | `AccountService.get` and `BalanceService.get` |
| `ReadPage`, `ShowPage` | `AccountService.list`: rows from PostgreSQL, balances from TigerBeetle |

PostgreSQL's part: `account_number` is unique, so an insert waits while another session holds
the same number and is refused when it was committed (`Insert`, `NumberTaken`); an identity value
is drawn by every insert, also by one that fails. The code draws it before it waits and the
model after: what matters to a listing is that ids are committed out of their order, which both
allow. A listing is a client that follows the cursors; the code serves each page separately.
Nothing here moves money, so the balances of the opening accounts stay.

Plain from the code, and modelled as it is:

- `next_account_sequence` opens a transaction with `session.begin()`. On a session that has
  already read the product and the customer SQLAlchemy raises, so with the real driver every
  opening ends in RuntimeError (`DependencyFails` at "sequence"). The tests' sessions accept it,
  and the model has both outcomes.
- The lock is gone before the number is used. `NumbersGapless` holds all the same, because the
  unique column refuses the second of two equal numbers: what the race costs is a refused
  opening and an account in TigerBeetle that no row points to. Such orphans are possible after
  every failure from the insert on. No property calls them wrong: the code logs them.
- `build_account_flags` gives credit-balance accounts `credits_must_not_exceed_debits` and
  debit-balance accounts the reverse; PLAN/10 lists them the other way round. `Capped` says
  what the code does, and no property calls it right; `Payments` takes the limits as constants.
- The bits it gives are not TigerBeetle's: 0x04 for history, 0x01 and 0x02 for the two limits,
  where TigerBeetle has linked at 0x01, the limits at 0x02 and 0x04 and history at 0x08
  (`Meaning`). So an account of assets or expenses is sent as the first of a chain that does not
  go on, any other with both limits, and TigerBeetle creates neither (`Creatable`): with the
  program's bits every opening ends in `CreateTbFails`. `Bits` is a constant. The runs give it
  TigerBeetle's, so that everything behind that call is checked too; the theorems hold for any.
- `BalanceService` shows what is available of a loan as computed, `AccountService` shows zero.

## 3. The runs

All runs set CHECK_DEADLOCK FALSE: clients may stop asking, and then nothing moves.

| run | instance | shows |
|---|---|---|
| `Payments` | 3 requests over two currencies, with both kinds of identifiers: holds of all of Ann's 2, captures of 0, 1 and 3, voids, a withdrawal, a deposit, a payment, a fee, the closing of Ann's account, transfers in the wrong currency; one code for holds, captures and voids | `TypeOK`, `BookExplained`, `OneResolution`, `MetadataFollowsTransfer`, `RepliesTruthful`, `NoLateBusiness`, `CurrencyHonoured` |
| `PaymentsLive` | 3 requests: holds with timeout, captures, closings | `EveryRequestEnds` |
| `Idempotency` | 3 requests, 1 key | `TypeOK`, `OneRunner`, `OneSuccess`, `ReplayFaithful`, `KeepsPromise` (refinement of `OnceOnly`), `EveryRequestEnds` |
| `LoansRepaid` | 3 requests on one loan of 2: a disbursement, repayments of 1 and 2, with interest and a fee, more than the purse holds, accounts mixed up; the arrears job | `TypeOK`, `OutstandingExplained`, `RecordsBehindMoney`, `AnswersTruthful`, `LoanStatusForward` |
| `Exchange` | 2 requests: dollars sold at the bank's rate, which changes, or at the client's, and yen for which there is no rate; 30 units to sell and 4 in the pool; a TTL and a load of one tick each, three ticks | `TypeOK`, `StampedeProtected`, `FairPrice`, `AnswersTruthful`, `RatesFresh`, `RatesInOrder`, `EveryExchangeEnds` |
| `Accounts` | 3 requests on a bank with two accounts: openings of six products, two of which share a prefix, listings with pages of one and two, look-ups | `TypeOK`, `NumbersGapless`, `AccountsWhole`, `AnswersTruthful`, `ListingComplete` |

Bounds. Three requests are enough for a hold and two that race to resolve it, for a
closing between the validation and the execution of two others, and for three overlapping
retries of one key, each of which can be executing, waiting and arriving (keys do not
interact, so one is enough), and for an opening that loses its number to another while a listing goes
on; they are also enough for two repayments that race for the last of
a loan while the arrears job runs, after a third. Amounts are 1 to 3, so that two holds of 2 do
not fit into 2, a capture of 1 is partial and one of 3 too large, and two repayments of 1 or one of
2 close a loan of 2. The purse of the loan run holds 4, so that a batch of 2 + 2 can fit, or its
first leg alone, or a balancing leg for less than was asked. Identifiers have four
bytes, which is the least for a byte order to matter in each half. Accounts are at most
seven. Two exchanges are enough for a loader and one that waits for it, twice over, as a request
whose load failed makes room for the next; with two rows and three ticks a cached rate can
expire, be replaced and still be in use. The cut-off scales (a decimal for dollars, none for yen, one
for the rate) make 1.5 dollars worth 2.1 or 2.55 yen, which round to 2 and 3. Requests
are symmetric, and no property names one, so symmetry is used where no liveness is checked.

Two things stand between a hold and its resolution in the code. HoldService finds the
PostgreSQL row of an account only when its identifier reads the same in both byte orders, and
TigerBeetle turns a capture or a void down because its code is not the hold's: 9 and 10 against
8, the finding of `PaymentsCodes`. The run `Payments` has holds between customers with such
identifiers, and one code for all three, so that everything behind the look-up and the
comparison is checked as well. What it says of captures and voids is therefore said of the
program with its codes mended; the theorems hold for any identifiers and any table of codes,
the program's included.

The limits (`DebitsCapped`, `CreditsCapped`) in the runs are those that PLAN/10 describes:
deposit accounts may not be debited beyond their credits, assets not credited beyond their
debits. `build_account_flags` sets the opposite ones; they are constants here, no property is about
them, and the proofs hold for any choice. The run of `Exchange` limits the debits of all four accounts, so that either
leg of an exchange, or both, may find no room.

Fairness. `asyncio` resumes a coroutine whose await is over and both databases answer or
fail, so each step of a request that can go on is weakly fair (`Proceed`). Nothing is assumed of
clients, of `Die`, of the expiry of holds or of failures. The wait for a row lock or an uncommitted key is a guard, so
these properties also say that waiting ends: also for the lock of a rate, whose loader may fail or
die. `Accounts` has no liveness: its requests wait for each other in one place, `Insert`, which
an uncommitted session leaves as in `Payments`.

### Where the code does not do what it says

Each is a run that TLC finds violated.

| run | what is said | what happens |
|---|---|---|
| `PaymentsCloseRace` | `close`: "Close an account after verifying zero balance and no pending holds." | a deposit validated before and executed after leaves money on a closed account |
| `IdempotencyTwice` | "Enforce idempotency for mutating requests via Idempotency-Key header." | a handler that fails after its TigerBeetle write frees the key, and the retry moves the money again |
| `LoansOverpaid` | `domain/errors.py:201`: "Repayment amount exceeds outstanding balance — maps to 400." | the balance is compared after the money has moved: the refused repayment is in TigerBeetle |
| `LoansSplit` | `repay_with_fee`: "all legs succeed or all fail together." | the flag 0x10 does not link the legs: part of a repayment stays when the rest is turned down |
| `PaymentsCodes` | `capture`: "Posts the reserved funds", `void`: "Releases the reserved funds back to the debit account." | both are sent with another code than the hold, and TigerBeetle turns them down while the hold is pending |
| `AccountsBalances` | `list`: "Return accounts for a customer with live balances, cursor-based pagination." | TigerBeetle's answer is searched under the UUID's bytes, and an account with money is listed with zero |

More are plain from the code, and modelled where the sections above say so, without a run of
their own:

- `FXService` sends the sell leg of an exchange with the same 0x10 (fx_service.py:52), where its
  docstring promises "all-or-nothing semantics across both legs": one leg may be executed without
  the other, and a customer who has less than she sells sells what she has and is paid for
  all of it.
- No account can be opened with the bits of `build_account_flags`, and the limits they stand for
  are the reverse of PLAN/10's (see Accounts).
- `HoldService` looks accounts up in PostgreSQL by their TigerBeetle bytes (hold_service.py:472)
  and refuses those whose identifier differs in the two orders as invalid; by the same bytes it
  looks up the customer of a capture (hold_service.py:285), whose row is then not written.
- `create_transfers` raises a ValueError with numbers in it where the services promise a
  TransferError; `map_tb_error` looks for names, and the ValueError comes out: want of money
  is never answered as ErrInsufficientBalance.
- A metadata row that could not be written is never written: PLAN.md:948 has a reconciliation
  worker, `src/` has none.
- A key whose request died stays pending: PLAN.md:949 has a worker for those too, and
  `delete_expired` has no caller.
- The middleware completes a key for 2xx only (`Kept`), where PLAN/13 says below 500: a request
  that was refused is executed again by its retry, not answered from the key. `ReplayFaithful`
  says nothing of the class of a response, only that what is replayed is what the
  reserved execution answered. And after a database error the middleware runs the handler without
  a key (`RunBare`), where PLAN/13 says that it prevents concurrent execution.
- No statement can be read: `get_account_transfers` (transfer_repo.py:134) and
  `get_account_balances` (tigerbeetle/account_repo.py:151) name the account by position and by
  keyword in their call of `TBClient`, and Python raises a TypeError. The unit tests have a mock
  in its place. Were the call taken, the flag 0x01, "Reversed" to the code, would select debits,
  oldest first (reversed is 0x04); balances would need accounts that keep a history; and a reader
  with a cursor whose first page is full and adds nothing would read that page for ever, because the
  loop goes back to the cursor as long as nothing was collected (transfer_repo.py:129). Nothing in
  `src/` calls either method, and neither is modelled.

## 4. The proofs

| module | theorems |
|---|---|
| `Payments_proofs` | `TypeCorrect`, `NoLateBusinessCorrect` |
| `Transfers_proofs` (of `Payments`) | `OneResolutionCorrect`, `RepliesTruthfulCorrect`, `CurrencyHonouredCorrect`, `MetadataFollowsTransferCorrect`, `BookExplainedCorrect` |
| `Idempotency_proofs` | `TypeCorrect`, `OneRunnerCorrect`, `OneSuccessCorrect`, `ReplayFaithfulCorrect`, and `KeepsPromiseCorrect`, the refinement of `OnceOnly` |
| `Loans_proofs` | `TypeCorrect`, `OutstandingExplainedCorrect`, `RecordsBehindMoneyCorrect`, `AnswersTruthfulCorrect`, `LoanStatusForwardCorrect` |
| `Accounts_proofs` | `TypeCorrect`, `NumbersGaplessCorrect`, `AccountsWholeCorrect`, `AnswersTruthfulCorrect`, `ListingCompleteCorrect` |
| `Exchange_proofs` | `TypeCorrect`, `StampedeProtectedCorrect`, `FairPriceCorrect`, `RatesFreshCorrect`, `RatesInOrderCorrect`, `AnswersTruthfulCorrect` |

`XCorrect` says `Spec => []X`, or `Spec => X` of an action property and of the refinement. With
them every safety and action property that a passing run checks is proved.

They hold for any finite number of requests, any accounts, keys, currencies, rates and loans, any
inputs and any opening state, under the named assumptions of the modules:
`HalfLenAssumption`, `CappedAssumption`, `CodesAssumption` (codes are numbers, whichever), `CustomersAssumption` (rows have TigerBeetle
accounts, the "none" values are none of the others), `IdsApartAssumption` (identifiers
are unique), `InputsAssumption` and `LoanInputsAssumption` (inputs pass `validate()`),
`OpeningAssumption` of `Payments` (the opening books balance and respect the limits),
`LoansAssumption` (identifiers are tuples of bytes, an opening loan is closed just when nothing
is outstanding), `RatesAssumption` (one row per pair and time) and `ExchangeAssumption` (scales and times are numbers, a TTL
is positive, inputs are valid), `AccountsAssumption` (generated UUIDs are distinct) and
`OpeningAssumption` of `Accounts` (the accounts a run opens with are whole, apart and numbered
without gaps) and `NoneAssumption`. TLC evaluates
all of them on every run.

*Payments.* `TypeOK` is not inductive: `ExecuteTb` needs a leg and a transfer that the earlier
steps built. `TypeInv` adds `Prepared`: a request past its arrival has an input, one past its
look-ups has the transfer it will send, and only captures and voids look a hold up. It is
proved action by action.
The lemmas of `Ledger_proofs` say of each kind of transfer what it takes from the reservations of
the two accounts and what it posts (`PostEffect`, `ReserveEffect`, `ReleaseEffect`,
`PostPendingEffect`). `NoLateBusiness` rests on `CloseInv`: "closed"
is never left, every request is on the route of its kind, and one past the validation of an
account did not find it closed at its arrival. Identifiers are apart (`IdsApartAssumption`), so
the row that was judged is that of the account that moves.

*Transfers.* `MoneyInv` says of each request what it has done by each await (`OnWay`), that the
transfer it is about to send is the one that was asked for (`LegHonest`), that TigerBeetle
recorded what was sent (`Recorded`) and that the answer agrees with both (`Told`); of all of them
together that holds are resolved once (`OneResolution`) and that rows are filed under a transfer
and its customer (`AllFiled`). No part is inductive alone: that a hold is still as
it was looked up needs that what TigerBeetle has recorded stays, but for a pending transfer that
is resolved (`Final`), and this needs to know that nobody sends twice. Every step is
one that sends (`Sends`), the expiry of a hold, or one that moves no money, and only the first two
need more than a line. `BookExplained` adds sums to that: `Totals` writes
a sum as the number of its units, so that its laws (`TotalAdd`, `TotalRemove`, `TotalSame`) follow
from those of cardinality without an induction, which the prover could not do. A step adds one term
to what is posted, adds one to or takes one from what is open, or both.

*Idempotency.* `IInv` adds to the three properties where each request can be by what it has
done (`PhaseInv`), that a reservation waiting for its commit is the only one of its key and has
judged the row as it still is (`ReserveInv`), and where the success of a key can be: nowhere
while the key is free, with the request that runs, or in the completed row (`SuccessInv`).
Without `ReserveInv` two reservations could follow each other between a judgement and
its commit; without `SuccessInv` nothing connects the row with the executions. The refinement goes
by the steps that touch a key: a commit of a reservation takes it (`TakesKey`), also one that
raises after it was made, whose holder is lost at once; an update spends or frees it, and a failed
update or a death under the reservation loses it (`LeavesKey`); every other step is a stutter.
`OneRunner` makes the holder, which the mapping chooses among those that run, the one there is.

*Loans.* `IInv` says of each request what it has done by each await (`OnWay`), of a session that has
written a loan's row that it wrote it from the row as it still is (`HonestWrite`), and that
one session at a time has (`OneWriter`): this is what the lock of the row gives, and what
the arrears job must respect. Then a commit replaces the row it read, takes exactly its principal
off and puts the repayment on record with it, and `TotalAdd` keeps the sum. Of a batch the proof
goes by what TigerBeetle makes of each leg (`LegRun`), of all of them (`BatchRun`) and of
the request that sends it (`Applied`): when all of them are executed and the account
they debit has a limit, what was asked for has moved, as a balancing leg that took less
leaves nothing for the legs behind it. That an account is found again
after its identifier went to TigerBeetle and back (`RoundTrip`) is the proof that the two
byte orders are each other's inverse.

*Accounts.* `IInv` has the types, what a request has prepared by each await, that ids and UUIDs
drawn are apart, that a row being inserted has its account in TigerBeetle (`Backed`),
and that a number on its way is at most the next one, and one that was inserted is
just that and the only one of its prefix (`Numbered`), although the lock under which it was computed
is gone: the unique column refuses a number that somebody else committed meanwhile. `AnswersTruthful` adds what a look-up has found.

*Exchange.* `RateInv`: the lock of a pair is held by its one loader, which found the cache empty
(`Locked`); every load but the last was paid for by a lifetime that passed (`Counted`); no loader
is kept waiting longer than a load takes (`Timed`); and what is cached or being loaded is
no older than any rate a request has taken (`Ordered`). `AnswerInv` says what was executed of an exchange by each await: nothing before its batch, both
legs behind one that was not turned down, and not both behind one that was.

Two theorems about exchanges, `TypeCorrect` and `FairPriceCorrect`, rest on what
`_compute_buy_amount` returns. The powers of ten are
a recursive function (`Tens`), and the library's induction rule cannot be instantiated by these
provers; so induction is done here on sets: a set of naturals that has 0 and the successor of
each of its members is all of them, because what it lacks would have a least member
(`SetInduction`, from the well-founded order of the naturals). From it follow that every power
is a positive number and that powers multiply, and what is bought is then the exact product to
half a unit (`HalfUp`). The buy leg is not a balancing one: when it is executed it moves just
that (`Settles`, `Settlement`), and no step changes the input, the rate or what moved of an
exchange that was executed (`Quiet`, `SettledKept`).

*Listings.* `Listing` says of a request that lists: what it has shown ascends, stops at its
cursor, and has all the rows of its customer up to there that were committed when it began. A
page read but not yet shown (`Read`) has the first of these rows behind the cursor; rows
committed meanwhile with a smaller id than the cursor were not there when the listing began, so
`before` says nothing of them. `Ranks` is the lemma it needs about counting: the members of a
finite set of numbers are numbered from 1 on, in order.

Only model-checked: everything that is liveness (`EveryRequestEnds` of `Payments` and of
`Idempotency`, `EveryExchangeEnds`), which is out of the
reach of this prover, as is ENABLED.

## 5. The plan

Next, most important first:

1. The composition of `Idempotency` with the services: the handler of the middleware as a request
   of `Payments`.
2. The runs of the batch command, once its jobs do something and its rows are committed.

## 6. What is not modelled, and why

Reads of single rows that change nothing (`TransferService.get` and `list`, fees, customers,
products) are left out. The error tables of `check_transfer_result` and `check_hold_result` are
left out: `create_transfers` raises before either sees a failure. Customers, products, fee schedules
and settlements are single statements or stubs. The jobs of the batch command are stubs, and it never
commits the rows of its runs; the set-up of the ledger runs once, in one process, and its outcome
is a constant (`SystemRow`, `PoolRow`). The caches of products and ledgers have no caller. HTTP
formatting, logging, configuration, migrations and the command line's argument parsing hold no
state that two actors share. Statements end in a TypeError before they read anything (see 3). Lists of more than 8191 transfers are never sent by a service. The
generation of UUIDs is taken to give distinct identifiers; instalments and dates of loans are
pure arithmetic that no property here tells apart.
