------------------------------ MODULE Exchange ------------------------------
(***************************************************************************)
(* Selling one currency for another (service/fx_service.py) at a rate that *)
(* the client names or that a process keeps in its cache for a while       *)
(* (cache/fx_cache.py), read from the rows of exchange_rates.              *)
(*                                                                         *)
(* A miss in the cache is filled by one request under a lock of its pair;  *)
(* the others wait for it.  Rates are published while it reads.            *)
(*                                                                         *)
(* The service means to link the two legs of an exchange, but the flag it  *)
(* sets, 0x10, is TigerBeetle's balancing_debit (linked is 0x01): each leg *)
(* stands alone, and the first sells no more than the customer has left.   *)
(***************************************************************************)
EXTENDS Uint128, Ledger, FiniteSets

CONSTANTS
    Requests,       \* requests of one process, which share its cache
    Customers,      \* UUID bytes of the accounts that have a row in accounts
    AccountStatus,  \* AccountStatus[u]: accounts.status, which no request here changes
    Currencies,     \* currencies, each standing for its TigerBeetle ledger
    Scale,          \* Scale[c]: decimal places of a currency
    RateScale,      \* decimal places of a rate as an integer: 6
    PoolRow,        \* PoolRow[c]: bytes of the liquidity pool in system_accounts, or NoAccount
    Rows,           \* the rows of exchange_rates of a run
    OpeningRows,    \* those published when the run starts
    TTL,            \* how long the cache keeps a rate
    MaxLoad,        \* bound: PostgreSQL answers a loader, or fails, within this time
    MaxTime,        \* bound on the clock
    Inputs,         \* what clients may ask for: bounds the requests of a run
    OpeningBook,    \* TigerBeetle's totals when the run starts
    NoAccount, NoInput, NoEntry, NoRow, NoQuote, NoRequest

VARIABLES
    now,            \* the clock
    since,          \* PostgreSQL: when each row was published, or NoRow
    cache,          \* the entry of each pair, or NoEntry
    lock,           \* the request that holds the lock of a pair, or NoRequest
    load,           \* what each loader has read, and when it began
    loads,          \* history: how many times the cache was filled, per pair
    quote,          \* the rate each request goes by, and the row it is from
    book,           \* TigerBeetle: totals of every account
    posted,         \* TigerBeetle: the legs of each request that were executed
    moved,          \* TigerBeetle: what each leg of a request moved
    metadata,       \* PostgreSQL: legs of requests with a committed row in transfer_metadata
    input,          \* what each request asks for
    pc,             \* the await each request is at
    noted,          \* the legs whose rows the session of a request holds
    reply           \* how the service call of a request ended

cacheVars == <<cache, lock, load, loads>>
tbVars == <<book, posted, moved>>
bankVars == <<tbVars, metadata, noted>>
vars == <<now, since, cacheVars, quote, bankVars, input, pc, reply>>

-----------------------------------------------------------------------------
Pairs == {p \in Currencies \X Currencies : p[1] # p[2]}
Time == 0 .. MaxTime

RateRows == [pair : Pairs, rate : Nat \ {0}, effective : Nat]
Entries == [row : Rows, expires : Nat]
Quotes == [rate : Nat, row : Rows \cup {NoRow}]
Loads == [row : Rows \cup {NoRow}, began : Time]
Idle == [row |-> NoRow, began |-> 0]

\* rate is 0 when the client leaves it to the bank.
InputRecords ==
    [pair : Pairs, debit : Customers, credit : Customers, amount : Nat, rate : Nat]

\* FXRequest.validate.
Valid(i) == i.debit # i.credit /\ i.amount > 0

Legs == {"sell", "buy"}
Phases == {"new", "lock", "load", "loaded", "validate", "execute", "record", "commit", "done"}

Refusals == {"ErrNotFound", "ErrInvalidAccount", "ErrAccountClosed", "ErrAccountFrozen",
             "ErrLiquidityPoolUnavailable", "ErrServiceUnavailable", "ValidationError",
             "RuntimeError"}
Replies == {"none", "posted", "ValueError", "CommitError"} \cup Refusals

\* exchange_rates is unique by pair and effective_at.
ASSUME RatesAssumption ==
    /\ Rows \subseteq RateRows /\ OpeningRows \subseteq Rows
    /\ \A x, y \in Rows : x.pair = y.pair /\ x.effective = y.effective => x = y
    /\ NoRow \notin Rows \cup Int /\ NoEntry \notin Entries /\ NoQuote \notin Quotes

ASSUME ExchangeAssumption ==
    /\ IsFiniteSet(TbAccounts) /\ IsFiniteSet(Requests) /\ NoRequest \notin Requests
    /\ LedgerOf \in [TbAccounts -> Currencies]
    /\ AccountStatus \in [Customers -> {"active", "frozen", "closed"}]
    /\ Scale \in [Currencies -> Nat] /\ RateScale \in Nat
    /\ {TTL, MaxLoad, MaxTime} \subseteq Nat /\ TTL > 0
    /\ OpeningBook \in Books
    /\ Inputs \subseteq InputRecords /\ \A i \in Inputs : Valid(i)
    /\ NoInput \notin Inputs /\ NoAccount \notin Customers

Init ==
    /\ now = 0
    /\ since = [x \in Rows |-> IF x \in OpeningRows THEN 0 ELSE NoRow]
    /\ cache = [p \in Pairs |-> NoEntry]
    /\ lock = [p \in Pairs |-> NoRequest]
    /\ load = [r \in Requests |-> Idle]
    /\ loads = [p \in Pairs |-> 0]
    /\ quote = [r \in Requests |-> NoQuote]
    /\ book = OpeningBook
    /\ posted = [r \in Requests |-> {}]
    /\ moved = [r \in Requests |-> [leg \in Legs |-> 0]]
    /\ metadata = {}
    /\ input = [r \in Requests |-> NoInput]
    /\ pc = [r \in Requests |-> "new"]
    /\ noted = [r \in Requests |-> {}]
    /\ reply = [r \in Requests |-> "none"]

-----------------------------------------------------------------------------
Live(r) == pc[r] \notin {"new", "done"}

GoTo(r, phase) == pc' = [pc EXCEPT ![r] = phase] /\ UNCHANGED reply

\* The service call of r ends with answer a, and its session is rolled back.
EndWith(r, a) ==
    /\ pc' = [pc EXCEPT ![r] = "done"]
    /\ reply' = [reply EXCEPT ![r] = a]

-----------------------------------------------------------------------------
(* The clock and the rates. *)

Published == {x \in Rows : since[x] # NoRow}
Loading(r) == pc[r] \in {"load", "loaded"}

\* Time passes while somebody may still take a rate, but no loader is kept waiting for
\* longer than MaxLoad.
Tick ==
    /\ now < MaxTime
    /\ \E r \in Requests : pc[r] \in {"new", "lock"} \/ Loading(r)
    /\ \A r \in Requests : Loading(r) => now < load[r].began + MaxLoad
    /\ now' = now + 1
    /\ UNCHANGED <<since, cacheVars, quote, bankVars, input, pc, reply>>

\* Somebody inserts a row: nothing keeps effective_at from lying behind that of
\* another row, or ahead of the clock.
Publish(x) ==
    /\ x \notin Published
    /\ since' = [since EXCEPT ![x] = now]
    /\ UNCHANGED <<now, cacheVars, quote, bankVars, input, pc, reply>>

\* get_latest: ORDER BY effective_at DESC LIMIT 1.
IsLatest(p, x) ==
    /\ x \in Published /\ x.pair = p
    /\ \A y \in Published : y.pair = p => y.effective <= x.effective
NoRate(p) == \A x \in Published : x.pair # p

-----------------------------------------------------------------------------
(* Taking a rate. *)

Pair(r) == input[r].pair

\* Mutant: an entry is never too old.
HitForever(p) == cache[p] # NoEntry

\* FXCache.get finds an entry that has not expired.
Hit(p) == cache[p] # NoEntry /\ now <= cache[p].expires

\* FXCache.get on a miss drops an expired entry.
Missed(p) == cache' = [cache EXCEPT ![p] = IF Hit(p) THEN @ ELSE NoEntry]

\* r goes by this rate from now on.
Take(r, rate, row) == quote' = [quote EXCEPT ![r] = [rate |-> rate, row |-> row]]
TakeCached(r, p) == Take(r, cache[p].row.rate, cache[p].row)

\* r holds the lock of p and its loader asks PostgreSQL.
BeginLoad(r, p) ==
    /\ lock' = [lock EXCEPT ![p] = r]
    /\ load' = [load EXCEPT ![r] = [row |-> NoRow, began |-> now]]
    /\ GoTo(r, "load")

\* Mutant: there is no lock, and every miss loads.
MustWaitNever(p) == FALSE

\* The lock of p is held, or was promised to requests that wait for it.
MustWait(p) ==
    lock[p] # NoRequest \/ \E q \in Requests : pc[q] = "lock" /\ Pair(q) = p

\* A request passes validate() and takes a rate: its own, or one from the cache, or
\* it becomes the loader, or it waits for the lock.  Up to there nothing is awaited.
Submit(r) ==
    /\ pc[r] = "new"
    /\ \E i \in Inputs :
          /\ input' = [input EXCEPT ![r] = i]
          /\ IF i.rate > 0
             THEN Take(r, i.rate, NoRow) /\ GoTo(r, "validate") /\ UNCHANGED <<cache, lock, load>>
             ELSE /\ Missed(i.pair)
                  /\ IF Hit(i.pair)
                     THEN TakeCached(r, i.pair) /\ GoTo(r, "validate") /\ UNCHANGED <<lock, load>>
                     ELSE /\ IF MustWait(i.pair)
                             THEN GoTo(r, "lock") /\ UNCHANGED <<lock, load>>
                             ELSE BeginLoad(r, i.pair)
                          /\ UNCHANGED quote
    /\ UNCHANGED <<now, since, loads, bankVars>>

\* Mutant: whoever gets the lock loads, without another look at the cache.
AcquireLockBlindly(r) ==
    /\ pc[r] = "lock" /\ lock[Pair(r)] = NoRequest
    /\ BeginLoad(r, Pair(r))
    /\ UNCHANGED <<now, since, cache, loads, quote, bankVars, input>>

\* A request that waited gets the lock and looks again: only if the rate is still
\* missing it loads.
AcquireLock(r) ==
    /\ pc[r] = "lock" /\ lock[Pair(r)] = NoRequest
    /\ Missed(Pair(r))
    /\ IF Hit(Pair(r))
       THEN TakeCached(r, Pair(r)) /\ GoTo(r, "validate") /\ UNCHANGED <<lock, load>>
       ELSE BeginLoad(r, Pair(r)) /\ UNCHANGED quote
    /\ UNCHANGED <<now, since, loads, bankVars, input>>

\* PostgreSQL reads the latest row for the loader, or finds none.
ReadLatest(r) ==
    /\ pc[r] = "load"
    /\ \E row \in Rows \cup {NoRow} :
          /\ IF row = NoRow THEN NoRate(Pair(r)) ELSE IsLatest(Pair(r), row)
          /\ load' = [load EXCEPT ![r].row = row]
    /\ GoTo(r, "loaded")
    /\ UNCHANGED <<now, since, cache, lock, loads, quote, bankVars, input>>

\* The lock of r's pair, if r holds it, is free; r loads no longer.
EndLoad(r) ==
    /\ lock' = [p \in Pairs |-> IF lock[p] = r THEN NoRequest ELSE lock[p]]
    /\ load' = [load EXCEPT ![r] = Idle]

\* Mutant: that a pair has no rate is cached as well.
FinishLoadOfNothing(r) ==
    /\ pc[r] = "loaded"
    /\ LET row == load[r].row
       IN /\ cache' = [cache EXCEPT ![Pair(r)] = [row |-> row, expires |-> now + TTL]]
          /\ IF row = NoRow THEN EndWith(r, "ErrNotFound") /\ UNCHANGED quote
             ELSE Take(r, row.rate, row) /\ GoTo(r, "validate")
    /\ EndLoad(r)
    /\ UNCHANGED <<now, since, loads, bankVars, input>>

\* The answer reaches the loader: the rate is kept from now on for TTL, the lock is
\* free, and the request goes by that rate.  Or there is no rate.
FinishLoad(r) ==
    /\ pc[r] = "loaded"
    /\ LET p == Pair(r)
           row == load[r].row
       IN IF row = NoRow
          THEN EndWith(r, "ErrNotFound") /\ UNCHANGED <<cache, loads, quote>>
          ELSE /\ cache' = [cache EXCEPT ![p] = [row |-> row, expires |-> now + TTL]]
               /\ loads' = [loads EXCEPT ![p] = @ + 1]
               /\ Take(r, row.rate, row)
               /\ GoTo(r, "validate")
    /\ EndLoad(r)
    /\ UNCHANGED <<now, since, bankVars, input>>

\* Mutant: the lock is not given back when the loader raises.
LoadFailsLocked(r) ==
    /\ Loading(r)
    /\ EndWith(r, "ErrNotFound")
    /\ load' = [load EXCEPT ![r] = Idle]
    /\ UNCHANGED <<now, since, cache, lock, loads, quote, bankVars, input>>

\* The loader raises, whatever it is: the lock is free, the next request tries again.
LoadFails(r) ==
    /\ Loading(r)
    /\ EndWith(r, "ErrNotFound")
    /\ EndLoad(r)
    /\ UNCHANGED <<now, since, cache, loads, quote, bankVars, input>>

-----------------------------------------------------------------------------
(* Validation. *)

TbId(u) == UuidToUint128(u)

\* The bytes by which the row of an account is looked up.
RowKey(u) == u

Pool(c) == TbId(TbIdToUuid(PoolRow[c]))

\* The rows of both accounts are judged, the selling account's first.
Status(u) == IF RowKey(u) \in Customers THEN AccountStatus[RowKey(u)] ELSE "missing"
StatusRefusal(i) ==
    LET bad == IF Status(i.debit) # "active" THEN Status(i.debit) ELSE Status(i.credit)
    IN CASE bad = "missing" -> "ErrInvalidAccount"
         [] bad = "closed" -> "ErrAccountClosed"
         [] bad = "frozen" -> "ErrAccountFrozen"
         [] OTHER -> "none"

\* Everything a request is refused for once it has its rate.
Refusal(i) ==
    LET sold == i.pair[1]
        bought == i.pair[2]
    IN IF NoAccount \in {PoolRow[sold], PoolRow[bought]} THEN "ErrLiquidityPoolUnavailable"
       ELSE IF ~({TbId(i.debit), TbId(i.credit)} \subseteq TbAccounts) THEN "ErrInvalidAccount"
       ELSE IF ~({Pool(sold), Pool(bought)} \subseteq TbAccounts) THEN "ErrLiquidityPoolUnavailable"
       ELSE IF LedgerOf[TbId(i.debit)] # sold \/ LedgerOf[TbId(i.credit)] # bought
            THEN "ValidationError"
       ELSE IF LedgerOf[Pool(sold)] # sold \/ LedgerOf[Pool(bought)] # bought
            THEN "ErrLiquidityPoolUnavailable"
       ELSE StatusRefusal(i)

\* Look the pools and both accounts up.  Nothing these awaits read changes, so
\* they are one step.
Validate(r) ==
    /\ pc[r] = "validate"
    /\ LET refusal == Refusal(input[r])
       IN IF refusal = "none" THEN GoTo(r, "execute") ELSE EndWith(r, refusal)
    /\ UNCHANGED <<now, since, cacheVars, quote, bankVars, input>>

-----------------------------------------------------------------------------
(* The two legs. *)

\* 10 ** k, as a function of which something can be proved.
Tens[k \in Nat] == IF k = 0 THEN 1 ELSE 10 * Tens[k - 1]

\* Mutant: the digits of the result that do not fit are cut off.
BuyAmountCut(p, n, rate) == (n * rate) \div Tens[Scale[p[1]] + RateScale - Scale[p[2]]]

\* _compute_buy_amount: n units of the sold currency at an integer rate, rounded
\* half up to a unit of the bought one.
BuyAmount(p, n, rate) ==
    LET surplus == Scale[p[1]] + RateScale - Scale[p[2]]
    IN IF surplus > 0 THEN (n * rate + Tens[surplus] \div 2) \div Tens[surplus]
       ELSE n * rate * Tens[-surplus]

Amount(r, leg) == IF leg = "sell" THEN input[r].amount
                  ELSE BuyAmount(Pair(r), input[r].amount, quote[r].rate)
LegLedger(r, leg) == IF leg = "sell" THEN Pair(r)[1] ELSE Pair(r)[2]
Debit(r, leg) == IF leg = "sell" THEN TbId(input[r].debit) ELSE Pool(Pair(r)[2])
Credit(r, leg) == IF leg = "sell" THEN Pool(Pair(r)[1]) ELSE TbId(input[r].credit)

\* The legs that carry the flag 0x10.
Balancing == {"sell"}

\* What the account that a leg debits has left.
Left(r, leg) ==
    LET totals == book[Debit(r, leg)] IN totals.cp - totals.dp - totals.dpnd

\* What a leg moves: a balancing leg takes no more than what is left, which may be
\* nothing.
Taken(r, leg) ==
    CASE leg \notin Balancing \/ Left(r, leg) >= Amount(r, leg) -> Amount(r, leg)
      [] OTHER -> IF Left(r, leg) > 0 THEN Left(r, leg) ELSE 0

\* No two legs share an account, so each is judged by the book as it was, whatever
\* becomes of the other.
LegFits(r, leg) ==
    Accepts(book, LegLedger(r, leg), Debit(r, leg), Credit(r, leg), Taken(r, leg))
Outcome(r) == {leg \in Legs : LegFits(r, leg)}

\* The totals after a leg, if it is executed.
Applied(b, r, leg) ==
    IF leg \in Outcome(r) THEN Post(b, Debit(r, leg), Credit(r, leg), Taken(r, leg)) ELSE b

\* What TigerBeetle makes of the two legs of r, for good.
TbApply(r) ==
    /\ posted' = [posted EXCEPT ![r] = Outcome(r)]
    /\ moved' = [moved EXCEPT ![r] =
                    [leg \in Legs |-> IF leg \in Outcome(r) THEN Taken(r, leg) ELSE 0]]
    /\ book' = Applied(Applied(book, r, "sell"), r, "buy")

\* Mutant: the result of the batch is not looked at.
ExecuteTbUnchecked(r) ==
    /\ pc[r] = "execute"
    /\ TbApply(r)
    /\ GoTo(r, "record")
    /\ UNCHANGED <<now, since, cacheVars, quote, metadata, noted, input>>

\* Send both legs.  If any of them is turned down the repository raises; the other
\* one stays.
ExecuteTb(r) ==
    /\ pc[r] = "execute"
    /\ TbApply(r)
    /\ IF posted'[r] = Legs THEN GoTo(r, "record") ELSE EndWith(r, "ValueError")
    /\ UNCHANGED <<now, since, cacheVars, quote, metadata, noted, input>>

-----------------------------------------------------------------------------
(* The end of a request, and what may happen to it on the way. *)

\* A background task writes a row per leg and hides its failures: both rows, one, or
\* none are in the session when it is committed, and none of them counts when a
\* failed statement has spoilt its transaction.
WriteMetadata(r) ==
    /\ pc[r] = "record"
    /\ \E legs \in SUBSET Legs : noted' = [noted EXCEPT ![r] = legs]
    /\ GoTo(r, "commit")
    /\ UNCHANGED <<now, since, cacheVars, quote, tbVars, metadata, input>>

\* The session of r is over.
Forget(r) == noted' = [noted EXCEPT ![r] = {}]

MetadataOf(r) == {r} \X noted[r]

\* The caller commits the session of r.
Commit(r) ==
    /\ pc[r] = "commit"
    /\ metadata' = metadata \cup MetadataOf(r)
    /\ Forget(r)
    /\ EndWith(r, "posted")
    /\ UNCHANGED <<now, since, cacheVars, quote, tbVars, input>>

\* The commit raises; it may have been made all the same.
CommitFails(r) ==
    /\ pc[r] = "commit"
    /\ metadata' \in {metadata, metadata \cup MetadataOf(r)}
    /\ Forget(r)
    /\ EndWith(r, "CommitError")
    /\ UNCHANGED <<now, since, cacheVars, quote, tbVars, input>>

\* A look-up raises: that of a pool, of the accounts in TigerBeetle, or of a row.
DependencyFails(r) ==
    /\ pc[r] = "validate"
    /\ \E a \in {"ErrLiquidityPoolUnavailable", "ErrServiceUnavailable", "RuntimeError"} :
          EndWith(r, a)
    /\ UNCHANGED <<now, since, cacheVars, quote, bankVars, input>>

\* The request dies with no answer, and leaves its lock on the way out; or the
\* TigerBeetle call itself raises.  A batch already sent may still be executed.
Die(r) ==
    /\ Live(r)
    /\ \/ UNCHANGED tbVars
       \/ pc[r] = "execute" /\ TbApply(r)
    /\ pc' = [pc EXCEPT ![r] = "done"]
    /\ EndLoad(r)
    /\ Forget(r)
    /\ UNCHANGED <<now, since, cache, loads, quote, metadata, input, reply>>

-----------------------------------------------------------------------------
\* What a request does by itself; only its waiting for the lock depends on others.
Proceed(r) ==
    \/ AcquireLock(r) \/ ReadLatest(r) \/ FinishLoad(r) \/ Validate(r) \/ ExecuteTb(r)
    \/ WriteMetadata(r) \/ Commit(r)

Next ==
    \/ Tick
    \/ \E x \in Rows : Publish(x)
    \/ \E r \in Requests :
          \/ Submit(r) \/ Proceed(r) \/ LoadFails(r) \/ CommitFails(r)
          \/ DependencyFails(r) \/ Die(r)

Spec == Init /\ [][Next]_vars

\* asyncio resumes a coroutine whose await is over, and both databases answer or
\* fail.  Nothing is assumed of clients, of failures, or of the publishing of rates.
FairSpec == Spec /\ \A r \in Requests : WF_vars(Proceed(r))
-----------------------------------------------------------------------------
(* What must hold in every state. *)

\* Every variable has its shape: a pair is cached with a row and a time of expiry, and
\* a request is at nothing but an await the service has.
TypeOK ==
    /\ now \in Time
    /\ since \in [Rows -> Time \cup {NoRow}]
    /\ cache \in [Pairs -> Entries \cup {NoEntry}]
    /\ lock \in [Pairs -> Requests \cup {NoRequest}]
    /\ load \in [Requests -> Loads]
    /\ loads \in [Pairs -> Nat]
    /\ quote \in [Requests -> Quotes \cup {NoQuote}]
    /\ book \in Books
    /\ posted \in [Requests -> SUBSET Legs]
    /\ moved \in [Requests -> [Legs -> Nat]]
    /\ metadata \subseteq Requests \X Legs
    /\ input \in [Requests -> Inputs \cup {NoInput}]
    /\ pc \in [Requests -> Phases]
    /\ noted \in [Requests -> SUBSET Legs]
    /\ reply \in [Requests -> Replies]

\* However many requests miss the cache together, PostgreSQL's rate of a pair is taken
\* over once in TTL: those that waited for the lock find what the first one loaded.
StampedeProtected == \A p \in Pairs : loads[p] <= 1 + now \div (TTL + 1)

\* What is bought is worth what the client offers at the rate the request went by, to
\* within half a unit of the bought currency, by exact arithmetic: both worths are
\* counted in a unit of which any amount of either currency, at any rate, is a whole
\* number.
FairPrice ==
    \A r \in Requests : "buy" \in posted[r] =>
        LET unit == Tens[Scale[Pair(r)[1]] + RateScale]
            owed == input[r].amount * quote[r].rate * Tens[Scale[Pair(r)[2]]]
            paid == moved[r]["buy"] * unit
        IN -unit <= 2 * (owed - paid) /\ 2 * (owed - paid) <= unit

\* A client who is told "posted" had both legs executed, at a rate it named or the
\* bank had published; one refused by name had none, and one told of a TigerBeetle
\* error not both: one of them may have been executed.  And a row of
\* transfer_metadata is about a leg that was executed.
AnswersTruthful ==
    /\ \A m \in metadata : m[2] \in posted[m[1]]
    /\ \A r \in Requests :
          /\ reply[r] = "posted" =>
                 /\ posted[r] = Legs
                 /\ \/ input[r].rate = quote[r].rate
                    \/ quote[r].row \in Published /\ quote[r].row.pair = Pair(r)
          /\ reply[r] \in Refusals => posted[r] = {}
          /\ reply[r] = "ValueError" => posted[r] # Legs

-----------------------------------------------------------------------------
(* What a step may never do, and what must happen. *)

\* r takes a rate of the bank in this step.
Takes(r) == quote[r] = NoQuote /\ quote'[r] # NoQuote /\ quote'[r].row # NoRow

\* Nobody takes a rate of the bank that was replaced longer ago than the cache keeps it
\* and a loader takes: nothing invalidates the cache, only time does.
RatesFresh ==
    [][\A r \in Requests : Takes(r) =>
          \A x \in Published :
              x.pair = quote'[r].row.pair /\ x.effective > quote'[r].row.effective =>
                  now <= since[x] + TTL + MaxLoad]_vars

\* A process never goes back to an older rate: who takes a rate of the bank now takes
\* none that another request of the same pair has left behind, although a loader may be
\* slow and a newer rate be published while it reads.
RatesInOrder ==
    [][\A q, r \in Requests :
          /\ quote[q] # NoQuote /\ quote[q].row # NoRow
          /\ Takes(r) /\ quote'[r].row.pair = quote[q].row.pair
          => quote'[r].row.effective >= quote[q].row.effective]_vars

\* Every exchange ends, also one that waits for a loader that fails or dies.
EveryExchangeEnds == \A r \in Requests : Live(r) ~> pc[r] = "done"
=============================================================================
