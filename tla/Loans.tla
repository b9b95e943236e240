------------------------------- MODULE Loans -------------------------------
(***************************************************************************)
(* Disbursing and repaying loans (service/loan_service.py) over the rows of *)
(* loan_details and loan_repayments (store/postgres/loan_repo.py), with    *)
(* the job that marks loans in arrears.                                    *)
(*                                                                         *)
(* A repayment with interest and a fee is up to three transfers in one     *)
(* TigerBeetle batch.  The service means to tie them together, but the     *)
(* flag it sets, 0x10, is TigerBeetle's balancing_debit (linked is 0x01):  *)
(* each leg stands alone, and all but the last move less when the payer    *)
(* has less.  The row of                                                   *)
(* the loan is updated after the money has moved, in a session whose       *)
(* transaction the first failing statement spoils without stopping the     *)
(* request: PostgreSQL then rolls back at the commit, and says nothing.    *)
(***************************************************************************)
EXTENDS Uint128, Ledger, Totals

CONSTANTS
    Requests,       \* requests; each one sends at most one batch of transfers
    Customers,      \* UUID bytes of the accounts that have a row in accounts
    Category,       \* Category[u]: the category of the product of an account
    AccountStatus,  \* AccountStatus[u]: accounts.status, which no request here changes
    Currencies,     \* currencies, each standing for its TigerBeetle ledger
    SystemRow,      \* SystemRow[leg][currency]: bytes kept in system_accounts, or NoAccount
    OpeningLoan,    \* OpeningLoan[u]: the row of loan_details when the run starts
    Inputs,         \* what clients may ask for: bounds the requests of a run
    OpeningBook,    \* TigerBeetle's totals when the run starts
    NoAccount, NoInput, NoWrite

VARIABLES
    book,           \* TigerBeetle: totals of every account
    posted,         \* TigerBeetle: the legs of each request that were executed
    moved,          \* TigerBeetle: what each leg of a request moved
    loan,           \* PostgreSQL: committed rows of loan_details
    repayments,     \* PostgreSQL: requests with a committed row in loan_repayments
    metadata,       \* PostgreSQL: requests with committed rows in transfer_metadata
    input,          \* what each request asks for
    pc,             \* the await each request is at
    write,          \* the row of its loan as the session of a request has updated it
    noted,          \* the requests whose session holds rows of transfer_metadata
    spoilt,         \* the requests whose transaction PostgreSQL will not commit
    reply           \* how the service call of a request ended

pgVars == <<loan, repayments, metadata>>
tbVars == <<book, posted, moved>>
vars == <<tbVars, pgVars, input, pc, write, noted, spoilt, reply>>

-----------------------------------------------------------------------------
Kinds == {"disburse", "repay", "repayWithFee"}
Repaying == Kinds \ {"disburse"}

LegNames == {"principal", "interest", "fee"}
Position == [principal |-> 1, interest |-> 2, fee |-> 3]
Nothing == [n \in LegNames |-> 0]

InputRecords ==
    [kind : Kinds, currency : Currencies, loan : Customers, deposit : Customers,
     amount : [LegNames -> Nat]]

\* The validate() methods: two accounts, money for the loan itself, and only a
\* repayment with a fee has anything else to pay.
Valid(i) ==
    /\ i.loan # i.deposit
    /\ i.amount["principal"] > 0
    /\ i.kind # "repayWithFee" => i.amount["interest"] = 0 /\ i.amount["fee"] = 0

LoanRows == [outstanding : Nat, status : {"active", "in_arrears", "closed"},
             disbursed : BOOLEAN]

Phases == {"new", "validate", "execute", "update", "record", "commit", "done"}

\* Refusals raised by name before any money moves; RuntimeError stands for every
\* exception that is not one of the named errors.
Refusals == {"ErrInvalidAccount", "ErrAccountClosed", "ErrAccountFrozen",
             "ErrLiquidityPoolUnavailable", "ErrServiceUnavailable",
             "ValidationError", "RuntimeError"}

Replies == {"none", "posted", "ValueError", "ErrRepaymentExceedsOutstanding",
            "CommitError"} \cup Refusals

Granted == {u \in Customers : Category[u] = "loan"}

ASSUME LoansAssumption ==
    /\ IsFiniteSet(TbAccounts) /\ IsFiniteSet(Requests)
    /\ LedgerOf \in [TbAccounts -> Currencies]
    /\ Category \in [Customers -> {"loan", "deposit"}]
    /\ AccountStatus \in [Customers -> {"active", "frozen", "closed"}]
    /\ OpeningLoan \in [Granted -> LoanRows]
    /\ \A u \in Granted : OpeningLoan[u].status = "closed" <=> OpeningLoan[u].outstanding = 0
    /\ OpeningBook \in Books
    /\ \A u \in Customers : u = [n \in ByteIndex |-> u[n]]
    /\ NoInput \notin InputRecords /\ NoWrite \notin LoanRows /\ NoAccount \notin Customers

ASSUME LoanInputsAssumption ==
    Inputs \subseteq InputRecords /\ \A i \in Inputs : Valid(i)

Init ==
    /\ book = OpeningBook
    /\ posted = [r \in Requests |-> {}]
    /\ moved = [r \in Requests |-> Nothing]
    /\ loan = OpeningLoan
    /\ repayments = {}
    /\ metadata = {}
    /\ input = [r \in Requests |-> NoInput]
    /\ pc = [r \in Requests |-> "new"]
    /\ write = [r \in Requests |-> NoWrite]
    /\ noted = {}
    /\ spoilt = {}
    /\ reply = [r \in Requests |-> "none"]

-----------------------------------------------------------------------------
Live(r) == pc[r] \notin {"new", "done"}

GoTo(r, phase) == pc' = [pc EXCEPT ![r] = phase] /\ UNCHANGED reply

\* The service call of r ends with answer a, and its session is rolled back.
EndWith(r, a) ==
    /\ pc' = [pc EXCEPT ![r] = "done"]
    /\ reply' = [reply EXCEPT ![r] = a]

\* A client's request passes validate() and reaches its first await.
Submit(r) ==
    /\ pc[r] = "new"
    /\ \E i \in Inputs : input' = [input EXCEPT ![r] = i]
    /\ GoTo(r, "validate")
    /\ UNCHANGED <<tbVars, pgVars, write, noted, spoilt>>

-----------------------------------------------------------------------------
(* Validation. *)

TbId(u) == UuidToUint128(u)

\* The bytes by which the row of an account is looked up: back from TigerBeetle's.
RowKey(u) == Uint128ToUuid(TbId(u))

TbRefuses(i) == \E u \in {i.loan, i.deposit} :
    TbId(u) \notin TbAccounts \/ LedgerOf[TbId(u)] # i.currency
RowMissing(i) == ~({RowKey(i.loan), RowKey(i.deposit)} \subseteq Customers)
StatusOf(u) == AccountStatus[RowKey(u)]

\* The legs a request pays: legs of nothing are left out of the batch.
Asked(i) == {n \in LegNames : i.amount[n] > 0}

SystemAccountMissing(i) ==
    \E n \in Asked(i) \ {"principal"} : SystemRow[n][i.currency] = NoAccount

\* The statuses are judged the loan's first, whatever the order of the reads.
StatusRefusal(i) ==
    LET bad == IF StatusOf(i.loan) # "active" THEN StatusOf(i.loan) ELSE StatusOf(i.deposit)
    IN CASE bad = "closed" -> "ErrAccountClosed"
         [] bad = "frozen" -> "ErrAccountFrozen"
         [] OTHER -> "none"

\* Everything a request is refused for before it sends its batch.
Refusal(i) ==
    IF TbRefuses(i) \/ RowMissing(i) THEN "ErrInvalidAccount"
    ELSE IF StatusRefusal(i) # "none" THEN StatusRefusal(i)
    ELSE IF Category[RowKey(i.loan)] # "loan" \/ Category[RowKey(i.deposit)] # "deposit"
         THEN "ValidationError"
    ELSE IF SystemAccountMissing(i) THEN "ErrLiquidityPoolUnavailable"
    ELSE "none"

\* Look both accounts and the system accounts up.  Nothing these awaits read
\* changes, so they are one step.
Validate(r) ==
    /\ pc[r] = "validate"
    /\ LET refusal == Refusal(input[r])
       IN IF refusal = "none" THEN GoTo(r, "execute") ELSE EndWith(r, refusal)
    /\ UNCHANGED <<tbVars, pgVars, input, write, noted, spoilt>>

-----------------------------------------------------------------------------
(* The TigerBeetle batch. *)

Debit(i) == TbId(IF i.kind = "disburse" THEN i.loan ELSE i.deposit)

Credit(i, n) ==
    CASE n # "principal" -> TbId(TbIdToUuid(SystemRow[n][i.currency]))
      [] n = "principal" /\ i.kind = "disburse" -> TbId(i.deposit)
      [] OTHER -> TbId(i.loan)

\* Mutant: the flag of the last leg is not cleared.
BalancingAll(i) == Asked(i)

\* The legs that carry the flag 0x10: all of a batch but its last.
Balancing(i) == {n \in Asked(i) : \E m \in Asked(i) : Position[m] > Position[n]}

\* What the account that i debits has left on book b.
Left(b, i) == b[Debit(i)].cp - b[Debit(i)].dp - b[Debit(i)].dpnd

\* What leg n of i moves on book b: a balancing leg takes no more than what is left,
\* which may be nothing.
Taken(b, i, n) ==
    CASE n \notin Balancing(i) \/ Left(b, i) >= i.amount[n] -> i.amount[n]
      [] OTHER -> IF Left(b, i) > 0 THEN Left(b, i) ELSE 0

\* The batch with leg n of i behind it: executed if it is asked for and accepted,
\* whatever became of the legs before it.
Leg(batch, i, n) ==
    LET took == Taken(batch.book, i, n)
    IN IF n \in Asked(i) /\ Accepts(batch.book, i.currency, Debit(i), Credit(i, n), took)
       THEN [book |-> Post(batch.book, Debit(i), Credit(i, n), took),
             posted |-> batch.posted \cup {n},
             moved |-> [batch.moved EXCEPT ![n] = took]]
       ELSE batch

\* What TigerBeetle makes of the batch of i, one leg after the other.
Batch(i) ==
    LET opening == [book |-> book, posted |-> {}, moved |-> Nothing]
    IN Leg(Leg(Leg(opening, i, "principal"), i, "interest"), i, "fee")

\* The batch of r is executed, for good.
TbApply(r) ==
    /\ book' = Batch(input[r]).book
    /\ posted' = [posted EXCEPT ![r] = Batch(input[r]).posted]
    /\ moved' = [moved EXCEPT ![r] = Batch(input[r]).moved]

\* Mutant: the repository returns its results and nobody looks at them.
ExecuteTbUnchecked(r) ==
    /\ pc[r] = "execute"
    /\ TbApply(r)
    /\ GoTo(r, "update")
    /\ UNCHANGED <<pgVars, input, write, noted, spoilt>>

\* Send the batch.  If any leg of it is turned down the repository raises; the
\* legs that were executed stay.
ExecuteTb(r) ==
    /\ pc[r] = "execute"
    /\ TbApply(r)
    /\ IF posted'[r] = Asked(input[r]) THEN GoTo(r, "update") ELSE EndWith(r, "ValueError")
    /\ UNCHANGED <<pgVars, input, write, noted, spoilt>>

-----------------------------------------------------------------------------
(* The row of the loan. *)

\* The session of some request has updated the row of loan u and is still open.
Locked(u) == \E q \in Requests : /\ pc[q] \in {"record", "commit"}
                                 /\ write[q] # NoWrite
                                 /\ input[q].loan = u

\* set_disbursed_at, which nothing keeps from being done again.  Its failure is
\* logged, and may have spoilt the transaction.
SetDisbursedAt(r) ==
    /\ pc[r] = "update" /\ input[r].kind = "disburse"
    /\ LET u == input[r].loan
       IN \/ /\ ~Locked(u)
             /\ write' = [write EXCEPT ![r] = [loan[u] EXCEPT !.disbursed = TRUE]]
             /\ UNCHANGED spoilt
          \/ /\ spoilt' \in {spoilt, spoilt \cup {r}}
             /\ UNCHANGED write
    /\ GoTo(r, "record")
    /\ UNCHANGED <<tbVars, pgVars, input, noted>>

\* The row after a repayment of n.
Reduced(row, n) ==
    [row EXCEPT !.outstanding = @ - n,
                !.status = IF row.outstanding - n <= 0 THEN "closed" ELSE @]

\* Mutant: the row is read and written back without its lock.
ReduceUnlocked(r) ==
    /\ pc[r] = "update" /\ input[r].kind \in Repaying
    /\ LET u == input[r].loan
           n == input[r].amount["principal"]
       IN IF loan[u].outstanding >= n
          THEN /\ write' = [write EXCEPT ![r] = Reduced(loan[u], n)]
               /\ GoTo(r, "record")
          ELSE EndWith(r, "ErrRepaymentExceedsOutstanding") /\ UNCHANGED write
    /\ UNCHANGED <<tbVars, pgVars, input, noted, spoilt>>

\* Mutant: nothing compares the repayment with what is outstanding.
ReduceUnguarded(r) ==
    /\ pc[r] = "update" /\ input[r].kind \in Repaying
    /\ ~Locked(input[r].loan)
    /\ write' = [write EXCEPT ![r] =
                    Reduced(loan[input[r].loan], input[r].amount["principal"])]
    /\ GoTo(r, "record")
    /\ UNCHANGED <<tbVars, pgVars, input, noted, spoilt>>

\* UPDATE loan_details SET outstanding = outstanding - n ... WHERE outstanding >= n,
\* with the row of loan_repayments: it waits for the lock of the row, then judges
\* the row as last committed.  The money has moved by then, whatever it finds.
ReduceOutstanding(r) ==
    /\ pc[r] = "update" /\ input[r].kind \in Repaying
    /\ ~Locked(input[r].loan)
    /\ LET u == input[r].loan
           n == input[r].amount["principal"]
       IN IF loan[u].outstanding >= n
          THEN /\ write' = [write EXCEPT ![r] = Reduced(loan[u], n)]
               /\ GoTo(r, "record")
          ELSE EndWith(r, "ErrRepaymentExceedsOutstanding") /\ UNCHANGED write
    /\ UNCHANGED <<tbVars, pgVars, input, noted, spoilt>>

\* Mutant: the job takes no notice of a row somebody is updating.
UpdateArrearsUnlocked(u) ==
    /\ loan[u].outstanding > 0 /\ loan[u].status = "active"
    /\ loan' = [loan EXCEPT ![u].status = "in_arrears"]
    /\ UNCHANGED <<tbVars, repayments, metadata, input, pc, write, noted, spoilt, reply>>

\* update_arrears_status on the row of a loan whose payment is overdue; its
\* statement waits for rows being updated and judges them as committed.
UpdateArrearsStatus(u) ==
    /\ ~Locked(u)
    /\ loan[u].outstanding > 0 /\ loan[u].status \notin {"closed", "in_arrears"}
    /\ loan' = [loan EXCEPT ![u].status = "in_arrears"]
    /\ UNCHANGED <<tbVars, repayments, metadata, input, pc, write, noted, spoilt, reply>>

-----------------------------------------------------------------------------
(* The end of a request, and what may happen to it on the way. *)

\* The metadata of the legs is written by a background task that hides its
\* failures: all or some rows, or none, are in the session when it is committed,
\* and a statement that failed has spoilt the transaction.
WriteMetadata(r) ==
    /\ pc[r] = "record"
    /\ \/ noted' = noted \cup {r} /\ UNCHANGED spoilt
       \/ spoilt' \in {spoilt, spoilt \cup {r}} /\ UNCHANGED noted
    /\ GoTo(r, "commit")
    /\ UNCHANGED <<tbVars, pgVars, input, write>>

\* The session of r is over.
Forget(r) ==
    /\ write' = [write EXCEPT ![r] = NoWrite]
    /\ noted' = noted \ {r}
    /\ spoilt' = spoilt \ {r}

\* What the session of r wrote becomes visible.
Publish(r) ==
    /\ loan' = IF write[r] = NoWrite THEN loan
               ELSE [loan EXCEPT ![input[r].loan] = write[r]]
    /\ repayments' = IF write[r] # NoWrite /\ input[r].kind \in Repaying
                     THEN repayments \cup {r} ELSE repayments
    /\ metadata' = metadata \cup (noted \cap {r})

\* The caller commits the session of r: a spoilt transaction is rolled back without
\* a word, and the answer stays what it was.
Commit(r) ==
    /\ pc[r] = "commit"
    /\ IF r \in spoilt THEN UNCHANGED pgVars ELSE Publish(r)
    /\ Forget(r)
    /\ pc' = [pc EXCEPT ![r] = "done"]
    /\ reply' = [reply EXCEPT ![r] = "posted"]
    /\ UNCHANGED <<tbVars, input>>

\* The commit raises and the caller gets an error; it may have been made all the same.
CommitFails(r) ==
    /\ pc[r] = "commit"
    /\ \/ UNCHANGED pgVars
       \/ r \notin spoilt /\ Publish(r)
    /\ Forget(r)
    /\ EndWith(r, "CommitError")
    /\ UNCHANGED <<tbVars, input>>

\* A look-up raises, or the update of the row by a repayment does.  The driver
\* also raises at the fetchone() of an INSERT that returns no rows.
DependencyFails(r) ==
    /\ \/ pc[r] = "validate" /\ EndWith(r, "RuntimeError")
       \/ pc[r] = "validate" /\ EndWith(r, "ErrServiceUnavailable")
       \/ pc[r] = "update" /\ input[r].kind \in Repaying /\ EndWith(r, "ErrServiceUnavailable")
    /\ UNCHANGED <<tbVars, pgVars, input, write, noted, spoilt>>

\* The request dies with no answer, or the TigerBeetle call itself raises; a
\* batch already sent may still be executed.
Die(r) ==
    /\ Live(r)
    /\ \/ UNCHANGED tbVars
       \/ pc[r] = "execute" /\ TbApply(r)
    /\ pc' = [pc EXCEPT ![r] = "done"]
    /\ Forget(r)
    /\ UNCHANGED <<pgVars, input, reply>>

-----------------------------------------------------------------------------
Next ==
    \/ \E r \in Requests :
          \/ Submit(r) \/ Validate(r) \/ ExecuteTb(r) \/ SetDisbursedAt(r)
          \/ ReduceOutstanding(r) \/ WriteMetadata(r) \/ Commit(r) \/ CommitFails(r)
          \/ DependencyFails(r) \/ Die(r)
    \/ \E u \in Granted : UpdateArrearsStatus(u)

Spec == Init /\ [][Next]_vars
-----------------------------------------------------------------------------
(* What must hold in every state. *)

\* Every variable has its shape: no loan has less than nothing outstanding, and a
\* request is at nothing but an await the services have.
TypeOK ==
    /\ book \in Books
    /\ posted \in [Requests -> SUBSET LegNames]
    /\ moved \in [Requests -> [LegNames -> Nat]]
    /\ loan \in [Granted -> LoanRows]
    /\ repayments \subseteq Requests
    /\ metadata \subseteq Requests
    /\ input \in [Requests -> Inputs \cup {NoInput}]
    /\ pc \in [Requests -> Phases]
    /\ write \in [Requests -> LoanRows \cup {NoWrite}]
    /\ noted \subseteq Requests
    /\ spoilt \subseteq Requests
    /\ reply \in [Requests -> Replies]

RepaidOn(u) == {r \in repayments : input[r].loan = u}
Principals == [r \in Requests |-> IF input[r] = NoInput THEN 0
                                  ELSE input[r].amount["principal"]]

\* What is outstanding on a loan is what was at first, less the repayments on record:
\* repayments that wait for each other's row lose none of them, and take no more
\* than there is.  The loan is closed exactly when nothing is outstanding.
OutstandingExplained ==
    \A u \in Granted :
        /\ loan[u].outstanding + Total(RepaidOn(u), Principals) = OpeningLoan[u].outstanding
        /\ loan[u].status = "closed" <=> loan[u].outstanding = 0

\* Every leg of r was executed.  A leg that carries the flag may have moved less than
\* was asked, but not where the payer may not overdraw: what it leaves is nothing,
\* and the last leg, which asks for more, is turned down.
Settled(r) ==
    LET i == input[r]
    IN /\ posted[r] = Asked(i)
       /\ Debit(i) \in DebitsCapped \/ Balancing(i) = {} => moved[r] = i.amount

\* PostgreSQL never runs ahead of TigerBeetle: a repayment on record, a metadata row
\* and a disbursement date are about money that has moved, although the session
\* that writes them learns of the transfer from an exception alone.
RecordsBehindMoney ==
    /\ \A r \in repayments : Settled(r) /\ input[r].kind \in Repaying
    /\ \A r \in metadata : Settled(r)
    /\ \A u \in Granted : loan[u].disbursed /\ ~OpeningLoan[u].disbursed =>
           \E r \in Requests : /\ input[r] # NoInput /\ input[r].kind = "disburse"
                               /\ input[r].loan = u /\ Settled(r)

\* A client who is told that money was posted had every leg of it executed, for what
\* was asked unless its account may be overdrawn.  One who was refused before the
\* batch was sent had nothing moved, and one who was told of a TigerBeetle error
\* did not have the whole batch: some of its legs may have been executed.
AnswersTruthful ==
    \A r \in Requests :
        /\ reply[r] = "posted" => Settled(r)
        /\ reply[r] \in Refusals \ {"ErrServiceUnavailable"} => posted[r] = {}
        /\ reply[r] = "ValueError" => posted[r] # Asked(input[r])

-----------------------------------------------------------------------------
(* What a step may never do. *)

\* A loan goes from active into arrears or to closed, from arrears to closed, and
\* nowhere from there: a repayment writes the status back that it read with the
\* row, and the arrears job must not get in between.
LoanStatusForward ==
    [][\A u \in Granted : loan'[u].status # loan[u].status =>
          <<loan[u].status, loan'[u].status>> \in
              {<<"active", "in_arrears">>, <<"active", "closed">>,
               <<"in_arrears", "closed">>}]_vars

-----------------------------------------------------------------------------
(* What the code or its documentation says and the code does not do. *)

\* domain/errors.py: "Repayment amount exceeds outstanding balance - maps to 400":
\* the client's fault, so nothing was done.  The money has moved by then.
RefusedRepaymentsMoveNothing ==
    \A r \in Requests : reply[r] = "ErrRepaymentExceedsOutstanding" => posted[r] = {}

\* LoanService.repay_with_fee: "Uses TigerBeetle's linked transfer mechanism for atomic
\* execution: all legs succeed or all fail together."  The flag is not the linked
\* flag, and part of a repayment stays that was turned down.
AllLegsOrNone ==
    \A r \in Requests :
        posted[r] # {} => posted[r] = Asked(input[r])
=============================================================================
