------------------------------ MODULE Payments ------------------------------
(***************************************************************************)
(* The money-moving requests of the core bank, interleaved: deposits,      *)
(* withdrawals and transfers (service/transfer_service.py), fees           *)
(* (service/fee_service.py), holds with their capture and void             *)
(* (service/hold_service.py) and the closing of an account                 *)
(* (AccountService.close).                                                 *)
(*                                                                         *)
(* A request is a coroutine that awaits PostgreSQL and TigerBeetle in      *)
(* turn; every await lets other requests run, so each one is an action.    *)
(* The TigerBeetle call takes effect at once and for good; rows written to *)
(* PostgreSQL stay in the session of the request until it is committed.    *)
(* A request may die at any await (a crash of the process, a cancelled     *)
(* connection).                                                            *)
(***************************************************************************)
EXTENDS Uint128, Ledger, Totals

CONSTANTS
    Requests,       \* requests; each one names at most one transfer, its own id
    Customers,      \* UUID bytes of the accounts that have a row in accounts
    Currencies,     \* currencies, each standing for its TigerBeetle ledger
    SystemRow,      \* SystemRow[code][currency]: bytes kept in system_accounts
    TransferCode,   \* TransferCode[kind]: the code a hold, capture or void is sent with
    Inputs,         \* what clients may ask for: bounds the requests of a run
    OpeningBook,    \* TigerBeetle's totals when the run starts
    OpeningStatus,  \* the status column of accounts when the run starts
    NoAccount, NoHold, NoInput, NoTransfer, NoLeg, NoRow

VARIABLES
    book,           \* TigerBeetle: totals of every account
    transfers,      \* TigerBeetle: transfer created by each request
    status,         \* PostgreSQL: accounts.status
    metadata,       \* PostgreSQL: committed rows of transfer_metadata
    input,          \* what each request asks for
    pc,             \* the await each request is at
    leg,            \* the transfer dict a request has built so far
    staged,         \* the uncommitted row in the session of a request
    reply,          \* how the service call of a request ended
    closedBefore    \* history: accounts already closed when a request arrived

tbVars == <<book, transfers>>
pgVars == <<status, metadata>>
vars == <<book, transfers, status, metadata, input, pc, leg, staged, reply,
          closedBefore>>

-----------------------------------------------------------------------------
(* What flows through the services. *)

\* The transfer types _resolve_explicit serves: "payment" stands for all but
\* "transfer", whose validation alone insists on two different accounts.
ExplicitKinds == {"transfer", "payment"}
TransferKinds == ExplicitKinds \cup {"deposit", "withdrawal"}
SimpleKinds == TransferKinds \cup {"fee"}
CreatingKinds == SimpleKinds \cup {"hold"}
ResolvingKinds == {"capture", "void"}
Kinds == CreatingKinds \cup ResolvingKinds \cup {"close"}

ASSUME CodesAssumption == TransferCode \in [{"hold"} \cup ResolvingKinds -> Nat]

SystemCodes == {"CASH_VAULT", "INC_FEE_SERVICE"}

InputRecords ==
    [kind : Kinds, currency : Currencies, debit : Customers \cup {NoAccount},
     credit : Customers \cup {NoAccount}, amount : Nat,
     hold : Requests \cup {NoHold}, expires : BOOLEAN]

\* The validate() methods: which requests reach the services' first await.
Valid(i) ==
    /\ i.kind \in {"deposit"} \cup ExplicitKinds \cup {"hold"} => i.credit # NoAccount
    /\ i.kind \in {"withdrawal", "fee", "close"} \cup ExplicitKinds \cup {"hold"} =>
           i.debit # NoAccount
    /\ i.kind \in {"transfer", "hold"} => i.debit # i.credit
    /\ i.kind \in CreatingKinds => i.amount > 0
    /\ i.kind \in ResolvingKinds => i.hold # NoHold

Legs == [debit : TbAccounts, credit : TbAccounts, ledger : Currencies, amount : Nat]

TransferRecords ==
    [kind : {"simple", "pending", "post", "void"},
     debit : TbAccounts, credit : TbAccounts, amount : Nat,
     pendingId : Requests \cup {NoHold},
     state : {"posted", "pending", "voided", "expired"}]

MetadataRows ==
    [transfer : Requests, account : Customers, correlation : Requests \cup {NoHold}]

Phases == {"new", "debit", "credit", "lookup", "hold", "execute", "record",
           "balance", "update", "commit", "done"}

Successes == {"posted", "pending", "captured", "voided", "closed"}

\* Refusals the services raise by name, before anything is written.
Refusals == {"ErrInvalidAccount", "ErrAccountClosed", "ErrAccountFrozen",
             "ErrNotFound", "ErrPendingHolds", "ErrNonZeroBalance",
             "ErrServiceUnavailable", "ValidationError", "RuntimeError"}

Replies == {"none"} \cup Successes \cup Refusals
               \cup {"ErrInsufficientBalance", "ValueError", "CommitError"}

StatusValues == {"active", "frozen", "closed"}

ASSUME CustomersAssumption ==
    /\ IsFiniteSet(TbAccounts) /\ IsFiniteSet(Requests)
    /\ \A u \in Customers : UuidToUint128(u) \in TbAccounts
    /\ NoAccount \notin Customers /\ NoHold \notin Requests
    /\ NoTransfer \notin TransferRecords /\ NoLeg \notin Legs
    /\ NoRow \notin MetadataRows /\ NoInput \notin InputRecords

\* UUIDs are unique, in either byte order.
ASSUME IdsApartAssumption ==
    \A u, v \in Customers : UuidToUint128(u) = v => u = v

ASSUME InputsAssumption ==
    Inputs \subseteq InputRecords /\ \A i \in Inputs : Valid(i)

ASSUME OpeningAssumption ==
    /\ LedgerOf \in [TbAccounts -> Currencies]
    /\ OpeningStatus \in [Customers -> StatusValues]
    /\ OpeningBook \in [TbAccounts -> [dp : Nat, dpnd : {0}, cp : Nat, cpnd : {0}]]
    /\ \A a \in DebitsCapped : OpeningBook[a].dp <= OpeningBook[a].cp
    /\ \A a \in CreditsCapped : OpeningBook[a].cp <= OpeningBook[a].dp
    /\ \A l \in Currencies :
           LET held == {a \in TbAccounts : LedgerOf[a] = l}
           IN Total(held, [a \in held |-> OpeningBook[a].dp]) =
              Total(held, [a \in held |-> OpeningBook[a].cp])

-----------------------------------------------------------------------------
Init ==
    /\ book = OpeningBook
    /\ transfers = [r \in Requests |-> NoTransfer]
    /\ status = OpeningStatus
    /\ metadata = {}
    /\ input = [r \in Requests |-> NoInput]
    /\ pc = [r \in Requests |-> "new"]
    /\ leg = [r \in Requests |-> NoLeg]
    /\ staged = [r \in Requests |-> NoRow]
    /\ reply = [r \in Requests |-> "none"]
    /\ closedBefore = [r \in Requests |-> {}]

-----------------------------------------------------------------------------
(* Requests arriving and ending. *)

Live(r) == pc[r] \notin {"new", "done"}

FirstPhase(kind) ==
    CASE kind = "deposit" -> "credit"
      [] kind = "hold" -> "lookup"
      [] kind \in ResolvingKinds -> "hold"
      [] OTHER -> "debit"

\* A client's request passes validate() and reaches its first await.
Submit(r) ==
    /\ pc[r] = "new"
    /\ \E i \in Inputs :
          /\ input' = [input EXCEPT ![r] = i]
          /\ pc' = [pc EXCEPT ![r] = FirstPhase(i.kind)]
    /\ closedBefore' = [closedBefore EXCEPT ![r] =
                            {u \in Customers : status[u] = "closed"}]
    /\ UNCHANGED <<tbVars, pgVars, leg, staged, reply>>

\* The service call of r ends with answer a, and its session is rolled back.
EndWith(r, a) ==
    /\ pc' = [pc EXCEPT ![r] = "done"]
    /\ reply' = [reply EXCEPT ![r] = a]

\* The service call of r goes on to its next await.
GoTo(r, phase) ==
    /\ pc' = [pc EXCEPT ![r] = phase]
    /\ UNCHANGED reply

-----------------------------------------------------------------------------
(* Validation against PostgreSQL. *)

\* AccountRepo.get_by_tb_account_id: the status behind a key, if it has a row.
RowExists(key) == key \in Customers

\* TransferService and FeeService look the row up by the bytes of the UUID;
\* HoldService by the identifier it has already turned into TigerBeetle form.
RowKey(kind, u) == IF kind = "hold" THEN UuidToUint128(u) ELSE u

\* Mutant: the services read the row and forget to look for "closed".
AccountRefusalOpen(key) ==
    CASE ~RowExists(key) -> "ErrInvalidAccount"
      [] status[key] = "frozen" -> "ErrAccountFrozen"
      [] OTHER -> "none"

\* What _get_account_metadata (and HoldService._validate_accounts) make of a row.
AccountRefusal(key) ==
    CASE ~RowExists(key) -> "ErrInvalidAccount"
      [] status[key] = "closed" -> "ErrAccountClosed"
      [] status[key] = "frozen" -> "ErrAccountFrozen"
      [] OTHER -> "none"

\* AccountService.close wants the row and only refuses an account closed before.
CloseRefusal(u) ==
    CASE ~RowExists(u) -> "ErrNotFound"
      [] status[u] = "closed" -> "ErrAccountClosed"
      [] OTHER -> "none"

AfterDebit(kind) ==
    CASE kind \in ExplicitKinds \cup {"hold"} -> "credit"
      [] kind = "close" -> "balance"
      [] OTHER -> "lookup"

\* Validate the row of the account to debit (or, for close, to close).
CheckDebit(r) ==
    /\ pc[r] = "debit"
    /\ LET i == input[r]
           refusal == IF i.kind = "close" THEN CloseRefusal(i.debit)
                      ELSE AccountRefusal(RowKey(i.kind, i.debit))
       IN IF refusal = "none" THEN GoTo(r, AfterDebit(i.kind))
          ELSE EndWith(r, refusal)
    /\ UNCHANGED <<tbVars, pgVars, input, leg, staged, closedBefore>>

\* Validate the row of the account to credit.
CheckCredit(r) ==
    /\ pc[r] = "credit"
    /\ LET i == input[r]
           refusal == AccountRefusal(RowKey(i.kind, i.credit))
       IN IF refusal = "none"
          THEN GoTo(r, IF i.kind = "hold" THEN "execute" ELSE "lookup")
          ELSE EndWith(r, refusal)
    /\ UNCHANGED <<tbVars, pgVars, input, leg, staged, closedBefore>>

-----------------------------------------------------------------------------
(* Validation against TigerBeetle. *)

SystemUuid(code, currency) == TbIdToUuid(SystemRow[code][currency])

DebitUuid(i) == IF i.kind = "deposit" THEN SystemUuid("CASH_VAULT", i.currency)
                ELSE i.debit
CreditUuid(i) ==
    CASE i.kind = "withdrawal" -> SystemUuid("CASH_VAULT", i.currency)
      [] i.kind = "fee" -> SystemUuid("INC_FEE_SERVICE", i.currency)
      [] OTHER -> i.credit

\* Mutant: the transfer takes its ledger from the accounts, not from the request.
LookupAccountsAnyLedger(r) ==
    /\ pc[r] = "lookup"
    /\ LET i == input[r]
           d == UuidToUint128(DebitUuid(i))
           c == UuidToUint128(CreditUuid(i))
       IN IF {d, c} \subseteq TbAccounts /\ LedgerOf[d] = LedgerOf[c]
          THEN /\ leg' = [leg EXCEPT ![r] = [debit |-> d, credit |-> c,
                              ledger |-> LedgerOf[d], amount |-> i.amount]]
               /\ GoTo(r, IF i.kind = "hold" THEN "debit" ELSE "execute")
          ELSE EndWith(r, "ErrInvalidAccount") /\ UNCHANGED leg
    /\ UNCHANGED <<tbVars, pgVars, input, staged, closedBefore>>

\* Look both accounts up in TigerBeetle and build the transfer.  The lookups
\* read only the existence and the ledger of an account, which never change.
LookupAccounts(r) ==
    /\ pc[r] = "lookup"
    /\ LET i == input[r]
           d == UuidToUint128(DebitUuid(i))
           c == UuidToUint128(CreditUuid(i))
           refusal ==
               CASE ~({d, c} \subseteq TbAccounts) -> "ErrInvalidAccount"
                 [] i.kind = "hold" /\ {LedgerOf[d], LedgerOf[c]} # {i.currency} ->
                        "ErrInvalidAccount"
                 [] LedgerOf[d] # LedgerOf[c] -> "ValidationError"
                 [] OTHER -> "none"
       IN IF refusal = "none"
          THEN /\ leg' = [leg EXCEPT ![r] = [debit |-> d, credit |-> c,
                              ledger |-> i.currency, amount |-> i.amount]]
               /\ GoTo(r, IF i.kind = "hold" THEN "debit" ELSE "execute")
          ELSE EndWith(r, refusal) /\ UNCHANGED leg
    /\ UNCHANGED <<tbVars, pgVars, input, staged, closedBefore>>

\* Mutant: capture ignores the amount it was asked for.
CaptureAmountAll(i, held) == held

\* capture: a positive amount is taken as it is, zero means the whole hold.
CaptureAmount(i, held) == IF i.amount > 0 THEN i.amount ELSE held

\* Look the hold up in TigerBeetle and build the capture or the void from it.
\* The state of the hold is not looked at, and it may change before the next step.
LookupHold(r) ==
    /\ pc[r] = "hold"
    /\ LET i == input[r]
           hold == transfers[i.hold]
           n == IF i.kind = "void" THEN hold.amount ELSE CaptureAmount(i, hold.amount)
       IN CASE hold = NoTransfer -> EndWith(r, "ErrNotFound") /\ UNCHANGED leg
            [] hold # NoTransfer /\ n \notin 1 .. hold.amount ->
                   EndWith(r, "ValidationError") /\ UNCHANGED leg
            [] OTHER ->
                   /\ leg' = [leg EXCEPT ![r] = [debit |-> hold.debit, credit |-> hold.credit,
                                  ledger |-> LedgerOf[hold.debit], amount |-> n]]
                   /\ GoTo(r, "execute")
    /\ UNCHANGED <<tbVars, pgVars, input, staged, closedBefore>>

-----------------------------------------------------------------------------
(* The TigerBeetle call. *)

\* The hold a capture or void names is still pending.
Pending(h) == transfers[h] # NoTransfer /\ transfers[h].state = "pending"

\* TigerBeetle's verdict on the transfer of r.  A capture or a void must have the
\* code of its hold ("pending transfer has different code" in errors.py).
TbAccepts(r) ==
    IF input[r].kind \in ResolvingKinds
    THEN /\ Pending(input[r].hold)
         /\ TransferCode[input[r].kind] = TransferCode["hold"]
         /\ leg[r].amount <= transfers[input[r].hold].amount
    ELSE Accepts(book, leg[r].ledger, leg[r].debit, leg[r].credit, leg[r].amount)

\* The record TigerBeetle keeps of the transfer of r.
TransferOf(r) ==
    [kind |-> CASE input[r].kind = "hold" -> "pending"
                [] input[r].kind = "capture" -> "post"
                [] input[r].kind = "void" -> "void"
                [] OTHER -> "simple",
     debit |-> leg[r].debit, credit |-> leg[r].credit, amount |-> leg[r].amount,
     pendingId |-> IF input[r].kind \in ResolvingKinds THEN input[r].hold ELSE NoHold,
     state |-> IF input[r].kind = "hold" THEN "pending" ELSE "posted"]

\* Mutant: a void is sent with the flag of a capture.
TbApplyVoidPosts(r) ==
    LET l == leg[r]
        h == input[r].hold
    IN CASE input[r].kind = "hold" ->
              /\ book' = Reserve(book, l.debit, l.credit, l.amount)
              /\ transfers' = [transfers EXCEPT ![r] = TransferOf(r)]
         [] input[r].kind \in ResolvingKinds ->
              /\ book' = PostPending(book, l.debit, l.credit, transfers[h].amount, l.amount)
              /\ transfers' = [transfers EXCEPT ![r] = TransferOf(r), ![h].state = "posted"]
         [] OTHER ->
              /\ book' = Post(book, l.debit, l.credit, l.amount)
              /\ transfers' = [transfers EXCEPT ![r] = TransferOf(r)]

\* The flags of the transfer dict decide what it does: none posts at once, 0x02
\* reserves, 0x04 posts a reservation and 0x08 gives it back.
TbApply(r) ==
    LET l == leg[r]
        h == input[r].hold
    IN CASE input[r].kind = "hold" ->
              /\ book' = Reserve(book, l.debit, l.credit, l.amount)
              /\ transfers' = [transfers EXCEPT ![r] = TransferOf(r)]
         [] input[r].kind = "capture" ->
              /\ book' = PostPending(book, l.debit, l.credit, transfers[h].amount, l.amount)
              /\ transfers' = [transfers EXCEPT ![r] = TransferOf(r), ![h].state = "posted"]
         [] input[r].kind = "void" ->
              /\ book' = Release(book, l.debit, l.credit, transfers[h].amount)
              /\ transfers' = [transfers EXCEPT ![r] = TransferOf(r), ![h].state = "voided"]
         [] OTHER ->
              /\ book' = Post(book, l.debit, l.credit, l.amount)
              /\ transfers' = [transfers EXCEPT ![r] = TransferOf(r)]

\* TransferRepo.create_transfers turns any status but created into a ValueError
\* whose text names the status by number alone.
RejectionText == {"TB transfer", "failed", "status", "error_code"}

\* Mutant: what is not recognised becomes an error no caller handles.
MapTbErrorUnknown(text) == "TransferError"

\* map_tb_error looks for the names of TigerBeetle statuses in that text.
MapTbError(text) ==
    CASE "AccountNotFound" \in text -> "ErrInvalidAccount"
      [] "AlreadyClosed" \in text -> "ErrAccountClosed"
      [] {"ExceedsCredits", "ExceedsDebits"} \cap text # {} -> "ErrInsufficientBalance"
      [] "SameLedger" \in text -> "ValidationError"
      [] "network" \in text -> "ErrServiceUnavailable"
      [] OTHER -> "ValueError"

SuccessOf(kind) ==
    CASE kind = "hold" -> "pending" [] kind = "capture" -> "captured"
      [] kind = "void" -> "voided" [] OTHER -> "posted"

\* Mutant: the result of create_transfers is not looked at.
ExecuteTbUnchecked(r) ==
    /\ pc[r] = "execute"
    /\ IF TbAccepts(r) THEN TbApply(r) ELSE UNCHANGED tbVars
    /\ pc' = [pc EXCEPT ![r] = "record"]
    /\ reply' = [reply EXCEPT ![r] = SuccessOf(input[r].kind)]
    /\ UNCHANGED <<pgVars, input, leg, staged, closedBefore>>

\* TigerBeetle executes or rejects the transfer of r.
ExecuteTb(r) ==
    /\ pc[r] = "execute"
    /\ IF TbAccepts(r)
       THEN /\ TbApply(r)
            /\ pc' = [pc EXCEPT ![r] = "record"]
            /\ reply' = [reply EXCEPT ![r] = SuccessOf(input[r].kind)]
       ELSE EndWith(r, MapTbError(RejectionText)) /\ UNCHANGED tbVars
    /\ UNCHANGED <<pgVars, input, leg, staged, closedBefore>>

-----------------------------------------------------------------------------
(* The PostgreSQL half of the dual write. *)

\* The key under which a service finds the customer its metadata row is about.
MetadataKey(r) ==
    CASE input[r].kind = "deposit" -> input[r].credit
      [] input[r].kind \in SimpleKinds \ {"deposit"} -> input[r].debit
      [] OTHER -> leg[r].debit

\* The row written for the transfer of r.  Captures and voids carry the id of
\* their hold as correlation.
MetadataRow(r) ==
    [transfer |-> r, account |-> MetadataKey(r),
     correlation |-> IF input[r].kind \in ResolvingKinds THEN input[r].hold ELSE NoHold]

\* The insert is fire-and-forget: it may fail without a word, and it does fail
\* on its foreign key when the customer's row was not found.
WriteMetadata(r) ==
    /\ pc[r] = "record"
    /\ \/ RowExists(MetadataKey(r)) /\ staged' = [staged EXCEPT ![r] = MetadataRow(r)]
       \/ UNCHANGED staged
    /\ GoTo(r, "commit")
    /\ UNCHANGED <<tbVars, pgVars, input, leg, closedBefore>>

-----------------------------------------------------------------------------
(* AccountService.close after its first read. *)

\* The balances are read from TigerBeetle and judged.
CheckBalance(r) ==
    /\ pc[r] = "balance"
    /\ LET e == book[UuidToUint128(input[r].debit)]
       IN CASE e.dpnd > 0 \/ e.cpnd > 0 -> EndWith(r, "ErrPendingHolds")
            [] ~(e.dpnd > 0 \/ e.cpnd > 0) /\ e.dp # e.cp -> EndWith(r, "ErrNonZeroBalance")
            [] OTHER -> GoTo(r, "update")
    /\ UNCHANGED <<tbVars, pgVars, input, leg, staged, closedBefore>>

\* Mutant: the session of a closing is committed but never given back.
LocksRowForEver(r, u) ==
    /\ pc[r] \in {"commit", "done"}
    /\ input[r].kind = "close" /\ reply[r] = "closed" /\ input[r].debit = u

\* r holds the row lock of account u: it has updated the row and not committed.
LocksRow(r, u) == pc[r] = "commit" /\ input[r].kind = "close" /\ input[r].debit = u

\* UPDATE accounts SET status = 'closed' WHERE status = 'active': it waits for
\* the lock of the row, then judges the row as last committed.
UpdateStatus(r) ==
    /\ pc[r] = "update"
    /\ \A q \in Requests : ~LocksRow(q, input[r].debit)
    /\ IF status[input[r].debit] = "active"
       THEN /\ pc' = [pc EXCEPT ![r] = "commit"]
            /\ reply' = [reply EXCEPT ![r] = "closed"]
       ELSE EndWith(r, "ErrAccountClosed")
    /\ UNCHANGED <<tbVars, pgVars, input, leg, staged, closedBefore>>

-----------------------------------------------------------------------------
(* The end of a request, and what may happen to it on the way. *)

\* The caller commits the session of r, and its writes become visible.
Commit(r) ==
    /\ pc[r] = "commit"
    /\ status' = IF input[r].kind = "close"
                 THEN [status EXCEPT ![input[r].debit] = "closed"] ELSE status
    /\ metadata' = IF staged[r] = NoRow THEN metadata ELSE metadata \cup {staged[r]}
    /\ staged' = [staged EXCEPT ![r] = NoRow]
    /\ GoTo(r, "done")
    /\ UNCHANGED <<tbVars, input, leg, closedBefore>>

\* The commit fails: the session is rolled back and the caller gets an error.
CommitFails(r) ==
    /\ pc[r] = "commit"
    /\ staged' = [staged EXCEPT ![r] = NoRow]
    /\ EndWith(r, "CommitError")
    /\ UNCHANGED <<tbVars, pgVars, input, leg, closedBefore>>

\* What a failing read is reported as; RuntimeError stands for every exception
\* that is not one of the named errors.
ReadFailure(r) ==
    IF pc[r] = "lookup" \/ input[r].kind = "hold" THEN "ErrServiceUnavailable"
    ELSE "RuntimeError"

\* A call before the TigerBeetle transfer, or close's own write, raises.
DependencyFails(r) ==
    /\ pc[r] \in {"debit", "credit", "lookup", "hold", "balance", "update"}
    /\ EndWith(r, ReadFailure(r))
    /\ UNCHANGED <<tbVars, pgVars, input, leg, staged, closedBefore>>

\* The request dies with no answer, or the TigerBeetle call itself raises.  TBClient
\* runs its calls in threads, which are not cancelled: a transfer already sent may
\* still be executed.
Die(r) ==
    /\ Live(r)
    /\ \/ UNCHANGED tbVars
       \/ pc[r] = "execute" /\ TbAccepts(r) /\ TbApply(r)
    /\ pc' = [pc EXCEPT ![r] = "done"]
    /\ reply' = [reply EXCEPT ![r] = "none"]
    /\ staged' = [staged EXCEPT ![r] = NoRow]
    /\ UNCHANGED <<pgVars, input, leg, closedBefore>>

\* TigerBeetle gives back a reservation whose timeout has passed.  A hold
\* created with a timeout of zero never expires.
ExpireHold(h) ==
    /\ Pending(h) /\ input[h].expires
    /\ book' = Release(book, transfers[h].debit, transfers[h].credit, transfers[h].amount)
    /\ transfers' = [transfers EXCEPT ![h].state = "expired"]
    /\ UNCHANGED <<pgVars, input, pc, leg, staged, reply, closedBefore>>

-----------------------------------------------------------------------------
Proceed(r) ==
    \/ CheckDebit(r) \/ CheckCredit(r) \/ LookupAccounts(r) \/ LookupHold(r)
    \/ ExecuteTb(r) \/ WriteMetadata(r) \/ CheckBalance(r) \/ UpdateStatus(r)
    \/ Commit(r)

Next ==
    \E r \in Requests :
        \/ Submit(r) \/ CheckDebit(r) \/ CheckCredit(r) \/ LookupAccounts(r)
        \/ LookupHold(r) \/ ExecuteTb(r) \/ WriteMetadata(r) \/ CheckBalance(r)
        \/ UpdateStatus(r) \/ Commit(r) \/ CommitFails(r) \/ DependencyFails(r)
        \/ Die(r) \/ ExpireHold(r)

Spec == Init /\ [][Next]_vars

\* asyncio resumes every coroutine whose await is over.  Nothing obliges a client
\* to ask.
Fairness == \A r \in Requests : WF_vars(Proceed(r))

FairSpec == Spec /\ Fairness

-----------------------------------------------------------------------------
(* What must hold in every state. *)

\* Every variable has its shape: totals of every account, at most one transfer
\* per request, and for a request nothing but a wait the services have.
TypeOK ==
    /\ book \in Books
    /\ transfers \in [Requests -> TransferRecords \cup {NoTransfer}]
    /\ status \in [Customers -> StatusValues]
    /\ metadata \subseteq MetadataRows
    /\ input \in [Requests -> Inputs \cup {NoInput}]
    /\ pc \in [Requests -> Phases]
    /\ leg \in [Requests -> Legs \cup {NoLeg}]
    /\ staged \in [Requests -> MetadataRows \cup {NoRow}]
    /\ reply \in [Requests -> Replies]
    /\ closedBefore \in [Requests -> SUBSET Customers]

Amounts == [r \in Requests |-> IF transfers[r] = NoTransfer THEN 0
                               ELSE transfers[r].amount]
PostedOn(side, a) == {r \in Requests : /\ transfers[r] # NoTransfer
                                       /\ transfers[r].kind \in {"simple", "post"}
                                       /\ transfers[r][side] = a}
OpenOn(side, a) == {r \in Requests : Pending(r) /\ transfers[r][side] = a}

\* The totals of every account are the opening ones plus its posted transfers
\* and captures, and its reservations are exactly the holds still pending: a hold
\* captured for less than its amount gives the whole reservation back, once.  So
\* debits equal credits on every ledger, as they did at the start.
BookExplained ==
    \A a \in TbAccounts :
        /\ book[a].dp = OpeningBook[a].dp + Total(PostedOn("debit", a), Amounts)
        /\ book[a].cp = OpeningBook[a].cp + Total(PostedOn("credit", a), Amounts)
        /\ book[a].dpnd = Total(OpenOn("debit", a), Amounts)
        /\ book[a].cpnd = Total(OpenOn("credit", a), Amounts)

Resolutions(h) == {r \in Requests : transfers[r] # NoTransfer /\ transfers[r].pendingId = h}

\* A hold is resolved at most once, by a capture of no more than it reserved or
\* by one void, and then neither expires nor is resolved again: capture and void
\* read the hold one await before they act on it, and other requests run between.
OneResolution ==
    \A h \in Requests : \A r \in Resolutions(h) :
        /\ Resolutions(h) = {r}
        /\ transfers[h] # NoTransfer
        /\ transfers[h].kind = "pending"
        /\ transfers[h].state = IF transfers[r].kind = "post" THEN "posted" ELSE "voided"
        /\ transfers[r].amount <= transfers[h].amount
        /\ transfers[r].debit = transfers[h].debit
        /\ transfers[r].credit = transfers[h].credit

Rows == metadata \cup {staged[r] : r \in {q \in Requests : staged[q] # NoRow}}

\* PostgreSQL never knows more than TigerBeetle: a row of transfer_metadata, even
\* an uncommitted one, is about a transfer TigerBeetle has, there is one row per
\* transfer, and it is filed under a customer the transfer debits or credits.
MetadataFollowsTransfer ==
    \A row \in Rows :
        LET t == transfers[row.transfer]
        IN /\ t # NoTransfer
           /\ UuidToUint128(row.account) \in {t.debit, t.credit}
           /\ \A other \in Rows : other.transfer = row.transfer => other = row

AskedAmount(i) == IF i.kind \in CreatingKinds THEN i.amount
                  ELSE IF i.kind = "capture" /\ i.amount > 0 THEN i.amount
                  ELSE transfers[i.hold].amount

\* What a client is told is what happened.  A success names a transfer that
\* TigerBeetle has, for the amount and between the accounts asked for; a refusal,
\* for whatever reason, means that no money moved.
RepliesTruthful ==
    \A r \in Requests :
        LET i == input[r]
            t == transfers[r]
        IN /\ reply[r] \in Successes \ {"closed"} =>
                  /\ t # NoTransfer
                  /\ reply[r] = SuccessOf(i.kind)
                  /\ t.amount = AskedAmount(i)
                  /\ i.kind \in CreatingKinds =>
                         /\ t.debit = UuidToUint128(DebitUuid(i))
                         /\ t.credit = UuidToUint128(CreditUuid(i))
           /\ reply[r] \in Refusals \cup {"ErrInsufficientBalance", "ValueError"} =>
                  t = NoTransfer

\* Money asked for in one currency never moves in another.  For deposits,
\* withdrawals, transfers and fees no service compares the currency of the request
\* with the ledger of the accounts: only the ledger the transfer dict names does.
CurrencyHonoured ==
    \A r \in Requests :
        transfers[r] # NoTransfer /\ input[r].kind \in CreatingKinds =>
            /\ LedgerOf[transfers[r].debit] = input[r].currency
            /\ LedgerOf[transfers[r].credit] = input[r].currency

\* The customers whose money a request that creates a transfer moves.
Named(i) ==
    CASE i.kind = "deposit" -> {i.credit}
      [] i.kind \in {"withdrawal", "fee"} -> {i.debit}
      [] OTHER -> {i.debit, i.credit}

\* Once an account is closed, no deposit, withdrawal, transfer, fee or hold that
\* arrives later moves money into or out of it, or reserves any of it.  TigerBeetle
\* does not know that the account is closed: only the services' reads of
\* accounts.status stand in the way.  Captures and voids read no status: they may
\* still resolve a hold that was there before.
NoLateBusiness ==
    \A r \in Requests :
        transfers[r] # NoTransfer /\ input[r].kind \in CreatingKinds =>
            Named(input[r]) \cap closedBefore[r] = {}

-----------------------------------------------------------------------------
(* What must happen, under FairSpec. *)

\* Every request that reaches a service ends, whichever way: no two closings wait
\* on each other's row, and no request waits for one that died.
EveryRequestEnds == \A r \in Requests : Live(r) ~> pc[r] = "done"

-----------------------------------------------------------------------------
(* What the code or its documentation says and the code does not do. *)

\* AccountService.close: "Close an account after verifying zero balance and no
\* pending holds."  The balance is read an await before the row is updated, and
\* transfers that validated the account earlier may still execute after it.
ClosedAccountsEmpty ==
    \A u \in Customers :
        status[u] = "closed" /\ OpeningStatus[u] # "closed" =>
            LET e == book[UuidToUint128(u)] IN e.dp = e.cp /\ e.dpnd = 0 /\ e.cpnd = 0

\* HoldService.capture: "Posts the reserved funds", and void: "Releases the
\* reserved funds back to the debit account."  Both send another code than the hold
\* was sent with, and TigerBeetle turns them down while the hold is still pending.
OpenHoldsResolvable ==
    \A r \in Requests :
        input[r] # NoInput /\ input[r].kind \in ResolvingKinds /\ reply[r] = "ValueError" =>
            ~Pending(input[r].hold)
=============================================================================
