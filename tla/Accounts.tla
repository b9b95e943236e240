------------------------------ MODULE Accounts ------------------------------
(***************************************************************************)
(* Opening accounts, looking them up and listing them page by page         *)
(* (service/account_service.py, service/balance_service.py,                *)
(* store/postgres/account_repo.py, store/tigerbeetle/account_repo.py).     *)
(*                                                                         *)
(* An opening writes to TigerBeetle first and to three tables of           *)
(* PostgreSQL after it; its number was computed before, under a lock that  *)
(* is gone by then.                                                        *)
(***************************************************************************)
EXTENDS Uint128, FiniteSets, Sequences

CONSTANTS
    Requests,       \* requests, of any processes
    Customers,      \* customers that exist
    Products,       \* product codes that exist
    Product,        \* Product[p]: the row of a product
    Currencies,     \* currencies the domain knows, each standing for its ledger
    Uuids,          \* the UUIDv7s generated in a run, in order: bounds its openings
    Bits,           \* the bits build_account_flags has for history and for either limit
    DefaultLimit,   \* size of a page when none is asked for: 50
    MaxLimit,       \* largest size of a page: 500
    Inputs,         \* what clients may ask for: bounds the requests of a run
    OpeningRows,    \* the accounts PostgreSQL has when the run starts
    OpeningTb,      \* TigerBeetle's accounts then
    NoInput, NoUuid, NoCustomer

VARIABLES
    tb,             \* TigerBeetle: its accounts, by identifier
    rows,           \* PostgreSQL: committed accounts, with their owner and loan row
    nextId,         \* PostgreSQL: the next value of the identity column accounts.id
    made,           \* how many UUIDs were generated
    draft,          \* what an opening has put together, and inserted from "link" on
    cursor,         \* the last id a listing has shown
    page,           \* the rows a read has found and not shown yet
    shown,          \* what a look-up or a listing has shown, in order
    before,         \* history: the ids committed when a request began
    input,          \* what each request asks for
    pc,             \* the await each request is at
    reply           \* how the service call of a request ended

readVars == <<cursor, page, shown>>
vars == <<tb, rows, nextId, made, draft, readVars, before, input, pc, reply>>

-----------------------------------------------------------------------------
Identifiers == [ByteIndex -> 0 .. 255]

\* products: loan is its category, rated that it has an interest rate.
ProductRows ==
    [code : Nat, currency : STRING, loan : BOOLEAN, active : BOOLEAN, rated : BOOLEAN]

\* loan is that the request has a loan field.
Openings == [customer : STRING, product : STRING, loan : BOOLEAN]
Listings == [customer : STRING, limit : Int]
LookUps == [uuid : Identifiers, by : {"AccountService", "BalanceService"}]

Kind(i) == IF "loan" \in DOMAIN i THEN "open" ELSE IF "limit" \in DOMAIN i THEN "list" ELSE "get"

Drafts == [seq : Nat, uuid : Identifiers \cup {NoUuid}, id : Nat,
           owner : Customers \cup {NoCustomer}, loan : BOOLEAN]
Blank == [seq |-> 0, uuid |-> NoUuid, id |-> 0, owner |-> NoCustomer, loan |-> FALSE]

AccountRows == [id : Nat, uuid : Identifiers, product : Products, seq : Nat,
                owner : Customers \cup {NoCustomer}, loan : BOOLEAN]

Totals4 == [dp : Nat, cp : Nat, dpnd : Nat, cpnd : Nat]
NoMoney == [dp |-> 0, cp |-> 0, dpnd |-> 0, cpnd |-> 0]
TbRecords == [ledger : Currencies, capped : {"debits", "credits"}, totals : Totals4]

Phases == {"new", "validate", "sequence", "create", "insert", "link", "loan", "commit",
           "row", "balance", "page", "balances", "done"}
Replies == {"none", "created", "found", "listed", "ErrNotFound", "ErrProductInactive",
            "ValidationError", "RuntimeError", "CommitError"}

\* A code of assets or expenses: its balance is what was debited.
DebitBalance(code) == code \in 1000 .. 1999 \cup 5000 .. 5999

\* build_account_flags: the side that may not outgrow the other one, and the flags.
Capped(code) == IF DebitBalance(code) THEN "debits" ELSE "credits"
Flags(code) == {Bits["history"], Bits[Capped(code)]}

\* What TigerBeetle reads in flags.
Meaning(flags) ==
    {f \in {"linked", "debits", "credits", "history"} :
        CASE f = "linked" -> 1 \in flags
          [] f = "debits" -> 2 \in flags
          [] f = "credits" -> 4 \in flags
          [] f = "history" -> 8 \in flags}

\* It creates no account that is linked to one that does not follow, or limited on both
\* sides.
Creatable(flags) ==
    "linked" \notin Meaning(flags) /\ ~({"debits", "credits"} \subseteq Meaning(flags))

TbId(u) == UuidToUint128(u)

\* The account TigerBeetle is asked to create for a product.
TbRecord(p) == [ledger |-> Product[p].currency, capped |-> Capped(Product[p].code),
                totals |-> NoMoney]

\* The account number of a row: no two of them may be equal.
Prefix(p) == <<Product[p].currency, Product[p].code>>

\* The rows of a prefix are numbered from 1 on, without a gap and without repetition.
NumbersOf(accounts) ==
    \A p \in Products :
        LET mine == {x \in accounts : Prefix(x.product) = Prefix(p)}
        IN {x.seq : x \in mine} = 1 .. Cardinality(mine)

ASSUME AccountsAssumption ==
    /\ Product \in [Products -> ProductRows]
    /\ Bits \in [{"history", "debits", "credits"} -> {1, 2, 4, 8}]
    /\ IsFiniteSet(Requests) /\ Uuids \in [1 .. Cardinality(Requests) -> Identifiers]
    /\ \A m, n \in DOMAIN Uuids : Uuids[m] = Uuids[n] => m = n
    /\ {DefaultLimit, MaxLimit} \subseteq Nat \ {0} /\ DefaultLimit <= MaxLimit
    /\ Inputs \subseteq Openings \cup Listings \cup LookUps
    /\ NoInput \notin Inputs /\ NoUuid \notin Identifiers /\ NoCustomer \notin Customers

ASSUME OpeningAssumption ==
    /\ IsFiniteSet(OpeningRows) /\ OpeningRows \subseteq AccountRows
    /\ \A x \in OpeningRows :
          /\ x.id \in 1 .. Cardinality(OpeningRows)
          /\ \A y \in OpeningRows : x.id = y.id \/ x.uuid = y.uuid => x = y
          /\ \A n \in DOMAIN Uuids : Uuids[n] # x.uuid
          /\ x.owner \in Customers /\ x.loan = Product[x.product].loan
    /\ NumbersOf(OpeningRows)
    /\ OpeningTb \in [{TbId(x.uuid) : x \in OpeningRows} -> TbRecords]
    /\ \A x \in OpeningRows :
          /\ OpeningTb[TbId(x.uuid)].ledger = Product[x.product].currency
          /\ OpeningTb[TbId(x.uuid)].capped = Capped(Product[x.product].code)

Init ==
    /\ tb = OpeningTb
    /\ rows = OpeningRows
    /\ nextId = Cardinality(OpeningRows) + 1
    /\ made = 0
    /\ draft = [r \in Requests |-> Blank]
    /\ cursor = [r \in Requests |-> 0]
    /\ page = [r \in Requests |-> {}]
    /\ shown = [r \in Requests |-> <<>>]
    /\ before = [r \in Requests |-> {}]
    /\ input = [r \in Requests |-> NoInput]
    /\ pc = [r \in Requests |-> "new"]
    /\ reply = [r \in Requests |-> "none"]

-----------------------------------------------------------------------------
Live(r) == pc[r] \notin {"new", "done"}

GoTo(r, phase) == pc' = [pc EXCEPT ![r] = phase] /\ UNCHANGED reply

\* The service call of r ends with answer a, and its session is rolled back.
EndWith(r, a) ==
    /\ pc' = [pc EXCEPT ![r] = "done"]
    /\ reply' = [reply EXCEPT ![r] = a]

\* A request passes the checks of its own fields.
Submit(r) ==
    /\ pc[r] = "new"
    /\ \E i \in Inputs :
          /\ input' = [input EXCEPT ![r] = i]
          /\ GoTo(r, CASE Kind(i) = "open" -> "validate"
                       [] Kind(i) = "list" -> "page"
                       [] OTHER -> "row")
    /\ before' = [before EXCEPT ![r] = {x.id : x \in rows}]
    /\ UNCHANGED <<tb, rows, nextId, made, draft, readVars>>

-----------------------------------------------------------------------------
(* Opening an account. *)

ProductOf(r) == input[r].product

\* Mutant: the error of lookup_currency is not caught.
RefusalUncaught(i) ==
    IF i.product \notin Products \/ i.customer \notin Customers THEN "ValidationError"
    ELSE IF ~Product[i.product].active THEN "ErrProductInactive"
    ELSE IF i.loan # Product[i.product].loan THEN "ValidationError"
    ELSE IF Product[i.product].currency \notin Currencies THEN "ValueError"
    ELSE "none"

\* What an opening is refused for by its product and its customer.
Refusal(i) ==
    IF i.product \notin Products THEN "ValidationError"
    ELSE IF ~Product[i.product].active THEN "ErrProductInactive"
    ELSE IF i.customer \notin Customers THEN "ValidationError"
    ELSE IF i.loan # Product[i.product].loan THEN "ValidationError"
    ELSE IF Product[i.product].currency \notin Currencies THEN "RuntimeError"
    ELSE "none"

\* Look product and customer up.  Nothing these awaits read changes, so they are one
\* step.
Validate(r) ==
    /\ pc[r] = "validate"
    /\ LET refusal == Refusal(input[r])
       IN IF refusal = "none" THEN GoTo(r, "sequence") ELSE EndWith(r, refusal)
    /\ UNCHANGED <<tb, rows, nextId, made, draft, readVars, before, input>>

\* The numbers of a prefix that are committed.
Numbers(prefix) == {x.seq : x \in {y \in rows : Prefix(y.product) = prefix}}

\* COALESCE(MAX(...), 0) + 1.
NextNumber(prefix) ==
    CHOOSE n \in {0} \cup Numbers(prefix) : \A m \in Numbers(prefix) : m <= n

\* next_account_sequence: the advisory lock is free again when its transaction ends,
\* that is, at the end of this step.
NextSequence(r) ==
    /\ pc[r] = "sequence"
    /\ draft' = [draft EXCEPT ![r].seq = NextNumber(Prefix(ProductOf(r))) + 1]
    /\ GoTo(r, "create")
    /\ UNCHANGED <<tb, rows, nextId, made, readVars, before, input>>

\* The account of r is in TigerBeetle, under a new UUID.
TbCreated(r) ==
    tb' = [a \in DOMAIN tb \cup {TbId(Uuids[made + 1])} |->
              IF a \in DOMAIN tb THEN tb[a] ELSE TbRecord(ProductOf(r))]

Generate(r) ==
    /\ made' = made + 1
    /\ draft' = [draft EXCEPT ![r].uuid = Uuids[made + 1]]

\* Create the account in TigerBeetle.
CreateTb(r) ==
    /\ pc[r] = "create"
    /\ Creatable(Flags(Product[ProductOf(r)].code))
    /\ Generate(r)
    /\ TbCreated(r)
    /\ GoTo(r, "insert")
    /\ UNCHANGED <<rows, nextId, readVars, before, input>>

\* Mutant: the result of create_accounts is not looked at.
CreateTbFailsQuietly(r) ==
    /\ pc[r] = "create"
    /\ Generate(r)
    /\ GoTo(r, "insert")
    /\ UNCHANGED <<tb, rows, nextId, readVars, before, input>>

\* TigerBeetle refuses, or the call raises and the account may exist all the same.
CreateTbFails(r) ==
    /\ pc[r] = "create"
    /\ Generate(r)
    /\ \/ UNCHANGED tb
       \/ Creatable(Flags(Product[ProductOf(r)].code)) /\ TbCreated(r)
    /\ EndWith(r, "RuntimeError")
    /\ UNCHANGED <<rows, nextId, readVars, before, input>>

SameNumber(q, r) ==
    /\ Prefix(ProductOf(q)) = Prefix(ProductOf(r))
    /\ draft[q].seq = draft[r].seq

\* q has inserted its row and not ended its session.
Inserted(q) == pc[q] \in {"link", "loan", "commit"}

\* Mutant: account_number is not unique.
NumberTakenNever(r) == FALSE

\* account_number is UNIQUE: there is a committed row with the number of r.
NumberTaken(r) == draft[r].seq \in Numbers(Prefix(ProductOf(r)))

\* Insert the row: PostgreSQL draws an id, which is spent whatever comes of it, waits
\* while an open session holds the same number, and refuses a number that is taken.
Insert(r) ==
    /\ pc[r] = "insert"
    /\ \A q \in Requests : ~(Inserted(q) /\ SameNumber(q, r))
    /\ nextId' = nextId + 1
    /\ IF NumberTaken(r)
       THEN EndWith(r, "RuntimeError") /\ UNCHANGED draft
       ELSE draft' = [draft EXCEPT ![r].id = nextId] /\ GoTo(r, "link")
    /\ UNCHANGED <<tb, rows, made, readVars, before, input>>

\* Insert the relationship with the customer.
Link(r) ==
    /\ pc[r] = "link"
    /\ draft' = [draft EXCEPT ![r].owner = input[r].customer]
    /\ GoTo(r, IF Product[ProductOf(r)].loan THEN "loan" ELSE "commit")
    /\ UNCHANGED <<tb, rows, nextId, made, readVars, before, input>>

\* Insert the row of the loan, if the product says at what rate.
CreateLoan(r) ==
    /\ pc[r] = "loan"
    /\ IF Product[ProductOf(r)].rated
       THEN draft' = [draft EXCEPT ![r].loan = TRUE] /\ GoTo(r, "commit")
       ELSE EndWith(r, "ValidationError") /\ UNCHANGED draft
    /\ UNCHANGED <<tb, rows, nextId, made, readVars, before, input>>

\* The row of r, as it is committed, under the UUID itself.
RowOf(r) == [id |-> draft[r].id, uuid |-> draft[r].uuid, product |-> ProductOf(r),
             seq |-> draft[r].seq, owner |-> draft[r].owner, loan |-> draft[r].loan]

\* The caller commits the session of r.
Commit(r) ==
    /\ pc[r] = "commit"
    /\ rows' = rows \cup {RowOf(r)}
    /\ EndWith(r, "created")
    /\ UNCHANGED <<tb, nextId, made, draft, readVars, before, input>>

\* The commit raises; it may have been made all the same.
CommitFails(r) ==
    /\ pc[r] = "commit"
    /\ rows' \in {rows, rows \cup {RowOf(r)}}
    /\ EndWith(r, "CommitError")
    /\ UNCHANGED <<tb, nextId, made, draft, readVars, before, input>>

-----------------------------------------------------------------------------
(* Looking accounts up. *)

\* compute_balance.
Balance(totals, code) ==
    LET posted == IF DebitBalance(code) THEN totals.dp - totals.cp ELSE totals.cp - totals.dp
        pending == IF DebitBalance(code) THEN totals.cpnd - totals.dpnd
                   ELSE totals.dpnd - totals.cpnd
    IN [posted |-> posted, available |-> posted - pending]

\* An account as BalanceService shows it, with the totals that TigerBeetle answered under
\* a key: an account it did not answer has no money.
ShowBalance(x, answer, key) ==
    [id |-> x.id,
     balance |-> Balance(IF key \in DOMAIN answer THEN answer[key].totals ELSE NoMoney,
                         Product[x.product].code)]

\* AccountService shows that nothing can be spent of a loan.
Show(x, answer, key) ==
    LET whole == ShowBalance(x, answer, key)
    IN IF Product[x.product].loan THEN [whole EXCEPT !.balance.available = 0] ELSE whole

\* Mutant: the row is looked up by the identifier of TigerBeetle.
RowKeyTb(u) == TbId(u)

\* The bytes by which the row of an account is looked up.
RowKey(u) == u

\* get: find the row of an account.
FindRow(r) ==
    /\ pc[r] = "row"
    /\ page' = [page EXCEPT ![r] = {x \in rows : x.uuid = RowKey(input[r].uuid)}]
    /\ IF page'[r] = {} THEN EndWith(r, "ErrNotFound") ELSE GoTo(r, "balance")
    /\ UNCHANGED <<tb, rows, nextId, made, draft, cursor, shown, before, input>>

\* get: look its totals up; owners and loan are those of the row.
FindBalance(r) ==
    /\ pc[r] = "balance"
    /\ LET x == CHOOSE x \in page[r] : TRUE
           key == TbId(input[r].uuid)
       IN shown' = [shown EXCEPT ![r] =
                       <<IF input[r].by = "BalanceService" THEN ShowBalance(x, tb, key)
                         ELSE Show(x, tb, key)>>]
    /\ page' = [page EXCEPT ![r] = {}]
    /\ EndWith(r, "found")
    /\ UNCHANGED <<tb, rows, nextId, made, draft, cursor, before, input>>

\* The size of a page.
Limit(r) ==
    LET limit == IF input[r].limit <= 0 THEN DefaultLimit ELSE input[r].limit
    IN IF limit > MaxLimit THEN MaxLimit ELSE limit

\* The first n of a set of rows, in the order of their ids.
FirstOf(s, n) == {x \in s : Cardinality({y \in s : y.id < x.id}) < n}
InOrder(s) ==
    [k \in 1 .. Cardinality(s) |->
        CHOOSE x \in s : Cardinality({y \in s : y.id < x.id}) = k - 1]

\* Mutant: no row more than the page is asked for.
PageOfLimit(r) ==
    FirstOf({x \in rows : x.owner = input[r].customer /\ x.id > cursor[r]}, Limit(r))

\* list_by_customer_ref: the rows after the cursor, one more than the page holds.
PageOf(r) ==
    FirstOf({x \in rows : x.owner = input[r].customer /\ x.id > cursor[r]}, Limit(r) + 1)

\* list: read a page; an empty one is the whole answer.
ReadPage(r) ==
    /\ pc[r] = "page"
    /\ page' = [page EXCEPT ![r] = PageOf(r)]
    /\ IF page'[r] = {} THEN EndWith(r, "listed") ELSE GoTo(r, "balances")
    /\ UNCHANGED <<tb, rows, nextId, made, draft, cursor, shown, before, input>>

\* list: look the totals of a page up and show it.  If there was one row more, the
\* client asks for the next page, from the last one shown on.
ShowPage(r) ==
    /\ pc[r] = "balances"
    /\ LET accounts == FirstOf(page[r], Limit(r))
           list == InOrder(accounts)
           found == [a \in DOMAIN tb \cap {TbId(x.uuid) : x \in accounts} |-> tb[a]]
       IN /\ shown' = [shown EXCEPT ![r] =
                          @ \o [k \in DOMAIN list |-> Show(list[k], found, list[k].uuid)]]
          /\ IF Cardinality(page[r]) > Limit(r)
             THEN /\ cursor' = [cursor EXCEPT ![r] = list[Limit(r)].id]
                  /\ GoTo(r, "page")
             ELSE EndWith(r, "listed") /\ UNCHANGED cursor
    /\ page' = [page EXCEPT ![r] = {}]
    /\ UNCHANGED <<tb, rows, nextId, made, draft, before, input>>

-----------------------------------------------------------------------------
(* What may happen on the way. *)

\* A statement or a look-up raises.  A session whose transaction has begun cannot begin
\* another one, which is what next_account_sequence asks for.
DependencyFails(r) ==
    /\ Live(r) /\ pc[r] \notin {"create", "commit"}
    /\ EndWith(r, "RuntimeError")
    /\ nextId' = IF pc[r] = "insert" THEN nextId + 1 ELSE nextId
    /\ UNCHANGED <<tb, rows, made, draft, readVars, before, input>>

\* The request dies with no answer; a call already sent to TigerBeetle may still be
\* executed.
Die(r) ==
    /\ Live(r)
    /\ pc' = [pc EXCEPT ![r] = "done"]
    /\ \/ UNCHANGED <<tb, made, draft>>
       \/ /\ pc[r] = "create" /\ Creatable(Flags(Product[ProductOf(r)].code))
          /\ Generate(r) /\ TbCreated(r)
    /\ UNCHANGED <<rows, nextId, readVars, before, input, reply>>

-----------------------------------------------------------------------------
\* What a request does by itself.
Proceed(r) ==
    \/ Validate(r) \/ NextSequence(r) \/ CreateTb(r) \/ Insert(r) \/ Link(r) \/ CreateLoan(r)
    \/ Commit(r) \/ FindRow(r) \/ FindBalance(r) \/ ReadPage(r) \/ ShowPage(r)

Next ==
    \E r \in Requests :
       \/ Submit(r) \/ Proceed(r) \/ CreateTbFails(r) \/ CommitFails(r)
       \/ DependencyFails(r) \/ Die(r)

Spec == Init /\ [][Next]_vars
-----------------------------------------------------------------------------
(* What must hold in every state. *)

\* Every variable has its shape: a draft is filled field by field, and a request is at
\* nothing but an await the services have.
TypeOK ==
    /\ \A a \in DOMAIN tb : a \in Identifiers /\ tb[a] \in TbRecords
    /\ rows \subseteq AccountRows
    /\ nextId \in Nat
    /\ made \in 0 .. Len(Uuids)
    /\ draft \in [Requests -> Drafts]
    /\ cursor \in [Requests -> Nat]
    /\ \A r \in Requests : page[r] \subseteq rows
    /\ \A r \in Requests : \A k \in DOMAIN shown[r] : shown[r][k].id \in 1 .. nextId - 1
    /\ \A r \in Requests : before[r] \subseteq 1 .. nextId - 1
    /\ input \in [Requests -> Inputs \cup {NoInput}]
    /\ pc \in [Requests -> Phases]
    /\ reply \in [Requests -> Replies]

\* The accounts of a prefix are numbered from 1 on, without a gap and no number twice,
\* although the number is computed long before it is used, and openings die in between.
NumbersGapless == NumbersOf(rows)

\* No account is half opened: whatever has a row has its own account in TigerBeetle, on
\* the ledger of its product, an owner, and a loan row when it is one.
AccountsWhole ==
    \A x \in rows :
        /\ TbId(x.uuid) \in DOMAIN tb
        /\ tb[TbId(x.uuid)].ledger = Product[x.product].currency
        /\ x.owner \in Customers
        /\ x.loan = Product[x.product].loan
        /\ \A y \in rows : x.id = y.id \/ x.uuid = y.uuid => x = y

Asked(r, kind) == input[r] # NoInput /\ Kind(input[r]) = kind

\* What a client is told of an account is so: one that was created is found by the
\* identifier the client got, from then on and with its money; one that was refused, by
\* name or by a failure, has no row.
AnswersTruthful ==
    \A r \in Requests :
        /\ reply[r] = "created" =>
               \E x \in rows : /\ x.uuid = draft[r].uuid /\ x.product = ProductOf(r)
                               /\ x.owner = input[r].customer
        /\ Asked(r, "open") /\ reply[r] \in {"ValidationError", "ErrProductInactive", "RuntimeError"} =>
               \A x \in rows : x.uuid # draft[r].uuid
        /\ reply[r] = "found" =>
               \E x \in rows :
                  /\ x.uuid = input[r].uuid
                  /\ shown[r] = <<IF input[r].by = "BalanceService"
                                  THEN ShowBalance(x, tb, TbId(x.uuid))
                                  ELSE Show(x, tb, TbId(x.uuid))>>
        /\ reply[r] = "ErrNotFound" =>
               \A x \in rows : x.uuid = input[r].uuid => x.id \notin before[r]

\* A listing that has come to its end has shown every account that its customer had when
\* it began, once and in order, whatever was opened between its pages, and no other's.
ListingComplete ==
    \A r \in Requests : reply[r] = "listed" =>
        /\ \A j, k \in DOMAIN shown[r] : j < k => shown[r][j].id < shown[r][k].id
        /\ {x.id : x \in {y \in rows : y.owner = input[r].customer /\ y.id \in before[r]}}
               \subseteq {shown[r][k].id : k \in DOMAIN shown[r]}
        /\ \A k \in DOMAIN shown[r] :
               \E x \in rows : x.id = shown[r][k].id /\ x.owner = input[r].customer

\* Said by the docstring of AccountService.list: a listing shows live balances, those
\* TigerBeetle has for the accounts.
ListedBalancesLive ==
    \A r \in Requests : Asked(r, "list") =>
        \A k \in DOMAIN shown[r] :
            \E x \in rows : shown[r][k] = Show(x, tb, TbId(x.uuid))
=============================================================================
