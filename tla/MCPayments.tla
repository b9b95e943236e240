----------------------------- MODULE MCPayments -----------------------------
(***************************************************************************)
(* Small banks for TLC: identifiers of four bytes, a cash vault, a fee     *)
(* income account and a few customers.                                     *)
(***************************************************************************)
EXTENDS Payments, TLC

Vault == <<0, 0, 0, 0>>
FeeIncome == <<9, 9, 9, 9>>
EuroVault == <<0, 0, 0, 3>>
EuroFees == <<9, 9, 9, 3>>
Ann == <<1, 1, 1, 1>>       \* the same in both byte orders
Bob == <<2, 2, 2, 2>>
Eve == <<1, 2, 3, 4>>       \* as most UUIDs, different in the two orders

MCHalfLen == 2
MCCurrencies == {"USD"}
MCSystemRow ==
    [CASH_VAULT |-> [c \in Currencies |-> IF c = "USD" THEN Vault ELSE EuroVault],
     INC_FEE_SERVICE |-> [c \in Currencies |-> IF c = "USD" THEN FeeIncome ELSE EuroFees]]

\* TransferCode of domain/transfers.py, and a table that TigerBeetle accepts.
BankCodes == [hold |-> 8, capture |-> 9, void |-> 10]
OneCode == [hold |-> 8, capture |-> 8, void |-> 8]

AnnBob == {Ann, Bob}
Everyone == {Ann, Bob, Eve}
JustAnn == {Ann}

AccountsOf(customers) == {UuidToUint128(u) : u \in {Vault, FeeIncome} \cup customers}
AnnBobAccounts == AccountsOf(AnnBob)
EveryAccount == AccountsOf(Everyone \cup {EuroVault, EuroFees})
JustAnnAccounts == AccountsOf(JustAnn)

\* Assets may not be credited beyond their debits, customers' deposits may not be
\* debited beyond their credits.
Assets == {UuidToUint128(Vault)}
BothAssets == {UuidToUint128(Vault), UuidToUint128(EuroVault)}
Deposits(customers) == {UuidToUint128(u) : u \in customers}
AnnBobDeposits == Deposits(AnnBob)
EveryDeposit == Deposits(Everyone)
JustAnnDeposits == Deposits(JustAnn)

OneLedger == [a \in TbAccounts |-> "USD"]
AllActive == [u \in Customers |-> "active"]

\* The bank has taken n from Ann in cash.
AnnHas(n) ==
    [a \in TbAccounts |->
        [dp |-> IF a = UuidToUint128(Vault) THEN n ELSE 0, dpnd |-> 0,
         cp |-> IF a = UuidToUint128(Ann) THEN n ELSE 0, cpnd |-> 0]]
AnnHas0 == AnnHas(0)
AnnHas2 == AnnHas(2)
AnnHas3 == AnnHas(3)

Ask(kind, debit, credit, amount, hold, expires) ==
    [kind |-> kind, currency |-> "USD", debit |-> debit, credit |-> credit,
     amount |-> amount, hold |-> hold, expires |-> expires]
Plain(kind, debit, credit, amount) == Ask(kind, debit, credit, amount, NoHold, FALSE)
Resolve(kind, hold, amount) == Ask(kind, NoAccount, NoAccount, amount, hold, FALSE)

\* Two currencies, and an account with an ordinary UUID that keeps euros.
TwoCurrencies == {"USD", "EUR"}
Euros == {UuidToUint128(u) : u \in {Eve, EuroVault, EuroFees}}
TwoLedgers == [a \in TbAccounts |-> IF a \in Euros THEN "EUR" ELSE "USD"]
InEuros(i) == [i EXCEPT !.currency = "EUR"]

\* Holds of Ann's money, which may expire, captured for a part, for all and
\* for too much, voided, and raced by the closing of her account, by other business
\* with it, and by transfers in another currency than that of one account or of both.
BusinessInputs ==
    {Ask("hold", Ann, Bob, 2, NoHold, TRUE), Plain("withdrawal", Ann, NoAccount, 2),
     Plain("deposit", NoAccount, Ann, 1), Plain("payment", Bob, Ann, 1),
     Plain("fee", Ann, NoAccount, 1), Plain("close", Ann, NoAccount, 0),
     Plain("transfer", Ann, Eve, 1), InEuros(Plain("transfer", Ann, Bob, 1))}
    \cup {Resolve("capture", h, n) : h \in Requests, n \in {0, 1, 3}}
    \cup {Resolve("void", h, 0) : h \in Requests}

\* Everything that waits for something: the row lock of close and the holds.
LiveInputs ==
    {Ask("hold", Ann, Bob, 2, NoHold, TRUE), Plain("close", Bob, NoAccount, 0)}
    \cup {Resolve("capture", h, 0) : h \in Requests}

\* A hold, and what may be done with it.
CodeInputs ==
    {Ask("hold", Ann, Bob, 2, NoHold, FALSE)}
    \cup {Resolve(kind, h, 0) : kind \in {"capture", "void"}, h \in Requests}

\* A deposit and a closing of the same account.
RaceInputs == {Plain("deposit", NoAccount, Ann, 1), Plain("close", Ann, NoAccount, 0)}

\* Requests are alike.
AnyRequest == Permutations(Requests)
=============================================================================
