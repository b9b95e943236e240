------------------------------ MODULE MCLoans ------------------------------
(***************************************************************************)
(* A small lender for TLC: one loan, one deposit account and the accounts  *)
(* that take interest and fees.                                            *)
(***************************************************************************)
EXTENDS Loans, TLC

Loan == <<1, 2, 3, 4>>      \* as most UUIDs, different in the two byte orders
Purse == <<5, 6, 7, 8>>
Interest == <<8, 8, 8, 8>>
Fees == <<9, 9, 9, 9>>

MCHalfLen == 2
MCCurrencies == {"USD"}
MCCustomers == {Loan, Purse}
MCTbAccounts == {UuidToUint128(u) : u \in {Loan, Purse, Interest, Fees}}
MCLedgerOf == [a \in TbAccounts |-> "USD"]
MCDebitsCapped == {UuidToUint128(Purse)}
MCCreditsCapped == {UuidToUint128(Loan)}
MCCategory == [u \in Customers |-> IF u = Loan THEN "loan" ELSE "deposit"]
MCAccountStatus == [u \in Customers |-> "active"]
MCSystemRow == [n \in {"interest", "fee"} |-> [c \in Currencies |->
                   IF n = "interest" THEN Interest ELSE Fees]]

\* The loan has been paid out twice, and its owner has the money still.
MCOpeningBook ==
    [a \in TbAccounts |->
        [dp |-> IF a = UuidToUint128(Loan) THEN 4 ELSE 0, dpnd |-> 0,
         cp |-> IF a = UuidToUint128(Purse) THEN 4 ELSE 0, cpnd |-> 0]]
MCOpeningLoan ==
    [u \in {Loan} |-> [outstanding |-> 2, status |-> "active", disbursed |-> FALSE]]

Ask(kind, principal, interest, fee) ==
    [kind |-> kind, currency |-> "USD", loan |-> Loan, deposit |-> Purse,
     amount |-> [principal |-> principal, interest |-> interest, fee |-> fee]]

\* Paying out, paying back in part and in full, with and without the extras, more
\* than the purse holds or the loan account takes, and with the accounts mixed up.
MCInputs ==
    {Ask("disburse", 1, 0, 0), Ask("repay", 1, 0, 0), Ask("repay", 2, 0, 0),
     Ask("repayWithFee", 1, 1, 1), Ask("repayWithFee", 2, 0, 2),
     [Ask("repay", 1, 0, 0) EXCEPT !.loan = Purse, !.deposit = Loan]}

\* Requests are alike.
AnyRequest == Permutations(Requests)
=============================================================================
