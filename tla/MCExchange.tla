----------------------------- MODULE MCExchange -----------------------------
(***************************************************************************)
(* A small bureau of exchange for TLC: dollars with one decimal and yen    *)
(* with none, a customer's account and a pool in each.                     *)
(***************************************************************************)
EXTENDS Exchange, TLC

Dollars == <<1, 2, 3, 4>>      \* as most UUIDs, different in the two byte orders
Yen == <<5, 6, 7, 8>>
DollarPool == <<8, 8, 8, 1>>
YenPool == <<8, 8, 8, 2>>

MCHalfLen == 2
MCCurrencies == {"USD", "JPY"}
MCScale == [c \in Currencies |-> IF c = "USD" THEN 1 ELSE 0]
MCCustomers == {Dollars, Yen}
MCPoolRow == [c \in Currencies |-> IF c = "USD" THEN DollarPool ELSE YenPool]
MCTbAccounts == {UuidToUint128(u) : u \in {Dollars, Yen, DollarPool, YenPool}}
MCLedgerOf == [a \in TbAccounts |->
                  IF a \in {UuidToUint128(Dollars), UuidToUint128(DollarPool)}
                  THEN "USD" ELSE "JPY"]
MCAccountStatus == [u \in Customers |-> "active"]

\* Neither the customer nor the bank gives more than it has.
MCDebitsCapped == TbAccounts
MCCreditsCapped == {}

\* Three dollars to sell, and four yen in the pool.
MCOpeningBook ==
    [a \in TbAccounts |->
        [dp |-> 0, dpnd |-> 0, cpnd |-> 0,
         cp |-> IF a = UuidToUint128(Dollars) THEN 30
                ELSE IF a = UuidToUint128(YenPool) THEN 4 ELSE 0]]

\* A dollar is worth 1.4 yen, which is known beforehand, and later 1.7.
Rate(n, effective) == [pair |-> <<"USD", "JPY">>, rate |-> n, effective |-> effective]
MCRows == {Rate(14, 1), Rate(17, 2)}
MCOpeningRows == {Rate(14, 1)}

Sell(n, rate) == [pair |-> <<"USD", "JPY">>, debit |-> Dollars, credit |-> Yen,
                  amount |-> n, rate |-> rate]

\* A dollar fifty at the bank's rate, which is 2 yen or 3: the pool cannot pay 3 twice;
\* nearly all the dollars at the client's rate; yen, for which the bank has no rate.
MCInputs ==
    {Sell(15, 0), Sell(29, 5),
     [pair |-> <<"JPY", "USD">>, debit |-> Yen, credit |-> Dollars, amount |-> 1, rate |-> 0]}

\* Requests are alike.
AnyRequest == Permutations(Requests)
=============================================================================
