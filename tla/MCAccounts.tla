----------------------------- MODULE MCAccounts -----------------------------
(***************************************************************************)
(* A small bank for TLC: Ann has two accounts, and opens more of them.     *)
(***************************************************************************)
EXTENDS Accounts, TLC

MCHalfLen == 2
First == <<1, 2, 3, 4>>     \* as most UUIDs, different in the two byte orders
Second == <<1, 2, 3, 5>>
MCUuids == <<<<1, 2, 4, 1>>, <<1, 2, 4, 2>>, <<1, 2, 4, 3>>>>

MCCustomers == {"Ann", "Bob"}
MCProducts == {"saver", "flexible", "personal", "unrated", "retired", "exotic"}

Row(code, loan, active, rated) ==
    [code |-> code, currency |-> "EUR", loan |-> loan, active |-> active, rated |-> rated]

\* Two savings products share their account code, so their accounts share their numbers.
MCProduct ==
    [p \in Products |->
        CASE p = "saver" -> Row(2110, FALSE, TRUE, TRUE)
          [] p = "flexible" -> Row(2110, FALSE, TRUE, FALSE)
          [] p = "personal" -> Row(1401, TRUE, TRUE, TRUE)
          [] p = "unrated" -> Row(1410, TRUE, TRUE, FALSE)
          [] p = "retired" -> Row(2101, FALSE, FALSE, TRUE)
          [] p = "exotic" -> [Row(2101, FALSE, TRUE, TRUE) EXCEPT !.currency = "XXX"]]
MCCurrencies == {"EUR"}

\* The bits TigerBeetle has for what the program's are named: not 4, 1 and 2.
NamedBits == [history |-> 8, debits |-> 2, credits |-> 4]

Open(c, p) == [customer |-> c, product |-> p, loan |-> p \in {"personal", "unrated"}]
List(c, n) == [customer |-> c, limit |-> n]
Get(u, service) == [uuid |-> u, by |-> service]

MCOpeningRows ==
    {[id |-> 1, uuid |-> First, product |-> "saver", seq |-> 1, owner |-> "Ann", loan |-> FALSE],
     [id |-> 2, uuid |-> Second, product |-> "personal", seq |-> 1, owner |-> "Ann", loan |-> TRUE]}

\* Three on the one, of which one is reserved, and a loan of four.
MCOpeningTb ==
    [a \in {UuidToUint128(First), UuidToUint128(Second)} |->
        IF a = UuidToUint128(First)
        THEN [ledger |-> "EUR", capped |-> "credits",
              totals |-> [dp |-> 1, cp |-> 4, dpnd |-> 1, cpnd |-> 0]]
        ELSE [ledger |-> "EUR", capped |-> "debits",
              totals |-> [dp |-> 4, cp |-> 0, dpnd |-> 0, cpnd |-> 0]]]

\* Openings of every kind, for Ann and for a customer who does not exist, a listing with
\* pages of one and of two, and look-ups of a loan and of an account still to come.
MCInputs ==
    {Open("Ann", "saver"), Open("Ann", "flexible"), Open("Bob", "personal"),
     Open("Ann", "unrated"), Open("Ann", "retired"), Open("Ann", "exotic"),
     Open("Eve", "saver"),
     List("Ann", 0), List("Ann", 9), Get(Second, "BalanceService"),
     Get(MCUuids[1], "AccountService")}

AnyRequest == Permutations(Requests)
=============================================================================
