------------------------------- MODULE Ledger -------------------------------
(***************************************************************************)
(* TigerBeetle as the services use it: accounts with posted and pending    *)
(* debits and credits, and the rules under which a transfer is accepted.   *)
(* TigerBeetle itself is external; the code it stands behind is            *)
(* cbs/store/tigerbeetle/*.py.  A book maps an account to its four totals. *)
(***************************************************************************)
EXTENDS Integers

CONSTANTS
    TbAccounts,     \* identifiers of the accounts TigerBeetle holds
    LedgerOf,       \* LedgerOf[a]: the ledger (currency) of an account
    DebitsCapped,   \* accounts with debits_must_not_exceed_credits
    CreditsCapped   \* accounts with credits_must_not_exceed_debits

ASSUME CappedAssumption ==
    DebitsCapped \subseteq TbAccounts /\ CreditsCapped \subseteq TbAccounts

Totals4 == [dp : Int, dpnd : Int, cp : Int, cpnd : Int]
Books == [TbAccounts -> Totals4]

EmptyBook == [a \in TbAccounts |-> [dp |-> 0, dpnd |-> 0, cp |-> 0, cpnd |-> 0]]

\* A capped account may not let its own side, reservations included, outgrow
\* what is posted on the other side.
DebitFits(book, d, n) ==
    d \in DebitsCapped => book[d].dp + book[d].dpnd + n <= book[d].cp
CreditFits(book, c, n) ==
    c \in CreditsCapped => book[c].cp + book[c].cpnd + n <= book[c].dp

\* The checks on a new transfer, posted or pending: two different accounts,
\* both on the ledger the transfer names, and room on both sides.
Accepts(book, ledger, d, c, n) ==
    /\ d # c
    /\ {d, c} \subseteq TbAccounts
    /\ LedgerOf[d] = ledger /\ LedgerOf[c] = ledger
    /\ DebitFits(book, d, n)
    /\ CreditFits(book, c, n)

\* A posted transfer of n from d to c.
Post(book, d, c, n) ==
    [book EXCEPT ![d].dp = @ + n, ![c].cp = @ + n]

\* A pending transfer of n from d to c.
Reserve(book, d, c, n) ==
    [book EXCEPT ![d].dpnd = @ + n, ![c].cpnd = @ + n]

\* A reservation given back.
Release(book, d, c, n) ==
    [book EXCEPT ![d].dpnd = @ - n, ![c].cpnd = @ - n]

\* A pending transfer of `held` posted for n of it: the rest is given back.
PostPending(book, d, c, held, n) == Post(Release(book, d, c, held), d, c, n)
=============================================================================
