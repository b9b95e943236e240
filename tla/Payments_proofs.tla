-------------------------- MODULE Payments_proofs --------------------------
(***************************************************************************)
(* What Payments guarantees for every bank and every number of requests.   *)
(***************************************************************************)
EXTENDS Payments, Ledger_proofs

-----------------------------------------------------------------------------
(* Typing.  A transfer may only be sent once its dict has been built, which *)
(* TypeOK alone does not say.                                               *)

\* The requests whose transfer dict has been built.
HasLeg(r) ==
    \/ pc[r] \in {"execute", "record"}
    \/ input[r] # NoInput /\ input[r].kind = "hold" /\ pc[r] \in {"debit", "credit"}

\* A request past its arrival has an input, one past its lookups has a dict, and
\* only captures and voids look a hold up.
Prepared ==
    \A r \in Requests : /\ pc[r] # "new" => input[r] \in Inputs
                        /\ pc[r] = "hold" => input[r].kind \in ResolvingKinds
                        /\ HasLeg(r) => leg[r] \in Legs

TypeInv == TypeOK /\ Prepared

LEMMA InitTyped == Init => TypeInv
<1> SUFFICES ASSUME Init PROVE TypeInv
  OBVIOUS
<1> USE DEF Init
<1>1. book \in Books
  BY OpeningAssumption DEF Books, Totals4
<1>2. status \in [Customers -> StatusValues]
  BY OpeningAssumption
<1>3. TypeOK
  BY <1>1, <1>2 DEF TypeOK, Phases, Replies
<1>4. Prepared
  BY DEF Prepared, HasLeg
<1> QED
  BY <1>3, <1>4 DEF TypeInv

\* What an input that was accepted is made of.
LEMMA InputShape ==
    ASSUME NEW i \in Inputs
    PROVE  /\ i \in InputRecords /\ Valid(i)
           /\ i.kind \in Kinds /\ i.currency \in Currencies /\ i.amount \in Nat
           /\ i.debit \in Customers \cup {NoAccount}
           /\ i.credit \in Customers \cup {NoAccount}
           /\ i.hold \in Requests \cup {NoHold}
           /\ i # NoInput
  BY InputsAssumption, CustomersAssumption DEF InputRecords

\* TigerBeetle's record of r is well formed.
LEMMA RecordShape ==
    ASSUME NEW r \in Requests, input[r] \in Inputs, leg[r] \in Legs
    PROVE  TransferOf(r) \in TransferRecords
<1>1. input[r].kind \in ResolvingKinds => input[r].hold \in Requests \cup {NoHold}
  BY InputShape
<1> QED
  BY <1>1 DEF TransferOf, TransferRecords, Legs

\* A movement of the book by TbApply, in the terms of Ledger_proofs.
LEMMA ApplyEffect ==
    ASSUME TypeInv, NEW r \in Requests, pc[r] = "execute", TbAccepts(r), TbApply(r)
    PROVE  /\ book' \in Books
           /\ transfers' \in [Requests -> TransferRecords \cup {NoTransfer}]
           /\ \A q \in Requests \ {r} : transfers[q] = NoTransfer <=> transfers'[q] = NoTransfer
<1> DEFINE l == leg[r]
           h == input[r].hold
<1>1. /\ input[r] \in Inputs /\ l \in Legs
      /\ book \in Books
      /\ transfers \in [Requests -> TransferRecords \cup {NoTransfer}]
  BY DEF TypeInv, TypeOK, Prepared, HasLeg
<1>2. l.debit \in TbAccounts /\ l.credit \in TbAccounts /\ l.amount \in Nat
  BY <1>1 DEF Legs
<1>3. TransferOf(r) \in TransferRecords
  BY <1>1, RecordShape
<1>4. CASE input[r].kind = "hold"
  <2>1. /\ book' = Reserve(book, l.debit, l.credit, l.amount)
        /\ transfers' = [transfers EXCEPT ![r] = TransferOf(r)]
    BY <1>4 DEF TbApply
  <2>3. book' \in Books /\ Moves(book, book', l.debit, l.credit, 0, l.amount)
    BY <1>1, <1>2, <2>1, ReserveEffect
  <2> QED
    BY <1>1, <1>3, <2>1, <2>3
<1>5. CASE input[r].kind \in ResolvingKinds
  <2>1. /\ Pending(h) /\ l.amount <= transfers[h].amount
        /\ h \in Requests
    BY <1>1, <1>5, InputShape DEF TbAccepts, Valid
  <2>2. transfers[h] \in TransferRecords /\ transfers[h].amount \in Nat
    BY <1>1, <2>1 DEF Pending, TransferRecords
  <2>3. CASE input[r].kind = "capture"
    <3>1. /\ book' = PostPending(book, l.debit, l.credit, transfers[h].amount, l.amount)
          /\ transfers' = [transfers EXCEPT ![r] = TransferOf(r), ![h].state = "posted"]
      BY <2>3 DEF TbApply
    <3>2. book' \in Books /\ Moves(book, book', l.debit, l.credit, l.amount,
                                  0 - transfers[h].amount)
      BY <1>1, <1>2, <2>2, <3>1, PostPendingEffect
    <3> QED
      BY <1>1, <1>3, <2>1, <2>2, <3>1, <3>2, CustomersAssumption DEF TransferRecords
  <2>4. CASE input[r].kind = "void"
    <3>1. /\ book' = Release(book, l.debit, l.credit, transfers[h].amount)
          /\ transfers' = [transfers EXCEPT ![r] = TransferOf(r), ![h].state = "voided"]
      BY <2>4 DEF TbApply
    <3>2. book' \in Books /\ Moves(book, book', l.debit, l.credit, 0,
                                  0 - transfers[h].amount)
      BY <1>1, <1>2, <2>2, <3>1, ReleaseEffect
    <3> QED
      BY <1>1, <1>3, <2>1, <2>2, <3>1, <3>2, CustomersAssumption, ZenonT(30) DEF TransferRecords
  <2> QED
    BY <1>5, <2>3, <2>4 DEF ResolvingKinds
<1>6. CASE input[r].kind \notin ResolvingKinds \cup {"hold"}
  <2>1. /\ book' = Post(book, l.debit, l.credit, l.amount)
        /\ transfers' = [transfers EXCEPT ![r] = TransferOf(r)]
    BY <1>6 DEF TbApply, ResolvingKinds
  <2>3. book' \in Books /\ Moves(book, book', l.debit, l.credit, l.amount, 0)
    BY <1>1, <1>2, <2>1, PostEffect
  <2> QED
    BY <1>1, <1>3, <2>1, <2>3
<1> QED
  BY <1>4, <1>5, <1>6

\* Where GoTo and EndWith leave a request.
LEMMA ControlShape ==
    ASSUME pc \in [Requests -> Phases], reply \in [Requests -> Replies],
           NEW r \in Requests
    PROVE  /\ \A phase \in Phases : GoTo(r, phase) =>
                  /\ pc' = [pc EXCEPT ![r] = phase]
                  /\ pc' \in [Requests -> Phases] /\ reply' = reply
           /\ \A a \in Replies : EndWith(r, a) =>
                  /\ pc' = [pc EXCEPT ![r] = "done"]
                  /\ pc' \in [Requests -> Phases] /\ reply' \in [Requests -> Replies]
  BY DEF GoTo, EndWith, Phases

\* The answers the services' checks can give are answers clients may get.
LEMMA AnswerShape ==
    /\ \A key : AccountRefusal(key) \in Replies /\ CloseRefusal(key) \in Replies
    /\ \A r : ReadFailure(r) \in Replies
    /\ MapTbError(RejectionText) = "ValueError"
    /\ \A kind : SuccessOf(kind) \in Replies
    /\ \A kind : FirstPhase(kind) \in Phases \ {"new"} /\ AfterDebit(kind) \in Phases \ {"new"}
<1>1. \A key : AccountRefusal(key) \in Replies /\ CloseRefusal(key) \in Replies
  BY DEF AccountRefusal, CloseRefusal, Replies, Refusals
<1>2. \A r : ReadFailure(r) \in Replies
  BY DEF ReadFailure, Replies, Refusals
<1>3. MapTbError(RejectionText) = "ValueError"
  BY DEF MapTbError, RejectionText
<1>4. \A kind : SuccessOf(kind) \in Replies
  BY DEF SuccessOf, Replies, Successes
<1>5. \A kind : FirstPhase(kind) \in Phases \ {"new"} /\ AfterDebit(kind) \in Phases \ {"new"}
  BY DEF FirstPhase, AfterDebit, Phases
<1> QED
  BY <1>1, <1>2, <1>3, <1>4, <1>5

\* A step that leaves TigerBeetle, the dicts and the tables alone keeps the types
\* if it moves one request along and gives it no transfer to send.
LEMMA ControlStep ==
    ASSUME TypeInv, NEW r \in Requests, pc[r] # "new",
           UNCHANGED <<tbVars, pgVars, input, leg, staged, closedBefore>>,
           \/ \E a \in Replies : EndWith(r, a)
           \/ \E phase \in Phases \ {"new", "hold"} : GoTo(r, phase) /\ (HasLeg(r)' => HasLeg(r))
    PROVE  TypeInv'
<1> USE DEF TypeInv, TypeOK, tbVars, pgVars
<1>1. CASE \E a \in Replies : EndWith(r, a)
  <2>1. PICK a \in Replies : EndWith(r, a)
    BY <1>1
  <2>2. TypeOK'
    BY <2>1, ControlShape
  <2>3. Prepared'
    BY <2>1, ControlShape DEF Prepared, HasLeg
  <2> QED
    BY <2>2, <2>3
<1>2. CASE \E phase \in Phases \ {"new", "hold"} : GoTo(r, phase) /\ (HasLeg(r)' => HasLeg(r))
  <2>1. PICK phase \in Phases \ {"new", "hold"} : GoTo(r, phase) /\ (HasLeg(r)' => HasLeg(r))
    BY <1>2
  <2>2. TypeOK'
    BY <2>1, ControlShape
  <2>3. pc' = [pc EXCEPT ![r] = phase]
    BY <2>1, ControlShape
  <2>4. \A q \in Requests : q # r => pc'[q] = pc[q]
    BY <2>3
  <2>5. Prepared'
    BY <2>1, <2>3, <2>4 DEF Prepared, HasLeg
  <2> QED
    BY <2>2, <2>5
<1> QED
  BY <1>1, <1>2

LEMMA SubmitTyped == ASSUME TypeInv, NEW r \in Requests, Submit(r) PROVE TypeInv'
<1> USE DEF TypeInv, TypeOK, tbVars, pgVars
<1>1. PICK i \in Inputs : /\ input' = [input EXCEPT ![r] = i]
                          /\ pc' = [pc EXCEPT ![r] = FirstPhase(i.kind)]
  BY DEF Submit
<1>2. FirstPhase(i.kind) \in Phases \ {"new"}
  BY AnswerShape
<1>3. TypeOK'
  BY <1>1, <1>2 DEF Submit
<1>4. /\ pc[r] = "new" /\ UNCHANGED leg
      /\ i # NoInput
  BY InputShape DEF Submit
<1>5. FirstPhase(i.kind) \notin {"execute", "record"}
      /\ (i.kind = "hold" => FirstPhase(i.kind) = "lookup")
      /\ (FirstPhase(i.kind) = "hold" => i.kind \in ResolvingKinds)
  BY DEF FirstPhase, ResolvingKinds
<1>6. Prepared'
  BY <1>1, <1>2, <1>4, <1>5 DEF Prepared, HasLeg
<1> QED
  BY <1>3, <1>6

LEMMA CheckDebitTyped == ASSUME TypeInv, NEW r \in Requests, CheckDebit(r) PROVE TypeInv'
<1>1. /\ pc[r] = "debit" /\ input[r] \in Inputs
      /\ UNCHANGED <<tbVars, pgVars, input, leg, staged, closedBefore>>
  BY DEF CheckDebit, TypeInv, TypeOK, Prepared
<1>2. \/ \E a \in Replies : EndWith(r, a)
      \/ GoTo(r, AfterDebit(input[r].kind))
  BY AnswerShape DEF CheckDebit
<1>3. /\ AfterDebit(input[r].kind) \in {"credit", "balance", "lookup"}
      /\ AfterDebit(input[r].kind) = "credit" /\ input[r].kind = "hold" => HasLeg(r)
  BY <1>1, InputShape DEF AfterDebit, HasLeg
<1>4. ASSUME GoTo(r, AfterDebit(input[r].kind)), HasLeg(r)' PROVE HasLeg(r)
  BY <1>1, <1>3, <1>4 DEF HasLeg, GoTo, TypeInv, TypeOK
<1> QED
  BY <1>1, <1>2, <1>3, <1>4, ControlStep DEF Phases

LEMMA CheckCreditTyped == ASSUME TypeInv, NEW r \in Requests, CheckCredit(r) PROVE TypeInv'
<1> DEFINE next == IF input[r].kind = "hold" THEN "execute" ELSE "lookup"
<1>1. /\ pc[r] = "credit" /\ input[r] \in Inputs
      /\ UNCHANGED <<tbVars, pgVars, input, leg, staged, closedBefore>>
  BY DEF CheckCredit, TypeInv, TypeOK, Prepared
<1>2. \/ \E a \in Replies : EndWith(r, a)
      \/ GoTo(r, next)
  BY AnswerShape DEF CheckCredit
<1>3. ASSUME GoTo(r, next), HasLeg(r)' PROVE HasLeg(r)
  BY <1>1, <1>3, InputShape DEF HasLeg, GoTo, TypeInv, TypeOK
<1> QED
  BY <1>1, <1>2, <1>3, ControlStep DEF Phases

\* A dict is only built from accounts TigerBeetle has.
LEMMA LegStep ==
    ASSUME TypeInv, NEW r \in Requests, NEW l \in Legs, pc[r] # "new",
           leg' = [leg EXCEPT ![r] = l],
           GoTo(r, "debit") \/ GoTo(r, "execute"),
           UNCHANGED <<tbVars, pgVars, input, staged, closedBefore>>
    PROVE  TypeInv'
<1> USE DEF TypeInv, TypeOK, tbVars, pgVars
<1>1. TypeOK'
  BY DEF GoTo, Phases
<1>2. Prepared'
  BY DEF Prepared, HasLeg, GoTo
<1> QED
  BY <1>1, <1>2

LEMMA LookupAccountsTyped ==
    ASSUME TypeInv, NEW r \in Requests, LookupAccounts(r) PROVE TypeInv'
<1> DEFINE i == input[r]
           d == UuidToUint128(DebitUuid(i))
           c == UuidToUint128(CreditUuid(i))
           l == [debit |-> d, credit |-> c, ledger |-> i.currency, amount |-> i.amount]
<1>1. /\ pc[r] = "lookup" /\ i \in Inputs
      /\ UNCHANGED <<tbVars, pgVars, input, staged, closedBefore>>
  BY DEF LookupAccounts, TypeInv, TypeOK, Prepared
<1>2. \/ (\E a \in Replies : EndWith(r, a)) /\ UNCHANGED leg
      \/ /\ {d, c} \subseteq TbAccounts
         /\ leg' = [leg EXCEPT ![r] = l]
         /\ GoTo(r, "debit") \/ GoTo(r, "execute")
  BY DEF LookupAccounts, Replies, Refusals
<1>3. CASE UNCHANGED leg /\ \E a \in Replies : EndWith(r, a)
  BY <1>1, <1>3, ControlStep
<1>4. CASE /\ {d, c} \subseteq TbAccounts
           /\ leg' = [leg EXCEPT ![r] = l]
           /\ GoTo(r, "debit") \/ GoTo(r, "execute")
  <2>1. l \in Legs
    BY <1>1, <1>4, InputShape DEF Legs
  <2> QED
    BY <1>1, <1>4, <2>1, LegStep
<1> QED
  BY <1>2, <1>3, <1>4

LEMMA LookupHoldTyped == ASSUME TypeInv, NEW r \in Requests, LookupHold(r) PROVE TypeInv'
<1> DEFINE i == input[r]
           hold == transfers[i.hold]
           n == IF i.kind = "void" THEN hold.amount ELSE CaptureAmount(i, hold.amount)
           l == [debit |-> hold.debit, credit |-> hold.credit,
                 ledger |-> LedgerOf[hold.debit], amount |-> n]
<1>1. /\ pc[r] = "hold" /\ i \in Inputs
      /\ UNCHANGED <<tbVars, pgVars, input, staged, closedBefore>>
  BY DEF LookupHold, TypeInv, TypeOK, Prepared
<1>2. \/ (\E a \in Replies : EndWith(r, a)) /\ UNCHANGED leg
      \/ /\ hold # NoTransfer /\ n \in 1 .. hold.amount
         /\ leg' = [leg EXCEPT ![r] = l]
         /\ GoTo(r, "execute")
  BY DEF LookupHold, Replies, Refusals
<1>3. CASE UNCHANGED leg /\ \E a \in Replies : EndWith(r, a)
  BY <1>1, <1>3, ControlStep
<1>4. CASE /\ hold # NoTransfer /\ n \in 1 .. hold.amount
           /\ leg' = [leg EXCEPT ![r] = l]
           /\ GoTo(r, "execute")
  <2>1. i.hold \in Requests
    BY <1>1, InputShape DEF TypeInv, Prepared, Valid
  <2>2. l \in Legs
    BY <1>1, <1>4, <2>1, OpeningAssumption DEF Legs, TransferRecords, TypeInv, TypeOK
  <2> QED
    BY <1>1, <1>4, <2>2, LegStep
<1> QED
  BY <1>2, <1>3, <1>4

LEMMA ExecuteTbTyped == ASSUME TypeInv, NEW r \in Requests, ExecuteTb(r) PROVE TypeInv'
<1>1. pc[r] = "execute" /\ UNCHANGED <<pgVars, input, leg, staged, closedBefore>>
  BY DEF ExecuteTb
<1>2. CASE TbAccepts(r)
  <2>1. /\ TbApply(r)
        /\ pc' = [pc EXCEPT ![r] = "record"]
        /\ reply' = [reply EXCEPT ![r] = SuccessOf(input[r].kind)]
    BY <1>2 DEF ExecuteTb
  <2>2. /\ book' \in Books
        /\ transfers' \in [Requests -> TransferRecords \cup {NoTransfer}]
    BY <1>1, <1>2, <2>1, ApplyEffect
  <2>3. TypeOK'
    BY <1>1, <2>1, <2>2, AnswerShape DEF TypeInv, TypeOK, pgVars, Phases
  <2>4. Prepared'
    BY <1>1, <2>1 DEF TypeInv, TypeOK, Prepared, HasLeg
  <2> QED
    BY <2>3, <2>4 DEF TypeInv
<1>3. CASE ~TbAccepts(r)
  BY <1>1, <1>3, AnswerShape, ControlStep DEF ExecuteTb, Replies
<1> QED
  BY <1>2, <1>3

LEMMA WriteMetadataTyped ==
    ASSUME TypeInv, NEW r \in Requests, WriteMetadata(r) PROVE TypeInv'
<1>1. /\ pc[r] = "record" /\ UNCHANGED <<tbVars, pgVars, input, leg, closedBefore>>
      /\ pc' = [pc EXCEPT ![r] = "commit"] /\ UNCHANGED reply
  BY DEF WriteMetadata, GoTo
<1>2. input[r] \in Inputs
  BY <1>1 DEF TypeInv, Prepared
<1>3. staged' \in [Requests -> MetadataRows \cup {NoRow}]
  <2>1. ASSUME RowExists(MetadataKey(r)) PROVE MetadataRow(r) \in MetadataRows
    BY <1>2, <2>1, InputShape DEF RowExists, MetadataRow, MetadataRows, ResolvingKinds
  <2> QED
    BY <2>1 DEF WriteMetadata, TypeInv, TypeOK
<1>4. TypeOK'
  BY <1>1, <1>3 DEF TypeInv, TypeOK, tbVars, pgVars, Phases
<1>5. Prepared'
  BY <1>1 DEF TypeInv, TypeOK, Prepared, HasLeg
<1> QED
  BY <1>4, <1>5 DEF TypeInv

LEMMA CheckBalanceTyped ==
    ASSUME TypeInv, NEW r \in Requests, CheckBalance(r) PROVE TypeInv'
<1>1. /\ pc[r] = "balance"
      /\ UNCHANGED <<tbVars, pgVars, input, leg, staged, closedBefore>>
  BY DEF CheckBalance
<1>2. (\E a \in Replies : EndWith(r, a)) \/ GoTo(r, "update")
  BY DEF CheckBalance, Replies, Refusals
<1>3. ASSUME GoTo(r, "update"), HasLeg(r)' PROVE HasLeg(r)
  BY <1>1, <1>3 DEF HasLeg, GoTo, TypeInv, TypeOK
<1> QED
  BY <1>1, <1>2, <1>3, ControlStep DEF Phases

LEMMA UpdateStatusTyped ==
    ASSUME TypeInv, NEW r \in Requests, UpdateStatus(r) PROVE TypeInv'
<1>1. /\ pc[r] = "update"
      /\ UNCHANGED <<tbVars, pgVars, input, leg, staged, closedBefore>>
  BY DEF UpdateStatus
<1>2. CASE EndWith(r, "ErrAccountClosed")
  BY <1>1, <1>2, ControlStep DEF Replies, Refusals
<1>3. CASE /\ pc' = [pc EXCEPT ![r] = "commit"]
           /\ reply' = [reply EXCEPT ![r] = "closed"]
  <2>1. TypeOK'
    BY <1>1, <1>3 DEF TypeInv, TypeOK, tbVars, pgVars, Phases, Replies, Successes
  <2>2. Prepared'
    BY <1>1, <1>3 DEF TypeInv, TypeOK, Prepared, HasLeg
  <2> QED
    BY <2>1, <2>2 DEF TypeInv
<1> QED
  BY <1>2, <1>3 DEF UpdateStatus

LEMMA CommitTyped == ASSUME TypeInv, NEW r \in Requests, Commit(r) PROVE TypeInv'
<1>1. /\ pc[r] = "commit" /\ UNCHANGED <<tbVars, input, leg, closedBefore>>
      /\ pc' = [pc EXCEPT ![r] = "done"] /\ UNCHANGED reply
      /\ staged' = [staged EXCEPT ![r] = NoRow]
  BY DEF Commit, GoTo
<1>2. /\ status' \in [Customers -> StatusValues]
      /\ metadata' \subseteq MetadataRows
  BY DEF Commit, TypeInv, TypeOK, StatusValues
<1>3. TypeOK'
  BY <1>1, <1>2 DEF TypeInv, TypeOK, tbVars, Phases
<1>4. Prepared'
  BY <1>1 DEF TypeInv, TypeOK, Prepared, HasLeg
<1> QED
  BY <1>3, <1>4 DEF TypeInv

LEMMA CommitFailsTyped == ASSUME TypeInv, NEW r \in Requests, CommitFails(r) PROVE TypeInv'
<1>1. /\ pc[r] = "commit" /\ UNCHANGED <<tbVars, pgVars, input, leg, closedBefore>>
      /\ pc' = [pc EXCEPT ![r] = "done"] /\ reply' = [reply EXCEPT ![r] = "CommitError"]
      /\ staged' = [staged EXCEPT ![r] = NoRow]
  BY DEF CommitFails, EndWith
<1>2. TypeOK'
  BY <1>1 DEF TypeInv, TypeOK, tbVars, pgVars, Phases, Replies
<1>3. Prepared'
  BY <1>1 DEF TypeInv, TypeOK, Prepared, HasLeg
<1> QED
  BY <1>2, <1>3 DEF TypeInv

LEMMA DieTyped == ASSUME TypeInv, NEW r \in Requests, Die(r) PROVE TypeInv'
<1>1. /\ pc[r] # "new" /\ UNCHANGED <<pgVars, input, leg, closedBefore>>
      /\ pc' = [pc EXCEPT ![r] = "done"] /\ reply' = [reply EXCEPT ![r] = "none"]
      /\ staged' = [staged EXCEPT ![r] = NoRow]
  BY DEF Die, Live
<1>2. /\ book' \in Books
      /\ transfers' \in [Requests -> TransferRecords \cup {NoTransfer}]
  BY ApplyEffect DEF Die, TypeInv, TypeOK, tbVars
<1>3. TypeOK'
  BY <1>1, <1>2 DEF TypeInv, TypeOK, pgVars, Phases, Replies
<1>4. Prepared'
  BY <1>1 DEF TypeInv, TypeOK, Prepared, HasLeg
<1> QED
  BY <1>3, <1>4 DEF TypeInv

LEMMA ExpireHoldTyped == ASSUME TypeInv, NEW h \in Requests, ExpireHold(h) PROVE TypeInv'
<1>1. transfers[h] \in TransferRecords
  BY DEF ExpireHold, Pending, TypeInv, TypeOK
<1>2. book' \in Books
  BY <1>1, ReleaseEffect DEF ExpireHold, TypeInv, TypeOK, TransferRecords
<1>3. transfers' \in [Requests -> TransferRecords \cup {NoTransfer}]
  BY <1>1 DEF ExpireHold, TypeInv, TypeOK, TransferRecords
<1>4. TypeOK'
  BY <1>2, <1>3 DEF ExpireHold, TypeInv, TypeOK, pgVars
<1>5. Prepared'
  BY DEF ExpireHold, TypeInv, Prepared, HasLeg
<1> QED
  BY <1>4, <1>5 DEF TypeInv

LEMMA NextTyped == TypeInv /\ [Next]_vars => TypeInv'
<1> SUFFICES ASSUME TypeInv, [Next]_vars PROVE TypeInv'
  OBVIOUS
<1>1. CASE UNCHANGED vars
  BY <1>1 DEF vars, TypeInv, TypeOK, Prepared, HasLeg
<1>2. ASSUME NEW r \in Requests, DependencyFails(r) PROVE TypeInv'
  BY <1>2, AnswerShape, ControlStep DEF DependencyFails
<1> QED
  BY <1>1, <1>2, SubmitTyped, CheckDebitTyped, CheckCreditTyped, LookupAccountsTyped,
     LookupHoldTyped, ExecuteTbTyped, WriteMetadataTyped, CheckBalanceTyped,
     UpdateStatusTyped, CommitTyped, CommitFailsTyped, DieTyped, ExpireHoldTyped
     DEF Next

\* For every bank: the variables keep their shape, whatever requests, deaths and
\* expiries are interleaved.
THEOREM TypeCorrect == Spec => []TypeOK
<1>1. TypeInv => TypeOK
  BY DEF TypeInv
<1> QED
  BY <1>1, InitTyped, NextTyped, PTL DEF Spec

THEOREM TypeInvCorrect == Spec => []TypeInv
BY InitTyped, NextTyped, PTL DEF Spec

-----------------------------------------------------------------------------
(* Closed accounts.  What a request has validated by the time it waits at   *)
(* each await: an account it found active was not closed when it arrived.   *)

\* A closed account stays closed.
StillClosed == \A r \in Requests : \A u \in closedBefore[r] : status[u] = "closed"

\* The requests each await belongs to.
OnRoute(r) ==
    /\ pc[r] = "new" => transfers[r] = NoTransfer
    /\ pc[r] = "debit" => input[r].kind # "deposit"
    /\ pc[r] = "credit" => input[r].kind \in ExplicitKinds \cup {"deposit", "hold"}

\* The accounts of r validated so far.
Validated(r) ==
    pc[r] # "new" /\ input[r].kind \in CreatingKinds =>
        /\ pc[r] = "credit" /\ input[r].kind # "deposit" =>
               input[r].debit \notin closedBefore[r]
        /\ \/ pc[r] = "execute" \/ transfers[r] # NoTransfer
           \/ pc[r] = "lookup" /\ input[r].kind # "hold"
           => Named(input[r]) \cap closedBefore[r] = {}

CloseInv == /\ StillClosed
            /\ \A r \in Requests : OnRoute(r) /\ Validated(r)

\* A request that is not sent to TigerBeetle keeps CloseInv if its next await asks
\* for no more validation than it has made.
LEMMA CloseStep ==
    ASSUME TypeInv, CloseInv, NEW r \in Requests, pc[r] # "new",
           UNCHANGED <<input, closedBefore>>,
           \A u \in Customers : status[u] = "closed" => status'[u] = "closed",
           \A q \in Requests \ {r} :
               /\ pc'[q] = pc[q]
               /\ transfers[q] = NoTransfer <=> transfers'[q] = NoTransfer,
           pc'[r] # "new",
           OnRoute(r)', Validated(r)'
    PROVE  CloseInv'
<1>1. StillClosed'
  BY DEF CloseInv, StillClosed, TypeInv, TypeOK
<1>2. ASSUME NEW q \in Requests \ {r} PROVE OnRoute(q)' /\ Validated(q)'
  BY <1>2 DEF CloseInv, OnRoute, Validated
<1> QED
  BY <1>1, <1>2 DEF CloseInv

\* An account whose row was judged fit is a customer's, and is not closed.
LEMMA ActiveRow ==
    ASSUME NEW key, AccountRefusal(key) = "none"
    PROVE  key \in Customers /\ status[key] # "closed"
  BY DEF AccountRefusal, RowExists

\* The row a service looks at is the row of the account it was asked about.
LEMMA RowOfAccount ==
    ASSUME NEW u \in Customers, NEW kind, RowKey(kind, u) \in Customers
    PROVE  RowKey(kind, u) = u
  BY IdsApartAssumption DEF RowKey

LEMMA CheckDebitCloses ==
    ASSUME TypeInv, CloseInv, NEW r \in Requests, CheckDebit(r) PROVE CloseInv'
<1> DEFINE i == input[r]
<1>1. /\ pc[r] = "debit" /\ i \in Inputs /\ i.kind # "deposit"
      /\ UNCHANGED <<transfers, status, input, closedBefore>>
      /\ pc \in [Requests -> Phases]
  BY DEF CheckDebit, TypeInv, TypeOK, Prepared, CloseInv, OnRoute, tbVars, pgVars
<1>2. Validated(r) /\ OnRoute(r) /\ StillClosed
  BY DEF CloseInv
<1>3. CASE \E a : EndWith(r, a)
  <2>1. pc' = [pc EXCEPT ![r] = "done"]
    BY <1>3 DEF EndWith
  <2>2. OnRoute(r)' /\ Validated(r)'
    BY <1>1, <1>2, <2>1 DEF OnRoute, Validated
  <2> QED
    BY <1>1, <2>1, <2>2, CloseStep
<1>4. CASE i.kind = "close" /\ GoTo(r, "balance")
  <2>1. pc' = [pc EXCEPT ![r] = "balance"]
    BY <1>4 DEF GoTo
  <2>2. OnRoute(r)' /\ Validated(r)'
    BY <1>1, <1>2, <2>1 DEF OnRoute, Validated
  <2> QED
    BY <1>1, <2>1, <2>2, CloseStep
<1>5. CASE /\ i.kind # "close" /\ AccountRefusal(RowKey(i.kind, i.debit)) = "none"
           /\ GoTo(r, AfterDebit(i.kind))
  <2>1. pc' = [pc EXCEPT ![r] = AfterDebit(i.kind)]
    BY <1>5 DEF GoTo
  <2>2. ASSUME i.kind \in CreatingKinds PROVE i.debit \notin closedBefore[r]
    <3>1. i.debit \in Customers
      BY <1>1, <2>2, InputShape DEF Valid, CreatingKinds, SimpleKinds, TransferKinds
    <3>2. RowKey(i.kind, i.debit) = i.debit /\ status[i.debit] # "closed"
      BY <1>5, <3>1, ActiveRow, RowOfAccount
    <3> QED
      BY <1>2, <3>2 DEF StillClosed
  <2>3. OnRoute(r)' /\ Validated(r)'
    BY <1>1, <1>2, <2>1, <2>2 DEF OnRoute, Validated, AfterDebit, Named, CreatingKinds,
       SimpleKinds, TransferKinds, ExplicitKinds
  <2> QED
    BY <1>1, <2>1, <2>3, CloseStep DEF AfterDebit
<1> QED
  BY <1>3, <1>4, <1>5 DEF CheckDebit, AfterDebit, ExplicitKinds

LEMMA CheckCreditCloses ==
    ASSUME TypeInv, CloseInv, NEW r \in Requests, CheckCredit(r) PROVE CloseInv'
<1> DEFINE i == input[r]
           next == IF i.kind = "hold" THEN "execute" ELSE "lookup"
<1>1. /\ pc[r] = "credit" /\ i \in Inputs
      /\ i.kind \in ExplicitKinds \cup {"deposit", "hold"}
      /\ UNCHANGED <<transfers, status, input, closedBefore>>
      /\ pc \in [Requests -> Phases]
  BY DEF CheckCredit, TypeInv, TypeOK, Prepared, CloseInv, OnRoute, tbVars, pgVars
<1>2. Validated(r) /\ OnRoute(r) /\ StillClosed
  BY DEF CloseInv
<1>3. CASE \E a : EndWith(r, a)
  <2>1. pc' = [pc EXCEPT ![r] = "done"]
    BY <1>3 DEF EndWith
  <2>2. OnRoute(r)' /\ Validated(r)'
    BY <1>1, <1>2, <2>1 DEF OnRoute, Validated
  <2> QED
    BY <1>1, <2>1, <2>2, CloseStep
<1>4. CASE AccountRefusal(RowKey(i.kind, i.credit)) = "none" /\ GoTo(r, next)
  <2>1. pc' = [pc EXCEPT ![r] = next]
    BY <1>4 DEF GoTo
  <2>2. i.credit \in Customers
    BY <1>1, InputShape DEF Valid
  <2>3. RowKey(i.kind, i.credit) = i.credit /\ status[i.credit] # "closed"
    BY <1>4, <2>2, ActiveRow, RowOfAccount
  <2>4. i.credit \notin closedBefore[r]
    BY <1>2, <2>3 DEF StillClosed
  <2>5. i.kind # "deposit" => i.debit \notin closedBefore[r]
    BY <1>1, <1>2 DEF Validated, CreatingKinds, SimpleKinds, TransferKinds
  <2>6. Named(i) \cap closedBefore[r] = {}
    BY <1>1, <2>4, <2>5 DEF Named, ExplicitKinds
  <2>7. OnRoute(r)' /\ Validated(r)'
    BY <1>1, <1>2, <2>1, <2>6 DEF OnRoute, Validated
  <2> QED
    BY <1>1, <2>1, <2>7, CloseStep
<1> QED
  BY <1>3, <1>4 DEF CheckCredit

LEMMA SubmitCloses == ASSUME TypeInv, CloseInv, NEW r \in Requests, Submit(r) PROVE CloseInv'
<1>1. /\ pc[r] = "new" /\ UNCHANGED <<transfers, status>>
      /\ closedBefore' = [closedBefore EXCEPT ![r] = {u \in Customers : status[u] = "closed"}]
  BY DEF Submit, tbVars, pgVars
<1>2. PICK i \in Inputs : /\ input' = [input EXCEPT ![r] = i]
                          /\ pc' = [pc EXCEPT ![r] = FirstPhase(i.kind)]
  BY DEF Submit
<1>3. StillClosed'
  BY <1>1 DEF CloseInv, StillClosed, TypeInv, TypeOK
<1>4. ASSUME NEW q \in Requests, q # r PROVE OnRoute(q)' /\ Validated(q)'
  BY <1>1, <1>2, <1>4 DEF CloseInv, OnRoute, Validated, TypeInv, TypeOK
<1>5. OnRoute(r)' /\ Validated(r)'
  <2>1. /\ pc'[r] = FirstPhase(i.kind) /\ input'[r] = i
        /\ transfers'[r] = NoTransfer
    BY <1>1, <1>2 DEF CloseInv, OnRoute, TypeInv, TypeOK
  <2>2. /\ FirstPhase(i.kind) \in {"debit", "credit", "lookup", "hold"}
        /\ FirstPhase(i.kind) = "debit" => i.kind # "deposit"
        /\ FirstPhase(i.kind) = "credit" => i.kind = "deposit"
        /\ FirstPhase(i.kind) = "lookup" => i.kind = "hold"
    BY DEF FirstPhase
  <2> QED
    BY <2>1, <2>2 DEF OnRoute, Validated
<1> QED
  BY <1>3, <1>4, <1>5 DEF CloseInv

\* A step past the checks: r goes to an await at which no more is asked of it.
LEMMA LaterStepCloses ==
    ASSUME TypeInv, CloseInv, NEW r \in Requests, pc[r] # "new",
           NEW phase \in {"update", "record", "commit", "done"},
           pc' = [pc EXCEPT ![r] = phase], UNCHANGED <<input, closedBefore>>,
           \A u \in Customers : status[u] = "closed" => status'[u] = "closed",
           \A q \in Requests \ {r} : transfers[q] = NoTransfer <=> transfers'[q] = NoTransfer,
           pc[r] = "execute" \/ UNCHANGED transfers
    PROVE  CloseInv'
<1>1. Validated(r)
  BY DEF CloseInv
<1>2. OnRoute(r)' /\ Validated(r)'
  BY <1>1 DEF OnRoute, Validated, TypeInv, TypeOK
<1> QED
  BY <1>2, CloseStep DEF TypeInv, TypeOK

LEMMA LookupCloses ==
    ASSUME TypeInv, CloseInv, NEW r \in Requests, LookupAccounts(r) \/ LookupHold(r)
    PROVE  CloseInv'
<1>1. /\ pc[r] \in {"lookup", "hold"} /\ input[r] \in Inputs
      /\ UNCHANGED <<transfers, status, input, closedBefore>>
      /\ Validated(r)
      /\ pc[r] = "hold" => input[r].kind \in ResolvingKinds
  BY DEF LookupAccounts, LookupHold, TypeInv, Prepared, CloseInv, tbVars, pgVars
<1>2. CASE \E a : EndWith(r, a)
  BY <1>1, <1>2, LaterStepCloses DEF EndWith
<1>3. CASE \/ pc[r] = "lookup" /\ input[r].kind = "hold" /\ GoTo(r, "debit")
           \/ pc[r] = "lookup" /\ input[r].kind # "hold" /\ GoTo(r, "execute")
           \/ pc[r] = "hold" /\ GoTo(r, "execute")
  <2>1. /\ OnRoute(r)' /\ Validated(r)'
        /\ \A q \in Requests \ {r} : pc'[q] = pc[q]
        /\ pc'[r] # "new"
    BY <1>1, <1>3 DEF GoTo, OnRoute, Validated, TypeInv, TypeOK, CreatingKinds,
       SimpleKinds, TransferKinds, ExplicitKinds, ResolvingKinds
  <2> QED
    BY <1>1, <2>1, CloseStep
<1> QED
  BY <1>2, <1>3 DEF LookupAccounts, LookupHold

LEMMA NextKeepsClosed == TypeInv /\ CloseInv /\ [Next]_vars => CloseInv'
<1> SUFFICES ASSUME TypeInv, CloseInv, [Next]_vars PROVE CloseInv'
  OBVIOUS
<1>1. CASE UNCHANGED vars
  BY <1>1 DEF vars, CloseInv, StillClosed, OnRoute, Validated
<1>2. ASSUME NEW r \in Requests, ExecuteTb(r) \/ Die(r) PROVE CloseInv'
  <2>1. /\ pc[r] # "new" /\ UNCHANGED <<input, closedBefore, status>>
        /\ \/ pc' = [pc EXCEPT ![r] = "done"]
           \/ pc' = [pc EXCEPT ![r] = "record"]
        /\ \/ UNCHANGED transfers
           \/ pc[r] = "execute" /\ TbAccepts(r) /\ TbApply(r)
    BY <1>2 DEF ExecuteTb, Die, Live, EndWith, tbVars, pgVars
  <2>2. /\ \A q \in Requests \ {r} : transfers[q] = NoTransfer <=> transfers'[q] = NoTransfer
        /\ pc[r] = "execute" \/ UNCHANGED transfers
    BY <2>1, ApplyEffect
  <2> QED
    BY <2>1, <2>2, LaterStepCloses
<1>3. ASSUME NEW r \in Requests,
             \/ WriteMetadata(r) \/ UpdateStatus(r) \/ Commit(r) \/ CommitFails(r)
             \/ DependencyFails(r) \/ CheckBalance(r)
      PROVE  CloseInv'
  <2>1. /\ pc[r] # "new" /\ UNCHANGED <<input, closedBefore, transfers>>
        /\ \/ pc' = [pc EXCEPT ![r] = "done"]
           \/ pc' = [pc EXCEPT ![r] = "commit"]
           \/ pc' = [pc EXCEPT ![r] = "update"]
    BY <1>3 DEF WriteMetadata, UpdateStatus, Commit, CommitFails, DependencyFails,
       CheckBalance, EndWith, GoTo, tbVars
  <2>2. \A u \in Customers : status[u] = "closed" => status'[u] = "closed"
    BY <1>3 DEF WriteMetadata, UpdateStatus, Commit, CommitFails, DependencyFails,
       CheckBalance, pgVars, TypeInv, TypeOK
  <2> QED
    BY <2>1, <2>2, LaterStepCloses
<1>4. ASSUME NEW h \in Requests, ExpireHold(h) PROVE CloseInv'
  <2>1. /\ UNCHANGED <<status, input, pc, closedBefore>>
        /\ \A q \in Requests : transfers[q] = NoTransfer <=> transfers'[q] = NoTransfer
    BY <1>4, ExpireHoldTyped, CustomersAssumption
       DEF ExpireHold, Pending, pgVars, TypeInv, TypeOK, TransferRecords
  <2> QED
    BY <2>1 DEF CloseInv, StillClosed, OnRoute, Validated
<1> QED
  BY <1>1, <1>2, <1>3, <1>4, SubmitCloses, CheckDebitCloses, CheckCreditCloses,
     LookupCloses DEF Next

\* For every bank: a deposit, withdrawal, transfer, fee or hold that arrives after an
\* account was closed never moves or reserves money of it (the reads of accounts.status
\* in the three services; captures and voids read none and are not spoken of).
THEOREM NoLateBusinessCorrect == Spec => []NoLateBusiness
<1>1. Init => CloseInv
  BY DEF Init, CloseInv, StillClosed, OnRoute, Validated
<1>2. TypeInv /\ CloseInv => NoLateBusiness
  BY DEF TypeInv, TypeOK, CloseInv, OnRoute, Validated, NoLateBusiness
<1> QED
  BY <1>1, <1>2, TypeInvCorrect, NextKeepsClosed, PTL DEF Spec
=============================================================================
