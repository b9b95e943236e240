-------------------------- MODULE Transfers_proofs --------------------------
(***************************************************************************)
(* What Payments guarantees of the transfers themselves, for every bank:   *)
(* that they are what was asked for and what clients are told, that a hold *)
(* is resolved once, that PostgreSQL follows TigerBeetle, and that the     *)
(* totals of every account are explained by them.                          *)
(***************************************************************************)
EXTENDS Payments_proofs

-----------------------------------------------------------------------------
(* The invariant.  From the dict a request builds to the record TigerBeetle *)
(* keeps of it, nothing is lost, and nothing is recorded before it is sent. *)

\* The awaits of a request that has sent nothing.
Unsent == {"new", "debit", "credit", "lookup", "hold", "balance", "update", "execute"}

\* Which requests get to which await, and what they have done by then.
OnWay(r) ==
    /\ pc[r] \in Unsent => transfers[r] = NoTransfer /\ reply[r] = "none"
    /\ pc[r] = "debit" => input[r].kind \notin ResolvingKinds
    /\ pc[r] \in {"credit", "lookup"} => input[r].kind \in CreatingKinds
    /\ pc[r] \in {"balance", "update"} => input[r].kind = "close"
    /\ pc[r] = "record" => transfers[r] # NoTransfer /\ reply[r] = SuccessOf(input[r].kind)
    /\ pc[r] # "commit" => staged[r] = NoRow

\* The hold that r is to resolve, and how much of it.
HoldHonest(r) ==
    LET hold == transfers[input[r].hold]
    IN /\ hold # NoTransfer
       /\ leg[r].debit = hold.debit /\ leg[r].credit = hold.credit
       /\ leg[r].amount = AskedAmount(input[r])
       /\ leg[r].amount <= hold.amount

\* A dict that was built is what the client asked for, and stays so for the life of
\* the request, whatever becomes of the hold it was built from.
LegHonest(r) ==
    HasLeg(r) \/ transfers[r] # NoTransfer =>
        /\ pc[r] # "new" /\ leg[r] \in Legs
        /\ input[r].kind \in CreatingKinds \cup ResolvingKinds
        /\ input[r].kind \in CreatingKinds =>
               /\ leg[r].debit = UuidToUint128(DebitUuid(input[r]))
               /\ leg[r].credit = UuidToUint128(CreditUuid(input[r]))
               /\ leg[r].ledger = input[r].currency
               /\ leg[r].amount = input[r].amount
        /\ input[r].kind \in ResolvingKinds => HoldHonest(r)

\* What TigerBeetle has of r is the dict that r sent.
Recorded(r) ==
    transfers[r] # NoTransfer =>
        /\ \E s \in {"posted", "pending", "voided", "expired"} :
               transfers[r] = [TransferOf(r) EXCEPT !.state = s]
        /\ input[r].kind # "hold" => transfers[r].state = "posted"
        /\ input[r].kind \in CreatingKinds =>
               /\ LedgerOf[leg[r].debit] = leg[r].ledger
               /\ LedgerOf[leg[r].credit] = leg[r].ledger

\* A success is told of a transfer, a refusal of none.
Told(r) ==
    /\ reply[r] \in Successes \ {"closed"} =>
           transfers[r] # NoTransfer /\ reply[r] = SuccessOf(input[r].kind)
    /\ reply[r] \in Refusals \cup {"ErrInsufficientBalance", "ValueError"} =>
           transfers[r] = NoTransfer

\* A row is the one that the request of its transfer writes.
Filed(row) ==
    /\ row.transfer \in Requests /\ transfers[row.transfer] # NoTransfer
    /\ row = MetadataRow(row.transfer) /\ row.account \in Customers

AllFiled == /\ \A row \in metadata : Filed(row)
            /\ \A r \in Requests : staged[r] # NoRow => Filed(staged[r])

MoneyInv == /\ \A r \in Requests : OnWay(r) /\ LegHonest(r) /\ Recorded(r) /\ Told(r)
            /\ OneResolution
            /\ AllFiled

LEMMA InitMoney == Init => MoneyInv
<1> SUFFICES ASSUME Init PROVE MoneyInv
  OBVIOUS
<1>1. ASSUME NEW r \in Requests
      PROVE  /\ pc[r] = "new" /\ transfers[r] = NoTransfer /\ reply[r] = "none"
             /\ staged[r] = NoRow
  BY DEF Init
<1>2. \A r \in Requests : OnWay(r) /\ LegHonest(r) /\ Recorded(r) /\ Told(r)
  BY <1>1 DEF OnWay, LegHonest, HasLeg, Recorded, Told, Successes, Refusals
<1>3. OneResolution
  BY <1>1 DEF OneResolution, Resolutions
<1>4. AllFiled
  BY <1>1 DEF AllFiled, Init
<1> QED
  BY <1>2, <1>3, <1>4 DEF MoneyInv

-----------------------------------------------------------------------------
(* The three things a step can do to TigerBeetle: execute the transfer of a *)
(* request, let a hold expire, or nothing.                                  *)

\* TigerBeetle executes the transfer of r.
Sends(r) == pc[r] = "execute" /\ TbAccepts(r) /\ TbApply(r)

\* The state that a hold has after r has resolved it.
ResolvedState(r) == IF input[r].kind = "capture" THEN "posted" ELSE "voided"

\* One transfer is new, and the hold it resolves has changed its state.
LEMMA SendEffect ==
    ASSUME TypeInv, MoneyInv, NEW r \in Requests, Sends(r)
    PROVE  LET h == input[r].hold
           IN /\ input[r] \in Inputs /\ leg[r] \in Legs
              /\ input[r].kind \in CreatingKinds \cup ResolvingKinds
              /\ transfers[r] = NoTransfer
              /\ transfers'[r] = TransferOf(r) /\ transfers'[r] # NoTransfer
              /\ transfers' \in [Requests -> TransferRecords \cup {NoTransfer}]
              /\ input[r].kind \in ResolvingKinds =>
                     /\ h \in Requests /\ h # r /\ Pending(h)
                     /\ transfers'[h] = [transfers[h] EXCEPT !.state = ResolvedState(r)]
              /\ \A q \in Requests \ {r} :
                     (input[r].kind \in ResolvingKinds /\ q = h) \/ transfers'[q] = transfers[q]
<1> DEFINE h == input[r].hold
<1>1. /\ pc[r] = "execute" /\ TbAccepts(r) /\ TbApply(r)
      /\ input[r] \in Inputs /\ leg[r] \in Legs
      /\ transfers \in [Requests -> TransferRecords \cup {NoTransfer}]
      /\ transfers[r] = NoTransfer
      /\ input[r].kind \in CreatingKinds \cup ResolvingKinds
  BY DEF Sends, TypeInv, TypeOK, Prepared, HasLeg, MoneyInv, OnWay, Unsent, LegHonest
<1>2. /\ TransferOf(r) # NoTransfer
      /\ transfers' \in [Requests -> TransferRecords \cup {NoTransfer}]
  BY <1>1, RecordShape, ApplyEffect, CustomersAssumption
<1>3. CASE input[r].kind \in ResolvingKinds
  <2>1. h \in Requests /\ Pending(h) /\ h # r
    BY <1>1, <1>3, InputShape DEF TbAccepts, Valid, Pending
  <2>2. transfers' = [transfers EXCEPT ![r] = TransferOf(r), ![h].state = ResolvedState(r)]
    BY <1>1, <1>3 DEF TbApply, ResolvedState, ResolvingKinds
  <2> QED
    BY <1>1, <1>2, <1>3, <2>1, <2>2
<1>4. CASE input[r].kind \notin ResolvingKinds
  <2>1. transfers' = [transfers EXCEPT ![r] = TransferOf(r)]
    BY <1>1, <1>4 DEF TbApply, ResolvingKinds
  <2> QED
    BY <1>1, <1>2, <1>4, <2>1
<1> QED
  BY <1>3, <1>4

\* What a transfer may become: itself, or a hold that leaves "pending".
Final(q) ==
    transfers[q] # NoTransfer =>
        \/ transfers'[q] = transfers[q]
        \/ /\ Pending(q)
           /\ \E s \in {"posted", "voided", "expired"} :
                  transfers'[q] = [transfers[q] EXCEPT !.state = s]

LEMMA SendFinal ==
    ASSUME TypeInv, MoneyInv, NEW r \in Requests, Sends(r), NEW q \in Requests
    PROVE  Final(q) /\ (q # r /\ transfers[q] = NoTransfer => transfers'[q] = NoTransfer)
  BY SendEffect, ZenonT(30) DEF Final, Pending, ResolvedState

LEMMA ExpireFinal ==
    ASSUME TypeInv, NEW h \in Requests, ExpireHold(h), NEW q \in Requests
    PROVE  Final(q) /\ (transfers[q] = NoTransfer => transfers'[q] = NoTransfer)
  BY DEF Final, ExpireHold, Pending, TypeInv, TypeOK

\* What stays of a transfer that becomes something else.
LEMMA FinalShape ==
    ASSUME TypeInv, NEW q \in Requests, Final(q), transfers[q] # NoTransfer
    PROVE  /\ transfers'[q] # NoTransfer
           /\ transfers'[q].kind = transfers[q].kind
           /\ transfers'[q].debit = transfers[q].debit
           /\ transfers'[q].credit = transfers[q].credit
           /\ transfers'[q].amount = transfers[q].amount
           /\ transfers'[q].pendingId = transfers[q].pendingId
           /\ transfers'[q] = transfers[q] \/ Pending(q)
           /\ \E s \in {"posted", "pending", "voided", "expired"} :
                  transfers'[q] = [transfers[q] EXCEPT !.state = s]
<1>1. transfers[q] \in TransferRecords
  BY DEF TypeInv, TypeOK
<1>2. \A s \in {"posted", "voided", "expired"} :
          [transfers[q] EXCEPT !.state = s] \in TransferRecords
  BY <1>1 DEF TransferRecords
<1>3. CASE transfers'[q] = transfers[q]
  <2>1. transfers[q] = [transfers[q] EXCEPT !.state = transfers[q].state]
    BY <1>1 DEF TransferRecords
  <2> QED
    BY <1>1, <1>3, <2>1 DEF TransferRecords
<1>4. ASSUME NEW s \in {"posted", "voided", "expired"}, Pending(q),
             transfers'[q] = [transfers[q] EXCEPT !.state = s]
      PROVE  /\ transfers'[q] # NoTransfer
             /\ transfers'[q].kind = transfers[q].kind
             /\ transfers'[q].debit = transfers[q].debit
             /\ transfers'[q].credit = transfers[q].credit
             /\ transfers'[q].amount = transfers[q].amount
             /\ transfers'[q].pendingId = transfers[q].pendingId
  BY <1>1, <1>2, <1>4, CustomersAssumption DEF TransferRecords
<1> QED
  BY <1>3, <1>4 DEF Final

\* The transfer that a hold was made into is a hold's.
LEMMA PendingHold ==
    ASSUME TypeInv, MoneyInv, NEW h \in Requests, Pending(h)
    PROVE  /\ input[h].kind = "hold" /\ transfers[h].kind = "pending"
           /\ transfers[h].pendingId = NoHold
<1>1. transfers[h] # NoTransfer /\ transfers[h].state = "pending" /\ Recorded(h)
  BY DEF Pending, MoneyInv
<1>2. input[h].kind = "hold"
  BY <1>1 DEF Recorded
<1> QED
  BY <1>1, <1>2 DEF Recorded, TransferOf, ResolvingKinds

\* A request whose own state does not change keeps what the invariant says of it.
LEMMA BystanderKept ==
    ASSUME TypeInv, MoneyInv, NEW q \in Requests,
           \A p \in Requests : Final(p),
           transfers[q] = NoTransfer => transfers'[q] = NoTransfer,
           pc'[q] = pc[q], input'[q] = input[q], leg'[q] = leg[q],
           reply'[q] = reply[q], staged'[q] = staged[q]
    PROVE  OnWay(q)' /\ LegHonest(q)' /\ Recorded(q)' /\ Told(q)'
<1>1. OnWay(q) /\ LegHonest(q) /\ Recorded(q) /\ Told(q)
  BY DEF MoneyInv
<1>2. transfers[q] = NoTransfer <=> transfers'[q] = NoTransfer
  BY FinalShape
<1>3. OnWay(q)' /\ Told(q)'
  BY <1>1, <1>2 DEF OnWay, Told
<1>4. LegHonest(q)'
  <2>1. HasLeg(q)' <=> HasLeg(q)
    BY DEF HasLeg
  <2>2. ASSUME pc[q] # "new", input[q].kind \in ResolvingKinds, HoldHonest(q)
        PROVE  HoldHonest(q)'
    <3>1. input[q].hold \in Requests /\ input[q] \in Inputs
      BY <2>2, InputShape DEF TypeInv, Prepared, Valid
    <3>2. LET h == input[q].hold
          IN /\ transfers[h] # NoTransfer /\ transfers'[h] # NoTransfer
             /\ transfers'[h].debit = transfers[h].debit
             /\ transfers'[h].credit = transfers[h].credit
             /\ transfers'[h].amount = transfers[h].amount
      BY <2>2, <3>1, FinalShape DEF HoldHonest
    <3> QED
      BY <2>2, <3>2 DEF HoldHonest, AskedAmount
  <2> QED
    BY <1>1, <1>2, <2>1, <2>2 DEF LegHonest
<1>5. Recorded(q)'
  <2> SUFFICES ASSUME transfers[q] # NoTransfer PROVE Recorded(q)'
    BY <1>2 DEF Recorded
  <2>1. TransferOf(q)' = TransferOf(q)
    BY DEF TransferOf
  <2>2. PICK s \in {"posted", "pending", "voided", "expired"} :
            transfers'[q] = [transfers[q] EXCEPT !.state = s]
    BY FinalShape
  <2>3. PICK u : transfers[q] = [TransferOf(q) EXCEPT !.state = u]
    BY <1>1 DEF Recorded
  <2>4. transfers'[q] = [TransferOf(q) EXCEPT !.state = s]
    <3>1. ASSUME NEW t PROVE [[t EXCEPT !.state = u] EXCEPT !.state = s] = [t EXCEPT !.state = s]
      OBVIOUS
    <3> QED
      BY <2>2, <2>3, <3>1
  <2>5. input[q].kind # "hold" => transfers'[q] = transfers[q]
    BY FinalShape, PendingHold
  <2> QED
    BY <1>1, <2>1, <2>4, <2>5 DEF Recorded
<1> QED
  BY <1>3, <1>4, <1>5

-----------------------------------------------------------------------------
(* Resolutions of holds.                                                    *)

\* r resolves h by rights.
Resolves(r, h) ==
    /\ transfers[h] # NoTransfer
    /\ transfers[h].kind = "pending"
    /\ transfers[h].state = IF transfers[r].kind = "post" THEN "posted" ELSE "voided"
    /\ transfers[r].amount <= transfers[h].amount
    /\ transfers[r].debit = transfers[h].debit
    /\ transfers[r].credit = transfers[h].credit

\* A hold that is resolved is not pending, and nothing happens to it any more.
LEMMA ResolvedStays ==
    ASSUME TypeInv, OneResolution, \A p \in Requests : Final(p),
           NEW h \in Requests, NEW r \in Resolutions(h)
    PROVE  /\ r \in Requests /\ Resolutions(h) = {r}
           /\ ~Pending(h) /\ transfers'[h] = transfers[h]
           /\ Resolves(r, h)'
<1>1. r \in Requests /\ Resolutions(h) = {r} /\ Resolves(r, h) /\ transfers[r] # NoTransfer
  BY DEF OneResolution, Resolutions, Resolves
<1>2. ~Pending(h)
  BY <1>1 DEF Pending, Resolves
<1>3. transfers'[h] = transfers[h]
  BY <1>1, <1>2, FinalShape DEF Resolves
<1>4. Resolves(r, h)'
  BY <1>1, <1>3, FinalShape DEF Resolves
<1> QED
  BY <1>1, <1>2, <1>3, <1>4

\* A transfer that was there resolves what it resolved.
LEMMA OldResolution ==
    ASSUME TypeInv, NEW h, NEW r \in Requests, Final(r), transfers[r] # NoTransfer
    PROVE  r \in Resolutions(h)' <=> r \in Resolutions(h)
  BY FinalShape DEF Resolutions

LEMMA ExpireResolves ==
    ASSUME TypeInv, OneResolution,
           \A p \in Requests : /\ Final(p)
                               /\ transfers[p] = NoTransfer => transfers'[p] = NoTransfer
    PROVE  OneResolution'
<1>1. \A h : Resolutions(h)' = Resolutions(h)
  BY OldResolution DEF Resolutions
<1>2. ASSUME NEW h \in Requests, NEW r \in Resolutions(h)
      PROVE  Resolutions(h) = {r} /\ Resolves(r, h)'
  BY <1>2, ResolvedStays
<1> QED
  BY <1>1, <1>2 DEF OneResolution, Resolves

LEMMA SendResolves ==
    ASSUME TypeInv, MoneyInv, NEW r \in Requests, Sends(r)
    PROVE  OneResolution'
<1>1. /\ transfers[r] = NoTransfer /\ transfers'[r] = TransferOf(r)
      /\ transfers'[r] # NoTransfer /\ OneResolution
      /\ \A p \in Requests : Final(p)
      /\ \A p \in Requests \ {r} : transfers[p] = NoTransfer => transfers'[p] = NoTransfer
  <2>1. OneResolution
    BY DEF MoneyInv
  <2>2. /\ \A p \in Requests : Final(p)
        /\ \A p \in Requests \ {r} : transfers[p] = NoTransfer => transfers'[p] = NoTransfer
    BY SendFinal
  <2>3. /\ transfers[r] = NoTransfer /\ transfers'[r] = TransferOf(r)
        /\ transfers'[r] # NoTransfer
    BY SendEffect
  <2> QED
    BY <2>1, <2>2, <2>3
<1>2. SUFFICES ASSUME NEW h \in Requests, NEW q \in Resolutions(h)'
               PROVE  Resolutions(h)' = {q} /\ Resolves(q, h)'
  BY DEF OneResolution, Resolves
<1>3. /\ q \in Requests
      /\ \A p \in Requests \ {r} : p \in Resolutions(h)' <=> p \in Resolutions(h)
      /\ Resolutions(h) \subseteq Requests /\ Resolutions(h)' \subseteq Requests
  BY <1>1, <1>2, OldResolution DEF Resolutions
<1>4. r \in Resolutions(h)' => /\ input[r].kind \in ResolvingKinds /\ input[r].hold = h
                               /\ Pending(h)
                               /\ transfers'[h] = [transfers[h] EXCEPT !.state = ResolvedState(r)]
  <2> SUFFICES ASSUME r \in Resolutions(h)'
               PROVE  input[r].kind \in ResolvingKinds /\ input[r].hold = h
    BY SendEffect
  <2>1. transfers'[r].pendingId = h
    BY DEF Resolutions
  <2> QED
    BY <1>1, <2>1, CustomersAssumption DEF TransferOf
<1>5. CASE q = r
  <2>1. Resolutions(h) = {}
    BY <1>1, <1>2, <1>4, <1>5, ResolvedStays
  <2>2. Resolutions(h)' = {r}
    BY <1>2, <1>3, <1>5, <2>1
  <2>3. /\ input[r].kind \in ResolvingKinds /\ input[r].hold = h /\ Pending(h)
        /\ transfers'[h] = [transfers[h] EXCEPT !.state = ResolvedState(r)]
        /\ transfers[h] # NoTransfer /\ transfers[h] \in TransferRecords
    BY <1>2, <1>4, <1>5 DEF Pending, TypeInv, TypeOK
  <2>4. /\ leg[r].debit = transfers[h].debit /\ leg[r].credit = transfers[h].credit
        /\ leg[r].amount <= transfers[h].amount
    BY <2>3 DEF MoneyInv, LegHonest, HoldHonest, HasLeg, Sends
  <2>5. transfers[h].kind = "pending"
    BY <2>3, PendingHold
  <2>6. /\ transfers'[h] # NoTransfer
        /\ transfers'[h].kind = transfers[h].kind
        /\ transfers'[h].debit = transfers[h].debit
        /\ transfers'[h].credit = transfers[h].credit
        /\ transfers'[h].amount = transfers[h].amount
    BY <1>1, <2>3, FinalShape
  <2>7. transfers'[h].state = ResolvedState(r)
    BY <2>3 DEF TransferRecords
  <2>8. /\ transfers'[r].kind = IF input[r].kind = "capture" THEN "post" ELSE "void"
        /\ transfers'[r].debit = leg[r].debit /\ transfers'[r].credit = leg[r].credit
        /\ transfers'[r].amount = leg[r].amount
    BY <1>1, <2>3 DEF TransferOf, ResolvingKinds
  <2> QED
    BY <1>5, <2>2, <2>4, <2>5, <2>6, <2>7, <2>8 DEF Resolves, ResolvedState
<1>6. CASE q # r
  <2>1. q \in Resolutions(h)
    BY <1>2, <1>3, <1>6
  <2>2. Resolutions(h) = {q} /\ Resolves(q, h)' /\ ~Pending(h)
    BY <1>1, <2>1, ResolvedStays
  <2>3. r \notin Resolutions(h)'
    BY <1>4, <2>2
  <2> QED
    BY <1>2, <1>3, <1>6, <2>2, <2>3
<1> QED
  BY <1>5, <1>6

-----------------------------------------------------------------------------
(* Steps.  One request moves; what is asked of its step is that the request *)
(* itself keeps its part of the invariant.                                  *)

LEMMA FiledStays ==
    ASSUME TypeInv, NEW row, Filed(row), Final(row.transfer),
           input'[row.transfer] = input[row.transfer],
           leg'[row.transfer] = leg[row.transfer]
    PROVE  Filed(row)'
<1>1. row.transfer \in Requests /\ transfers'[row.transfer] # NoTransfer
  BY FinalShape DEF Filed
<1>2. MetadataRow(row.transfer)' = MetadataRow(row.transfer)
  BY DEF MetadataRow, MetadataKey
<1> QED
  BY <1>1, <1>2 DEF Filed

\* The parts of the invariant that are about one request.
Kept(r) == OnWay(r) /\ LegHonest(r) /\ Recorded(r) /\ Told(r)

LEMMA OneMoves ==
    ASSUME TypeInv, MoneyInv, NEW r \in Requests,
           \A p \in Requests : Final(p),
           \A p \in Requests \ {r} :
               /\ transfers[p] = NoTransfer => transfers'[p] = NoTransfer
               /\ pc'[p] = pc[p] /\ input'[p] = input[p] /\ leg'[p] = leg[p]
               /\ reply'[p] = reply[p] /\ staged'[p] = staged[p],
           transfers[r] # NoTransfer => input'[r] = input[r] /\ leg'[r] = leg[r],
           Kept(r)', OneResolution',
           staged'[r] \in {staged[r], NoRow} \/ Filed(staged[r])',
           \A row \in metadata' : row \in metadata \/ (staged[r] # NoRow /\ row = staged[r])
    PROVE  MoneyInv'
<1>1. ASSUME NEW q \in Requests \ {r} PROVE Kept(q)'
  BY <1>1, BystanderKept DEF Kept
<1>2. ASSUME NEW row, Filed(row) PROVE Filed(row)'
  <2>1. row.transfer \in Requests /\ transfers[row.transfer] # NoTransfer
    BY <1>2 DEF Filed
  <2> QED
    BY <1>2, <2>1, FiledStays
<1>3. \A row \in metadata' : Filed(row)'
  BY <1>2 DEF MoneyInv, AllFiled
<1>4. ASSUME NEW q \in Requests, staged'[q] # NoRow PROVE Filed(staged[q])'
  <2>1. CASE staged'[q] = staged[q]
    BY <1>2, <1>4, <2>1 DEF MoneyInv, AllFiled
  <2>2. CASE q = r /\ Filed(staged[r])'
    BY <2>2
  <2> QED
    BY <1>4, <2>1, <2>2
<1>5. AllFiled'
  BY <1>3, <1>4 DEF AllFiled
<1> QED
  BY <1>1, <1>5 DEF MoneyInv, Kept

\* What r sends is what it built, and becomes its record.
LEMMA SendKept ==
    ASSUME TypeInv, MoneyInv, NEW r \in Requests, Sends(r), UNCHANGED <<input, leg>>,
           \/ pc'[r] = "record" /\ reply'[r] = SuccessOf(input[r].kind)
           \/ pc'[r] = "done" /\ reply'[r] = "none",
           staged'[r] = NoRow
    PROVE  Kept(r)'
<1> DEFINE h == input[r].hold
<1>1. /\ input[r] \in Inputs /\ leg[r] \in Legs
      /\ input[r].kind \in CreatingKinds \cup ResolvingKinds
      /\ transfers'[r] = TransferOf(r) /\ transfers'[r] # NoTransfer
  BY SendEffect
<1>2. pc[r] = "execute" /\ OnWay(r) /\ LegHonest(r)
  BY DEF Sends, MoneyInv
<1>3. OnWay(r)'
  BY <1>1 DEF OnWay, Unsent
<1>4. LegHonest(r)'
  <2>1. ASSUME input[r].kind \in ResolvingKinds PROVE HoldHonest(r)'
    <3>1. h \in Requests /\ Final(h) /\ transfers[h] # NoTransfer /\ HoldHonest(r)
      BY <1>2, <2>1, SendEffect, SendFinal DEF Pending, LegHonest, HasLeg
    <3>2. /\ transfers'[h] # NoTransfer
          /\ transfers'[h].debit = transfers[h].debit
          /\ transfers'[h].credit = transfers[h].credit
          /\ transfers'[h].amount = transfers[h].amount
      BY <3>1, FinalShape
    <3> QED
      BY <3>1, <3>2 DEF HoldHonest, AskedAmount
  <2> QED
    BY <1>1, <1>2, <2>1 DEF LegHonest, HasLeg
<1>5. Recorded(r)'
  <2>1. TransferOf(r)' = TransferOf(r)
    BY DEF TransferOf
  <2>2. /\ TransferOf(r) = [TransferOf(r) EXCEPT !.state = TransferOf(r).state]
        /\ TransferOf(r).state \in {"posted", "pending"}
        /\ input[r].kind # "hold" => TransferOf(r).state = "posted"
    BY DEF TransferOf
  <2>3. ASSUME input[r].kind \in CreatingKinds
        PROVE  /\ LedgerOf[leg[r].debit] = leg[r].ledger
               /\ LedgerOf[leg[r].credit] = leg[r].ledger
    BY <2>3 DEF Sends, TbAccepts, Accepts, CreatingKinds, ResolvingKinds, SimpleKinds,
       TransferKinds, ExplicitKinds
  <2> QED
    BY <1>1, <2>1, <2>2, <2>3 DEF Recorded
<1>6. Told(r)'
  BY <1>1 DEF Told, SuccessOf, Successes, Refusals
<1> QED
  BY <1>3, <1>4, <1>5, <1>6 DEF Kept

\* A request that ends in a step of its own says nothing wrong.
LEMMA EndKept ==
    ASSUME TypeInv, MoneyInv, NEW r \in Requests, pc[r] # "new",
           UNCHANGED <<transfers, input, leg>>,
           pc'[r] = "done", staged'[r] = NoRow,
           \/ reply'[r] \in {reply[r], "none", "CommitError"}
           \/ pc[r] \in Unsent /\ reply'[r] \in Refusals \cup {"ValueError"}
    PROVE  Kept(r)'
<1>1. OnWay(r) /\ LegHonest(r) /\ Recorded(r) /\ Told(r)
  BY DEF MoneyInv
<1>2. OnWay(r)'
  BY DEF OnWay, Unsent
<1>3. LegHonest(r)'
  BY <1>1 DEF LegHonest, HasLeg, HoldHonest, AskedAmount
<1>4. Recorded(r)'
  BY <1>1 DEF Recorded, TransferOf
<1>5. Told(r)'
  BY <1>1 DEF OnWay, Told, Successes, Refusals
<1> QED
  BY <1>2, <1>3, <1>4, <1>5 DEF Kept

\* So does one that goes on before it has sent anything.
LEMMA GoKept ==
    ASSUME TypeInv, MoneyInv, NEW r \in Requests, pc[r] \in Unsent,
           UNCHANGED transfers, reply'[r] = reply[r], staged'[r] = staged[r],
           pc'[r] \in Unsent,
           pc'[r] = "debit" => input'[r].kind \notin ResolvingKinds,
           pc'[r] \in {"credit", "lookup"} => input'[r].kind \in CreatingKinds,
           pc'[r] \in {"balance", "update"} => input'[r].kind = "close",
           HasLeg(r)' => LegHonest(r)'
    PROVE  Kept(r)'
<1>1. OnWay(r) /\ LegHonest(r) /\ Recorded(r) /\ Told(r)
  BY DEF MoneyInv
<1>2. transfers'[r] = NoTransfer /\ reply'[r] = "none" /\ staged'[r] = NoRow
  BY <1>1 DEF OnWay, Unsent
<1>3. OnWay(r)'
  BY <1>2 DEF OnWay, Unsent
<1>4. LegHonest(r)' /\ Recorded(r)' /\ Told(r)'
  BY <1>2 DEF LegHonest, Recorded, Told, Successes, Refusals
<1> QED
  BY <1>3, <1>4 DEF Kept

\* A step that leaves TigerBeetle alone.
LEMMA QuietMoves ==
    ASSUME TypeInv, MoneyInv, NEW r \in Requests, UNCHANGED transfers,
           \A p \in Requests \ {r} :
               /\ pc'[p] = pc[p] /\ input'[p] = input[p] /\ leg'[p] = leg[p]
               /\ reply'[p] = reply[p] /\ staged'[p] = staged[p],
           transfers[r] # NoTransfer => input'[r] = input[r] /\ leg'[r] = leg[r],
           Kept(r)',
           staged'[r] \in {staged[r], NoRow} \/ Filed(staged[r])',
           \A row \in metadata' : row \in metadata \/ (staged[r] # NoRow /\ row = staged[r])
    PROVE  MoneyInv'
<1>1. \A p \in Requests : Final(p)
  BY DEF Final
<1>2. OneResolution'
  BY DEF MoneyInv, OneResolution, Resolutions
<1> QED
  BY <1>1, <1>2, OneMoves

\* A request that ends by itself.
LEMMA EndMoves ==
    ASSUME TypeInv, MoneyInv, NEW r \in Requests, pc[r] # "new", NEW a,
           EndWith(r, a), UNCHANGED <<transfers, input, leg>>,
           \/ staged' = [staged EXCEPT ![r] = NoRow]
           \/ UNCHANGED staged /\ pc[r] \in Unsent,
           \A row \in metadata' : row \in metadata \/ (staged[r] # NoRow /\ row = staged[r]),
           \/ a \in {reply[r], "none", "CommitError"}
           \/ pc[r] \in Unsent /\ a \in Refusals \cup {"ValueError"}
    PROVE  MoneyInv'
<1>1. /\ pc' = [pc EXCEPT ![r] = "done"] /\ reply' = [reply EXCEPT ![r] = a]
      /\ pc \in [Requests -> Phases] /\ reply \in [Requests -> Replies]
      /\ staged \in [Requests -> MetadataRows \cup {NoRow}]
  BY DEF EndWith, TypeInv, TypeOK
<1>2. pc[r] \in Unsent => staged[r] = NoRow
  BY DEF MoneyInv, OnWay, Unsent
<1>3. staged'[r] = NoRow
  BY <1>1, <1>2
<1>4. Kept(r)'
  BY <1>1, <1>3, EndKept
<1> QED
  BY <1>1, <1>3, <1>4, QuietMoves

\* A request that goes on, and builds its dict from what it was asked for.
LEMMA GoMoves ==
    ASSUME TypeInv, MoneyInv, NEW r \in Requests, pc[r] \in Unsent,
           NEW phase \in Unsent, GoTo(r, phase),
           UNCHANGED <<transfers, input, staged, metadata>>,
           \A p \in Requests \ {r} : leg'[p] = leg[p],
           phase = "debit" => input[r].kind \notin ResolvingKinds,
           phase \in {"credit", "lookup"} => input[r].kind \in CreatingKinds,
           phase \in {"balance", "update"} => input[r].kind = "close",
           HasLeg(r)' => LegHonest(r)'
    PROVE  MoneyInv'
<1>1. /\ pc' = [pc EXCEPT ![r] = phase] /\ reply' = reply
      /\ pc \in [Requests -> Phases]
  BY DEF GoTo, TypeInv, TypeOK
<1>2. transfers[r] = NoTransfer
  BY DEF MoneyInv, OnWay
<1>3. Kept(r)'
  BY <1>1, GoKept
<1> QED
  BY <1>1, <1>2, <1>3, QuietMoves

LEMMA SubmitMoney == ASSUME TypeInv, MoneyInv, NEW r \in Requests, Submit(r) PROVE MoneyInv'
<1>1. /\ pc[r] = "new" /\ UNCHANGED <<transfers, metadata, leg, staged, reply>>
      /\ pc \in [Requests -> Phases] /\ input \in [Requests -> Inputs \cup {NoInput}]
  BY DEF Submit, TypeInv, TypeOK, tbVars, pgVars
<1>2. PICK i \in Inputs : /\ input' = [input EXCEPT ![r] = i]
                          /\ pc' = [pc EXCEPT ![r] = FirstPhase(i.kind)]
  BY DEF Submit
<1>3. pc'[r] = FirstPhase(i.kind) /\ input'[r] = i /\ i.kind \in Kinds
  BY <1>1, <1>2, InputShape
<1>4. /\ FirstPhase(i.kind) \in {"debit", "credit", "lookup", "hold"}
      /\ FirstPhase(i.kind) = "debit" => i.kind \notin ResolvingKinds
      /\ FirstPhase(i.kind) \in {"credit", "lookup"} => i.kind \in CreatingKinds
      /\ i.kind = "hold" => FirstPhase(i.kind) = "lookup"
  BY DEF FirstPhase, ResolvingKinds, CreatingKinds, SimpleKinds, TransferKinds
<1>5. pc[r] \in Unsent /\ pc'[r] \in Unsent /\ ~HasLeg(r)'
  BY <1>1, <1>3, <1>4 DEF Unsent, HasLeg
<1>6. Kept(r)'
  BY <1>1, <1>3, <1>4, <1>5, GoKept
<1>7. transfers[r] = NoTransfer
  BY <1>5 DEF MoneyInv, OnWay
<1> QED
  BY <1>1, <1>2, <1>6, <1>7, QuietMoves

\* What the services' own checks answer is a refusal.
LEMMA RefusalShape ==
    /\ \A key : AccountRefusal(key) \in Refusals \cup {"none"}
    /\ \A key : CloseRefusal(key) \in Refusals \cup {"none"}
    /\ \A r : ReadFailure(r) \in Refusals
  BY DEF AccountRefusal, CloseRefusal, ReadFailure, Refusals

\* A dict that was built stays honest while the request goes on.
LEMMA LegStays ==
    ASSUME MoneyInv, NEW r \in Requests, HasLeg(r), UNCHANGED <<transfers, input, leg>>,
           pc'[r] # "new"
    PROVE  LegHonest(r)'
  BY DEF MoneyInv, LegHonest, HoldHonest, AskedAmount

LEMMA CheckDebitMoney ==
    ASSUME TypeInv, MoneyInv, NEW r \in Requests, CheckDebit(r) PROVE MoneyInv'
<1> DEFINE next == AfterDebit(input[r].kind)
<1>1. /\ pc[r] = "debit" /\ UNCHANGED <<transfers, metadata, input, leg, staged>>
      /\ input[r] \in Inputs /\ input[r].kind \notin ResolvingKinds
      /\ pc[r] \in Unsent
  BY DEF CheckDebit, TypeInv, Prepared, MoneyInv, OnWay, tbVars, pgVars, Unsent
<1>2. input[r].kind \in Kinds
  BY <1>1, InputShape
<1>3. \/ \E a \in Refusals : EndWith(r, a)
      \/ GoTo(r, next)
  BY RefusalShape DEF CheckDebit
<1>4. CASE GoTo(r, next)
  <2>1. /\ next \in {"credit", "balance", "lookup"}
        /\ next = "credit" => input[r].kind \in CreatingKinds
        /\ next = "lookup" => input[r].kind \in CreatingKinds
        /\ next = "balance" => input[r].kind = "close"
    BY <1>1, <1>2 DEF AfterDebit, Kinds, CreatingKinds, SimpleKinds, TransferKinds
  <2>2. ASSUME HasLeg(r)' PROVE LegHonest(r)'
    <3>1. pc'[r] = next
      BY <1>4 DEF GoTo, TypeInv, TypeOK
    <3>2. HasLeg(r)
      BY <1>1, <2>1, <2>2, <3>1 DEF HasLeg
    <3> QED
      BY <1>1, <2>1, <3>1, <3>2, LegStays
  <2>3. next \in Unsent
    BY <2>1 DEF Unsent
  <2> HIDE DEF next
  <2> QED
    BY <1>1, <1>4, <2>1, <2>2, <2>3, GoMoves
<1> QED
  BY <1>1, <1>3, <1>4, EndMoves

LEMMA CheckCreditMoney ==
    ASSUME TypeInv, MoneyInv, NEW r \in Requests, CheckCredit(r) PROVE MoneyInv'
<1> DEFINE next == IF input[r].kind = "hold" THEN "execute" ELSE "lookup"
<1>1. /\ pc[r] = "credit" /\ UNCHANGED <<transfers, metadata, input, leg, staged>>
      /\ input[r] \in Inputs /\ input[r].kind \in CreatingKinds
      /\ pc[r] \in Unsent
  BY DEF CheckCredit, TypeInv, Prepared, MoneyInv, OnWay, tbVars, pgVars, Unsent
<1>2. \/ \E a \in Refusals : EndWith(r, a)
      \/ GoTo(r, next)
  BY RefusalShape DEF CheckCredit
<1>3. CASE GoTo(r, next)
  <2>1. pc'[r] = next
    BY <1>3 DEF GoTo, TypeInv, TypeOK
  <2>2. ASSUME HasLeg(r)' PROVE LegHonest(r)'
    <3>1. HasLeg(r)
      BY <1>1, <2>1, <2>2, InputShape DEF HasLeg
    <3> QED
      BY <1>1, <2>1, <3>1, LegStays
  <2>3. next \in Unsent \ {"debit", "balance", "update"}
    BY DEF Unsent
  <2> HIDE DEF next
  <2> QED
    BY <1>1, <1>3, <2>2, <2>3, GoMoves
<1> QED
  BY <1>1, <1>2, <1>3, EndMoves

LEMMA LookupAccountsMoney ==
    ASSUME TypeInv, MoneyInv, NEW r \in Requests, LookupAccounts(r) PROVE MoneyInv'
<1> DEFINE i == input[r]
           d == UuidToUint128(DebitUuid(i))
           c == UuidToUint128(CreditUuid(i))
           l == [debit |-> d, credit |-> c, ledger |-> i.currency, amount |-> i.amount]
           next == IF i.kind = "hold" THEN "debit" ELSE "execute"
<1>1. /\ pc[r] = "lookup" /\ UNCHANGED <<transfers, metadata, input, staged>>
      /\ i \in Inputs /\ i.kind \in CreatingKinds
      /\ pc[r] \in Unsent /\ leg \in [Requests -> Legs \cup {NoLeg}]
  BY DEF LookupAccounts, TypeInv, TypeOK, Prepared, MoneyInv, OnWay, tbVars, pgVars, Unsent
<1>2. \/ (\E a \in Refusals : EndWith(r, a)) /\ UNCHANGED leg
      \/ /\ {d, c} \subseteq TbAccounts
         /\ leg' = [leg EXCEPT ![r] = l]
         /\ GoTo(r, next)
  BY DEF LookupAccounts, Refusals
<1>3. CASE /\ {d, c} \subseteq TbAccounts
           /\ leg' = [leg EXCEPT ![r] = l]
           /\ GoTo(r, next)
  <2>1. /\ l \in Legs /\ leg'[r] = l /\ pc'[r] = next
        /\ \A p \in Requests \ {r} : leg'[p] = leg[p]
    BY <1>1, <1>3, InputShape DEF Legs, GoTo, TypeInv, TypeOK
  <2>2. i.kind \notin ResolvingKinds
    BY <1>1 DEF CreatingKinds, SimpleKinds, TransferKinds, ExplicitKinds, ResolvingKinds
  <2>3. LegHonest(r)'
    BY <1>1, <2>1, <2>2 DEF LegHonest
  <2>4. next \in Unsent \ {"credit", "lookup", "balance", "update"}
    BY DEF Unsent
  <2> HIDE DEF next
  <2> QED
    BY <1>1, <1>3, <2>1, <2>2, <2>3, <2>4, GoMoves
<1> QED
  BY <1>1, <1>2, <1>3, EndMoves

LEMMA LookupHoldMoney ==
    ASSUME TypeInv, MoneyInv, NEW r \in Requests, LookupHold(r) PROVE MoneyInv'
<1> DEFINE i == input[r]
           hold == transfers[i.hold]
           n == IF i.kind = "void" THEN hold.amount ELSE CaptureAmount(i, hold.amount)
           l == [debit |-> hold.debit, credit |-> hold.credit,
                 ledger |-> LedgerOf[hold.debit], amount |-> n]
<1>1. /\ pc[r] = "hold" /\ UNCHANGED <<transfers, metadata, input, staged>>
      /\ i \in Inputs /\ i.kind \in ResolvingKinds
      /\ pc[r] \in Unsent /\ leg \in [Requests -> Legs \cup {NoLeg}]
  BY DEF LookupHold, TypeInv, TypeOK, Prepared, tbVars, pgVars, Unsent
<1>2. \/ (\E a \in Refusals : EndWith(r, a)) /\ UNCHANGED leg
      \/ /\ hold # NoTransfer /\ n \in 1 .. hold.amount
         /\ leg' = [leg EXCEPT ![r] = l]
         /\ GoTo(r, "execute")
  BY DEF LookupHold, Refusals
<1>3. CASE /\ hold # NoTransfer /\ n \in 1 .. hold.amount
           /\ leg' = [leg EXCEPT ![r] = l]
           /\ GoTo(r, "execute")
  <2>1. i.hold \in Requests /\ i.amount \in Nat
    BY <1>1, InputShape DEF Valid
  <2>2. hold \in TransferRecords /\ hold.amount \in Nat
    BY <1>3, <2>1 DEF TypeInv, TypeOK, TransferRecords
  <2>3. /\ l \in Legs /\ leg'[r] = l /\ pc'[r] = "execute"
        /\ \A p \in Requests \ {r} : leg'[p] = leg[p]
    BY <1>1, <1>3, <2>2, OpeningAssumption DEF Legs, TransferRecords, GoTo, TypeInv, TypeOK
  <2>4. i.kind \notin CreatingKinds
    BY <1>1 DEF CreatingKinds, SimpleKinds, TransferKinds, ExplicitKinds, ResolvingKinds
  <2>5. n = AskedAmount(i) /\ n <= hold.amount
    BY <1>1, <1>3, <2>2, <2>4 DEF AskedAmount, CaptureAmount, ResolvingKinds
  <2>6. HoldHonest(r)'
    BY <1>1, <1>3, <2>3, <2>5 DEF HoldHonest, AskedAmount
  <2>7. LegHonest(r)'
    BY <1>1, <2>3, <2>4, <2>6 DEF LegHonest
  <2>8. "execute" \in Unsent
    BY DEF Unsent
  <2> QED
    BY <1>1, <1>3, <2>3, <2>7, <2>8, GoMoves
<1> QED
  BY <1>1, <1>2, <1>3, EndMoves

\* The transfer of r is executed, and r goes on or has died meanwhile.
LEMMA SendMoves ==
    ASSUME TypeInv, MoneyInv, NEW r \in Requests, Sends(r),
           UNCHANGED <<input, leg, metadata>>,
           \/ /\ pc' = [pc EXCEPT ![r] = "record"]
              /\ reply' = [reply EXCEPT ![r] = SuccessOf(input[r].kind)]
              /\ UNCHANGED staged
           \/ /\ pc' = [pc EXCEPT ![r] = "done"] /\ reply' = [reply EXCEPT ![r] = "none"]
              /\ staged' = [staged EXCEPT ![r] = NoRow]
    PROVE  MoneyInv'
<1>1. /\ pc \in [Requests -> Phases] /\ reply \in [Requests -> Replies]
      /\ staged \in [Requests -> MetadataRows \cup {NoRow}]
      /\ staged[r] = NoRow /\ transfers[r] = NoTransfer
  BY DEF TypeInv, TypeOK, MoneyInv, OnWay, Sends, Unsent
<1>2. staged'[r] = NoRow
  BY <1>1
<1>3. Kept(r)'
  BY <1>1, <1>2, SendKept
<1>4. /\ \A p \in Requests : Final(p)
      /\ \A p \in Requests \ {r} : transfers[p] = NoTransfer => transfers'[p] = NoTransfer
  BY SendFinal
<1>5. OneResolution'
  BY SendResolves
<1>6. \A p \in Requests \ {r} : /\ pc'[p] = pc[p] /\ input'[p] = input[p] /\ leg'[p] = leg[p]
                                /\ reply'[p] = reply[p] /\ staged'[p] = staged[p]
  BY <1>1
<1> QED
  BY <1>1, <1>2, <1>3, <1>4, <1>5, <1>6, OneMoves

LEMMA ExecuteTbMoney ==
    ASSUME TypeInv, MoneyInv, NEW r \in Requests, ExecuteTb(r) PROVE MoneyInv'
<1>1. pc[r] = "execute" /\ pc[r] \in Unsent /\ UNCHANGED <<metadata, input, leg, staged>>
  BY DEF ExecuteTb, pgVars, Unsent
<1>2. CASE TbAccepts(r)
  BY <1>1, <1>2, SendMoves DEF ExecuteTb, Sends
<1>3. CASE ~TbAccepts(r)
  <2>1. EndWith(r, "ValueError") /\ UNCHANGED transfers
    BY <1>3, AnswerShape DEF ExecuteTb, tbVars
  <2> QED
    BY <1>1, <2>1, EndMoves
<1> QED
  BY <1>2, <1>3

LEMMA DieMoney == ASSUME TypeInv, MoneyInv, NEW r \in Requests, Die(r) PROVE MoneyInv'
<1>1. /\ pc[r] # "new" /\ UNCHANGED <<metadata, input, leg>>
      /\ pc' = [pc EXCEPT ![r] = "done"] /\ reply' = [reply EXCEPT ![r] = "none"]
      /\ staged' = [staged EXCEPT ![r] = NoRow]
      /\ UNCHANGED transfers \/ Sends(r)
  BY DEF Die, Live, Sends, pgVars, tbVars
<1>2. CASE Sends(r)
  BY <1>1, <1>2, SendMoves
<1>3. CASE UNCHANGED transfers
  <2>1. EndWith(r, "none")
    BY <1>1 DEF EndWith
  <2> QED
    BY <1>1, <1>3, <2>1, EndMoves
<1> QED
  BY <1>1, <1>2, <1>3

\* A row is staged by the request whose transfer it is about, under its customer.
LEMMA WriteMetadataMoney ==
    ASSUME TypeInv, MoneyInv, NEW r \in Requests, WriteMetadata(r) PROVE MoneyInv'
<1>1. /\ pc[r] = "record" /\ UNCHANGED <<transfers, metadata, input, leg, reply>>
      /\ pc' = [pc EXCEPT ![r] = "commit"]
      /\ pc \in [Requests -> Phases] /\ staged \in [Requests -> MetadataRows \cup {NoRow}]
      /\ \/ RowExists(MetadataKey(r)) /\ staged' = [staged EXCEPT ![r] = MetadataRow(r)]
         \/ UNCHANGED staged
  BY DEF WriteMetadata, GoTo, TypeInv, TypeOK, tbVars, pgVars
<1>2. OnWay(r) /\ LegHonest(r) /\ Recorded(r) /\ Told(r)
  BY DEF MoneyInv
<1>3. pc'[r] = "commit" /\ transfers[r] # NoTransfer /\ reply[r] = SuccessOf(input[r].kind)
  BY <1>1, <1>2 DEF OnWay
<1>4. OnWay(r)' /\ Told(r)'
  BY <1>1, <1>2, <1>3 DEF OnWay, Told, Unsent
<1>5. LegHonest(r)' /\ Recorded(r)'
  BY <1>1, <1>2, <1>3 DEF LegHonest, HasLeg, HoldHonest, AskedAmount, Recorded, TransferOf
<1>6. Kept(r)'
  BY <1>4, <1>5 DEF Kept
<1>7. staged'[r] = staged[r] \/ Filed(staged[r])'
  <2>1. CASE RowExists(MetadataKey(r)) /\ staged' = [staged EXCEPT ![r] = MetadataRow(r)]
    <3>1. staged'[r] = MetadataRow(r) /\ MetadataRow(r)' = MetadataRow(r)
      BY <1>1, <2>1 DEF MetadataRow, MetadataKey
    <3>2. MetadataRow(r).transfer = r /\ MetadataRow(r).account \in Customers
      BY <2>1 DEF MetadataRow, RowExists
    <3> QED
      BY <1>1, <1>3, <3>1, <3>2 DEF Filed
  <2> QED
    BY <1>1, <2>1
<1> QED
  BY <1>1, <1>6, <1>7, QuietMoves

LEMMA UpdateStatusMoney ==
    ASSUME TypeInv, MoneyInv, NEW r \in Requests, UpdateStatus(r) PROVE MoneyInv'
<1>1. /\ pc[r] = "update" /\ pc[r] \in Unsent
      /\ UNCHANGED <<transfers, metadata, input, leg, staged>>
      /\ pc \in [Requests -> Phases] /\ reply \in [Requests -> Replies]
  BY DEF UpdateStatus, TypeInv, TypeOK, tbVars, pgVars, Unsent
<1>2. CASE EndWith(r, "ErrAccountClosed")
  <2>1. "ErrAccountClosed" \in Refusals
    BY DEF Refusals
  <2> QED
    BY <1>1, <1>2, <2>1, EndMoves
<1>3. CASE pc' = [pc EXCEPT ![r] = "commit"] /\ reply' = [reply EXCEPT ![r] = "closed"]
  <2>1. transfers[r] = NoTransfer /\ pc'[r] = "commit" /\ reply'[r] = "closed"
    BY <1>1, <1>3 DEF MoneyInv, OnWay
  <2>2. Kept(r)'
    BY <1>1, <2>1 DEF Kept, OnWay, LegHonest, HasLeg, Recorded, Told, Unsent, Successes, Refusals,
       TypeInv, Prepared, MoneyInv
  <2> QED
    BY <1>1, <1>3, <2>2, QuietMoves
<1> QED
  BY <1>2, <1>3 DEF UpdateStatus

LEMMA EndingsMoney ==
    ASSUME TypeInv, MoneyInv, NEW r \in Requests,
           CheckBalance(r) \/ DependencyFails(r) \/ Commit(r) \/ CommitFails(r)
    PROVE  MoneyInv'
<1>1. reply = [reply EXCEPT ![r] = reply[r]]
  BY DEF TypeInv, TypeOK
<1>2. CASE CheckBalance(r)
  <2>1. /\ pc[r] = "balance" /\ pc[r] \in Unsent /\ input[r].kind = "close"
        /\ UNCHANGED <<transfers, metadata, input, leg, staged>>
    BY <1>2 DEF CheckBalance, MoneyInv, OnWay, tbVars, pgVars, Unsent
  <2>2. (\E a \in Refusals : EndWith(r, a)) \/ GoTo(r, "update")
    BY <1>2 DEF CheckBalance, Refusals
  <2>3. GoTo(r, "update") => ~HasLeg(r)'
    BY <2>1 DEF GoTo, HasLeg, TypeInv, TypeOK
  <2>4. "update" \in Unsent
    BY DEF Unsent
  <2>5. GoTo(r, "update") => MoneyInv'
    BY <2>1, <2>3, <2>4, GoMoves
  <2> QED
    BY <2>1, <2>2, <2>5, EndMoves
<1>3. CASE DependencyFails(r)
  <2>1. /\ pc[r] \in Unsent /\ pc[r] # "new"
        /\ UNCHANGED <<transfers, metadata, input, leg, staged>>
        /\ EndWith(r, ReadFailure(r))
    BY <1>3 DEF DependencyFails, tbVars, pgVars, Unsent
  <2> QED
    BY <2>1, RefusalShape, EndMoves
<1>4. CASE Commit(r)
  <2>1. /\ pc[r] # "new" /\ UNCHANGED <<transfers, input, leg>>
        /\ EndWith(r, reply[r]) /\ staged' = [staged EXCEPT ![r] = NoRow]
        /\ \A row \in metadata' : row \in metadata \/ (staged[r] # NoRow /\ row = staged[r])
    BY <1>1, <1>4 DEF Commit, GoTo, EndWith, tbVars
  <2> QED
    BY <2>1, EndMoves
<1>5. CASE CommitFails(r)
  <2>1. /\ pc[r] # "new" /\ UNCHANGED <<transfers, input, leg, metadata>>
        /\ EndWith(r, "CommitError") /\ staged' = [staged EXCEPT ![r] = NoRow]
    BY <1>5 DEF CommitFails, tbVars, pgVars
  <2> QED
    BY <2>1, EndMoves
<1> QED
  BY <1>2, <1>3, <1>4, <1>5

LEMMA ExpireHoldMoney ==
    ASSUME TypeInv, MoneyInv, NEW h \in Requests, ExpireHold(h) PROVE MoneyInv'
<1>1. UNCHANGED <<metadata, input, pc, leg, staged, reply>>
  BY DEF ExpireHold, pgVars
<1>2. \A p \in Requests : Final(p) /\ (transfers[p] = NoTransfer => transfers'[p] = NoTransfer)
  BY ExpireFinal
<1>3. OneResolution'
  BY <1>2, ExpireResolves DEF MoneyInv
<1>4. Kept(h)'
  BY <1>1, <1>2, BystanderKept DEF Kept
<1> QED
  BY <1>1, <1>2, <1>3, <1>4, OneMoves

LEMMA NextMoney == TypeInv /\ MoneyInv /\ [Next]_vars => MoneyInv'
<1> SUFFICES ASSUME TypeInv, MoneyInv, [Next]_vars PROVE MoneyInv'
  OBVIOUS
<1>1. CASE UNCHANGED vars
  <2>1. /\ UNCHANGED <<transfers, metadata, input, pc, leg, staged, reply>>
        /\ \A p \in Requests : Final(p)
    BY <1>1 DEF vars, Final
  <2>2. ASSUME NEW r \in Requests
        PROVE  OnWay(r)' /\ LegHonest(r)' /\ Recorded(r)' /\ Told(r)'
    BY <2>1, BystanderKept
  <2>3. OneResolution'
    BY <2>1 DEF MoneyInv, OneResolution, Resolutions
  <2>4. ASSUME NEW row, Filed(row) PROVE Filed(row)'
    <3>1. row.transfer \in Requests
      BY <2>4 DEF Filed
    <3> QED
      BY <2>1, <2>4, <3>1, FiledStays
  <2>5. AllFiled'
    BY <2>1, <2>4 DEF MoneyInv, AllFiled
  <2> QED
    BY <2>2, <2>3, <2>5 DEF MoneyInv
<1> QED
  BY <1>1, SubmitMoney, CheckDebitMoney, CheckCreditMoney, LookupAccountsMoney,
     LookupHoldMoney, ExecuteTbMoney, WriteMetadataMoney, UpdateStatusMoney, EndingsMoney,
     DieMoney, ExpireHoldMoney DEF Next

\* For every bank: what requests have done by each await, what TigerBeetle recorded for
\* them and what rows and clients say of it agree (the routes of the three services).
THEOREM MoneyInvCorrect == Spec => []MoneyInv
BY InitMoney, NextMoney, TypeInvCorrect, PTL DEF Spec

-----------------------------------------------------------------------------
(* What follows.                                                            *)

\* For every bank: a hold is resolved at most once, by a capture of no more than it
\* reserved or by one void, however captures, voids and its timeout race
\* (HoldService.capture and void).
THEOREM OneResolutionCorrect == Spec => []OneResolution
<1>1. MoneyInv => OneResolution
  BY DEF MoneyInv
<1> QED
  BY <1>1, MoneyInvCorrect, PTL

\* For every bank: a success names a transfer that TigerBeetle has, as it was asked for,
\* and a refusal means that no money moved (the answers of the three services).
THEOREM RepliesTruthfulCorrect == Spec => []RepliesTruthful
<1>1. TypeInv /\ MoneyInv => RepliesTruthful
  <2> SUFFICES ASSUME TypeInv, MoneyInv, NEW r \in Requests
               PROVE  LET i == input[r]
                          t == transfers[r]
                      IN /\ reply[r] \in Successes \ {"closed"} =>
                                /\ t # NoTransfer
                                /\ reply[r] = SuccessOf(i.kind)
                                /\ t.amount = AskedAmount(i)
                                /\ i.kind \in CreatingKinds =>
                                       /\ t.debit = UuidToUint128(DebitUuid(i))
                                       /\ t.credit = UuidToUint128(CreditUuid(i))
                         /\ reply[r] \in Refusals \cup {"ErrInsufficientBalance", "ValueError"} =>
                                t = NoTransfer
    BY DEF RepliesTruthful
  <2>1. LegHonest(r) /\ Recorded(r) /\ Told(r)
    BY DEF MoneyInv
  <2>2. ASSUME transfers[r] # NoTransfer
        PROVE  /\ transfers[r].amount = leg[r].amount
               /\ transfers[r].debit = leg[r].debit /\ transfers[r].credit = leg[r].credit
    BY <2>1, <2>2 DEF Recorded, TransferOf
  <2>3. ASSUME transfers[r] # NoTransfer PROVE leg[r].amount = AskedAmount(input[r])
    BY <2>1, <2>3 DEF LegHonest, HoldHonest, AskedAmount
  <2> QED
    BY <2>1, <2>2, <2>3 DEF Told, LegHonest
<1> QED
  BY <1>1, TypeInvCorrect, MoneyInvCorrect, PTL

\* For every bank: money asked for in one currency never moves in another,
\* although no service compares it with the accounts (the ledger of the transfer dict).
THEOREM CurrencyHonouredCorrect == Spec => []CurrencyHonoured
<1>1. MoneyInv => CurrencyHonoured
  <2> SUFFICES ASSUME MoneyInv, NEW r \in Requests,
                      transfers[r] # NoTransfer, input[r].kind \in CreatingKinds
               PROVE  /\ LedgerOf[transfers[r].debit] = input[r].currency
                      /\ LedgerOf[transfers[r].credit] = input[r].currency
    BY DEF CurrencyHonoured
  <2>1. LegHonest(r) /\ Recorded(r)
    BY DEF MoneyInv
  <2>2. transfers[r].debit = leg[r].debit /\ transfers[r].credit = leg[r].credit
    BY <2>1 DEF Recorded, TransferOf
  <2> QED
    BY <2>1, <2>2 DEF LegHonest, Recorded
<1> QED
  BY <1>1, MoneyInvCorrect, PTL

-----------------------------------------------------------------------------
(* Rows of transfer_metadata.                                               *)

\* HoldService knows its customer by the TigerBeetle form of its identifier: where that
\* is a customer's at all, the two forms are one.
LEMMA HoldKey ==
    ASSUME TypeInv, MoneyInv, NEW h \in Requests, transfers[h] # NoTransfer,
           input[h].kind = "hold", leg[h].debit \in Customers
    PROVE  UuidToUint128(leg[h].debit) = leg[h].debit
<1>1. LegHonest(h)
  BY DEF MoneyInv
<1>2. input[h] \in Inputs
  BY <1>1 DEF LegHonest, TypeInv, Prepared
<1>3. leg[h].debit = UuidToUint128(input[h].debit)
  BY <1>1 DEF LegHonest, CreatingKinds, DebitUuid
<1>4. input[h].debit \in Customers
  BY <1>2, InputShape DEF Valid
<1> QED
  BY <1>3, <1>4, IdsApartAssumption

LEMMA RowAccount ==
    ASSUME TypeInv, MoneyInv, NEW row, Filed(row)
    PROVE  UuidToUint128(row.account) \in {transfers[row.transfer].debit,
                                           transfers[row.transfer].credit}
<1> DEFINE r == row.transfer
           i == input[r]
<1>1. /\ r \in Requests /\ transfers[r] # NoTransfer
      /\ row.account = MetadataKey(r) /\ row.account \in Customers
  BY DEF Filed, MetadataRow
<1>2. LegHonest(r) /\ Recorded(r)
  BY <1>1 DEF MoneyInv
<1>3. transfers[r].debit = leg[r].debit /\ transfers[r].credit = leg[r].credit
  BY <1>1, <1>2 DEF Recorded, TransferOf
<1>4. CASE i.kind = "deposit"
  BY <1>1, <1>2, <1>3, <1>4
     DEF LegHonest, MetadataKey, CreditUuid, CreatingKinds, SimpleKinds, TransferKinds
<1>5. CASE i.kind \in SimpleKinds \ {"deposit"}
  BY <1>1, <1>2, <1>3, <1>5 DEF LegHonest, MetadataKey, DebitUuid, CreatingKinds
<1>6. CASE i.kind = "hold"
  <2>1. row.account = leg[r].debit
    BY <1>1, <1>6 DEF MetadataKey, SimpleKinds, TransferKinds, ExplicitKinds
  <2> QED
    BY <1>1, <1>3, <1>6, <2>1, HoldKey
<1>7. CASE i.kind \in ResolvingKinds
  <2> DEFINE h == i.hold
  <2>1. row.account = leg[r].debit
    BY <1>1, <1>7 DEF MetadataKey, SimpleKinds, TransferKinds, ExplicitKinds, ResolvingKinds
  <2>2. h \in Requests /\ leg[r].debit = transfers[h].debit
    BY <1>1, <1>2, <1>7, InputShape DEF LegHonest, HoldHonest, TypeInv, Prepared, Valid
  <2>3. transfers[r].pendingId = h
    BY <1>1, <1>2, <1>7 DEF Recorded, TransferOf
  <2>4. transfers[h] # NoTransfer /\ transfers[h].kind = "pending"
    BY <1>1, <2>2, <2>3 DEF MoneyInv, OneResolution, Resolutions
  <2>5. Recorded(h)
    BY <2>2 DEF MoneyInv
  <2>6. input[h].kind = "hold" /\ transfers[h].debit = leg[h].debit
    BY <2>4, <2>5 DEF Recorded, TransferOf
  <2> QED
    BY <1>1, <1>3, <2>1, <2>2, <2>4, <2>6, HoldKey
<1> QED
  BY <1>1, <1>2, <1>4, <1>5, <1>6, <1>7 DEF LegHonest, CreatingKinds

\* For every bank: a row of transfer_metadata, even an uncommitted one, is about a transfer
\* that TigerBeetle has, is the only one about it, and is filed under its customer
\* (the background insert of the three services).
THEOREM MetadataFollowsTransferCorrect == Spec => []MetadataFollowsTransfer
<1>1. TypeInv /\ MoneyInv => MetadataFollowsTransfer
  <2> SUFFICES ASSUME TypeInv, MoneyInv, NEW row \in Rows
               PROVE  /\ transfers[row.transfer] # NoTransfer
                      /\ UuidToUint128(row.account) \in {transfers[row.transfer].debit,
                                                         transfers[row.transfer].credit}
                      /\ \A other \in Rows : other.transfer = row.transfer => other = row
    BY DEF MetadataFollowsTransfer
  <2>1. \A x \in Rows : Filed(x)
    BY DEF Rows, MoneyInv, AllFiled
  <2> QED
    BY <2>1, RowAccount DEF Filed
<1> QED
  BY <1>1, TypeInvCorrect, MoneyInvCorrect, PTL

-----------------------------------------------------------------------------
(* The books.  A transfer adds its amount to what is posted on its accounts, *)
(* or to what is reserved on them, and so it does to the sums over transfers. *)

\* What the transfer of r posts, and by how much it changes the reservations.
PostedBy(r) == IF input[r].kind \in {"hold", "void"} THEN 0 ELSE leg[r].amount
ReservedBy(r) ==
    CASE input[r].kind = "hold" -> leg[r].amount
      [] input[r].kind \in ResolvingKinds -> 0 - transfers[input[r].hold].amount
      [] OTHER -> 0

LEMMA SendBook ==
    ASSUME TypeInv, MoneyInv, NEW r \in Requests, Sends(r)
    PROVE  Moves(book, book', leg[r].debit, leg[r].credit, PostedBy(r), ReservedBy(r))
<1> DEFINE l == leg[r]
           h == input[r].hold
<1>1. /\ book \in Books /\ l.debit \in TbAccounts /\ l.credit \in TbAccounts
      /\ l.amount \in Nat /\ TbApply(r)
  BY SendEffect DEF Sends, TypeInv, TypeOK, Legs
<1>2. CASE input[r].kind = "hold"
  <2>1. book' = Reserve(book, l.debit, l.credit, l.amount)
    BY <1>1, <1>2 DEF TbApply
  <2>2. PostedBy(r) = 0 /\ ReservedBy(r) = l.amount
    BY <1>2 DEF PostedBy, ReservedBy, ResolvingKinds
  <2> QED
    BY <1>1, <2>1, <2>2, ReserveEffect
<1>3. CASE input[r].kind \in ResolvingKinds
  <2>1. transfers[h] \in TransferRecords
    <3>1. h \in Requests /\ Pending(h)
      BY <1>3, SendEffect
    <3> QED
      BY <3>1 DEF Pending, TypeInv, TypeOK
  <2>2. transfers[h].amount \in Nat
    BY <2>1 DEF TransferRecords
  <2>3. CASE input[r].kind = "capture"
    BY <1>1, <2>2, <2>3, PostPendingEffect DEF TbApply, PostedBy, ReservedBy, ResolvingKinds
  <2>4. CASE input[r].kind = "void"
    BY <1>1, <2>2, <2>4, ReleaseEffect DEF TbApply, PostedBy, ReservedBy, ResolvingKinds
  <2> QED
    BY <1>3, <2>3, <2>4 DEF ResolvingKinds
<1>4. CASE input[r].kind \notin ResolvingKinds \cup {"hold"}
  BY <1>1, <1>4, PostEffect DEF TbApply, PostedBy, ReservedBy, ResolvingKinds
<1> QED
  BY <1>2, <1>3, <1>4

\* The sums are over finitely many natural numbers.
LEMMA SumShape ==
    ASSUME TypeInv, NEW side, NEW a
    PROVE  /\ IsFiniteSet(PostedOn(side, a)) /\ PostedOn(side, a) \subseteq Requests
           /\ IsFiniteSet(OpenOn(side, a)) /\ OpenOn(side, a) \subseteq Requests
           /\ \A q \in Requests : Amounts[q] \in Nat
           /\ Total(PostedOn(side, a), Amounts) \in Nat
           /\ Total(OpenOn(side, a), Amounts) \in Nat
<1>1. PostedOn(side, a) \subseteq Requests /\ OpenOn(side, a) \subseteq Requests
  BY DEF PostedOn, OpenOn
<1>2. IsFiniteSet(PostedOn(side, a)) /\ IsFiniteSet(OpenOn(side, a))
  BY <1>1, FS_Subset, CustomersAssumption
<1>3. \A q \in Requests : Amounts[q] \in Nat
  BY DEF Amounts, TypeInv, TypeOK, TransferRecords
<1> HIDE DEF TypeInv
<1> QED
  BY <1>1, <1>2, <1>3, TotalType

\* What becomes of the terms when r sends its transfer.
LEMMA SendTerms ==
    ASSUME TypeInv, MoneyInv, NEW r \in Requests, Sends(r)
    PROVE  /\ Amounts'[r] = leg[r].amount /\ leg[r].amount \in Nat
           /\ \A q \in Requests \ {r} : Amounts'[q] = Amounts[q]
           /\ transfers'[r].kind \in {"simple", "post"} <=> input[r].kind \notin {"hold", "void"}
           /\ transfers'[r].debit = leg[r].debit /\ transfers'[r].credit = leg[r].credit
           /\ Pending(r)' <=> input[r].kind = "hold"
           /\ transfers[r] = NoTransfer /\ transfers'[r] # NoTransfer
<1>1. /\ leg[r] \in Legs /\ transfers[r] = NoTransfer
      /\ transfers'[r] = TransferOf(r) /\ transfers'[r] # NoTransfer
      /\ input[r].kind \in CreatingKinds \cup ResolvingKinds
  BY SendEffect
<1>2. \A q \in Requests \ {r} : Amounts'[q] = Amounts[q]
  BY SendFinal, FinalShape DEF Amounts
<1>3. Amounts'[r] = leg[r].amount
  BY <1>1 DEF Amounts, TransferOf
<1> QED
  BY <1>1, <1>2, <1>3 DEF TransferOf, Pending, Legs

LEMMA SendPosted ==
    ASSUME TypeInv, MoneyInv, NEW r \in Requests, Sends(r),
           NEW side \in {"debit", "credit"}, NEW a
    PROVE  Total(PostedOn(side, a)', Amounts') =
           Total(PostedOn(side, a), Amounts) + (IF leg[r][side] = a THEN PostedBy(r) ELSE 0)
<1> DEFINE S == PostedOn(side, a)
<1>1. /\ Amounts'[r] = leg[r].amount /\ leg[r].amount \in Nat
      /\ \A q \in Requests \ {r} : Amounts'[q] = Amounts[q]
      /\ transfers'[r].kind \in {"simple", "post"} <=> input[r].kind \notin {"hold", "void"}
      /\ transfers'[r][side] = leg[r][side]
      /\ transfers[r] = NoTransfer /\ transfers'[r] # NoTransfer
  BY SendTerms
<1>2. /\ IsFiniteSet(S) /\ r \notin S
      /\ \A q \in S : Amounts[q] \in Nat /\ Amounts'[q] = Amounts[q]
      /\ Total(S, Amounts) \in Nat /\ S \subseteq Requests
  <2>1. r \notin S
    BY <1>1 DEF PostedOn
  <2>2. /\ IsFiniteSet(S) /\ S \subseteq Requests /\ Total(S, Amounts) \in Nat
        /\ \A q \in Requests : Amounts[q] \in Nat
    BY SumShape
  <2> QED
    BY <1>1, <2>1, <2>2
<1>3. \A q \in Requests \ {r} : q \in S' <=> q \in S
  BY SendFinal, FinalShape, ZenonT(30) DEF PostedOn
<1>4. r \in S' <=> input[r].kind \notin {"hold", "void"} /\ leg[r][side] = a
  BY <1>1 DEF PostedOn
<1>5. S' \subseteq Requests
  BY DEF PostedOn
<1>6. CASE r \in S'
  <2>1. S' = S \cup {r}
    BY <1>2, <1>3, <1>5, <1>6
  <2>2. Total(S \cup {r}, Amounts') = Total(S, Amounts) + Amounts'[r]
    <3> HIDE DEF S
    <3>1. \A q \in S : Amounts'[q] \in Nat /\ Amounts[q] = Amounts'[q]
      BY <1>2
    <3>2. Total(S, Amounts) = Total(S, Amounts')
      BY <3>1, TotalSame
    <3>3. Total(S \cup {r}, Amounts') = Total(S, Amounts') + Amounts'[r]
      BY <1>1, <1>2, <3>1, TotalAdd
    <3> QED
      BY <3>2, <3>3
  <2> QED
    BY <1>1, <1>4, <1>6, <2>1, <2>2 DEF PostedBy
<1>7. CASE r \notin S'
  <2>1. S' = S
    BY <1>2, <1>3, <1>5, <1>7
  <2>2. Total(S', Amounts') = Total(S, Amounts)
    BY <1>2, <2>1, TotalSame
  <2> QED
    BY <1>2, <1>4, <1>7, <2>2 DEF PostedBy
<1> QED
  BY <1>6, <1>7

LEMMA SendOpen ==
    ASSUME TypeInv, MoneyInv, NEW r \in Requests, Sends(r),
           NEW side \in {"debit", "credit"}, NEW a
    PROVE  Total(OpenOn(side, a)', Amounts') =
           Total(OpenOn(side, a), Amounts) + (IF leg[r][side] = a THEN ReservedBy(r) ELSE 0)
<1> DEFINE S == OpenOn(side, a)
<1>0. PICK h : h = input[r].hold
  OBVIOUS
<1>1. /\ Amounts'[r] = leg[r].amount /\ leg[r].amount \in Nat
      /\ \A q \in Requests \ {r} : Amounts'[q] = Amounts[q]
      /\ transfers'[r][side] = leg[r][side]
      /\ Pending(r)' <=> input[r].kind = "hold"
      /\ transfers[r] = NoTransfer
  BY SendTerms
<1>2. /\ IsFiniteSet(S) /\ r \notin S
      /\ \A q \in S : Amounts[q] \in Nat /\ Amounts'[q] = Amounts[q]
      /\ Total(S, Amounts) \in Nat /\ S \subseteq Requests /\ S' \subseteq Requests
  <2>1. r \notin S
    BY <1>1 DEF OpenOn, Pending
  <2>2. /\ IsFiniteSet(S) /\ S \subseteq Requests /\ Total(S, Amounts) \in Nat
        /\ \A q \in Requests : Amounts[q] \in Nat
    BY SumShape
  <2>3. S' \subseteq Requests
    BY DEF OpenOn
  <2> QED
    BY <1>1, <2>1, <2>2, <2>3
<1>3. r \in S' <=> input[r].kind = "hold" /\ leg[r][side] = a
  BY <1>1 DEF OpenOn
<1>4. ASSUME NEW q \in Requests \ {r}, input[r].kind \notin ResolvingKinds \/ q # h
      PROVE  q \in S' <=> q \in S
  <2>1. transfers'[q] = transfers[q]
    <3>1. q \in Requests /\ q # r
      OBVIOUS
    <3>2. \A p \in Requests \ {r} :
              (input[r].kind \in ResolvingKinds /\ p = input[r].hold) \/ transfers'[p] = transfers[p]
      BY SendEffect
    <3> QED
      BY <1>0, <1>4, <3>1, <3>2
  <2> QED
    BY <2>1 DEF OpenOn, Pending
<1>5. CASE input[r].kind = "hold" /\ leg[r][side] = a
  <2>1. S' = S \cup {r}
    BY <1>2, <1>3, <1>4, <1>5 DEF ResolvingKinds
  <2>2. Total(S \cup {r}, Amounts') = Total(S, Amounts) + Amounts'[r]
    <3> HIDE DEF S
    <3>1. \A q \in S : Amounts'[q] \in Nat /\ Amounts[q] = Amounts'[q]
      BY <1>2
    <3>2. Total(S, Amounts) = Total(S, Amounts')
      BY <3>1, TotalSame
    <3>3. Total(S \cup {r}, Amounts') = Total(S, Amounts') + Amounts'[r]
      BY <1>1, <1>2, <3>1, TotalAdd
    <3> QED
      BY <3>2, <3>3
  <2>3. ReservedBy(r) = leg[r].amount
    BY <1>5 DEF ReservedBy, ResolvingKinds
  <2> QED
    BY <1>1, <1>5, <2>1, <2>2, <2>3
<1>6. CASE input[r].kind \in ResolvingKinds /\ leg[r][side] = a
  <2>1. /\ h \in Requests /\ h # r /\ Pending(h)
        /\ transfers'[h] = [transfers[h] EXCEPT !.state = ResolvedState(r)]
    BY <1>0, <1>6, SendEffect
  <2>2. /\ transfers[h] # NoTransfer /\ transfers[h] \in TransferRecords
        /\ Amounts[h] = transfers[h].amount
    BY <2>1 DEF Pending, Amounts, TypeInv, TypeOK
  <2>3. transfers[h][side] = a
    BY <1>0, <1>6, <2>1 DEF MoneyInv, LegHonest, HoldHonest, HasLeg, Sends
  <2>4. h \in S /\ h \notin S'
    <3>1. ~Pending(h)'
      BY <2>1, <2>2 DEF Pending, ResolvedState, TransferRecords
    <3> QED
      BY <2>1, <2>3, <3>1 DEF OpenOn
  <2>5. S' = S \ {h}
    BY <1>2, <1>3, <1>4, <1>6, <2>1, <2>4 DEF ResolvingKinds
  <2>6. Total(S \ {h}, Amounts') = Total(S, Amounts) - Amounts[h]
    <3> HIDE DEF S
    <3>1. \A q \in S \ {h} : Amounts[q] = Amounts'[q]
      BY <1>2
    <3>2. Total(S \ {h}, Amounts) = Total(S \ {h}, Amounts')
      BY <3>1, TotalSame
    <3>3. \A q \in S : Amounts[q] \in Nat
      BY <1>2
    <3>4. h \in S
      BY <2>4
    <3>5. Total(S \ {h}, Amounts) = Total(S, Amounts) - Amounts[h]
      BY <1>2, <3>3, <3>4, TotalRemove
    <3> QED
      BY <3>2, <3>5
  <2>7. ReservedBy(r) = 0 - Amounts[h] /\ Amounts[h] \in Nat
    BY <1>0, <1>2, <1>6, <2>2, <2>4 DEF ReservedBy, ResolvingKinds
  <2> QED
    BY <1>2, <1>6, <2>5, <2>6, <2>7
<1>7. CASE ~(input[r].kind \in ResolvingKinds \cup {"hold"} /\ leg[r][side] = a)
  <2>1. ASSUME input[r].kind \in ResolvingKinds PROVE h \in S' <=> h \in S
    <3>1. h \in Requests /\ h # r /\ Pending(h)
      BY <1>0, <2>1, SendEffect
    <3>2. transfers[h][side] = leg[r][side] /\ transfers'[h][side] = transfers[h][side]
      <4>1. transfers[h][side] = leg[r][side]
        BY <1>0, <2>1, <3>1 DEF MoneyInv, LegHonest, HoldHonest, HasLeg, Sends
      <4>2. transfers'[h][side] = transfers[h][side]
        BY <3>1, SendFinal, FinalShape DEF Pending
      <4> QED
        BY <4>1, <4>2
    <3> QED
      BY <1>7, <2>1, <3>1, <3>2 DEF OpenOn
  <2>2. S' = S
    BY <1>2, <1>3, <1>4, <1>7, <2>1
  <2>3. Total(S', Amounts') = Total(S, Amounts)
    BY <1>2, <2>2, TotalSame
  <2>4. (IF leg[r][side] = a THEN ReservedBy(r) ELSE 0) = 0
    BY <1>7 DEF ReservedBy
  <2> QED
    BY <1>2, <2>3, <2>4
<1> QED
  BY <1>5, <1>6, <1>7

\* A hold that expires leaves the sum of what is reserved, and no other.
LEMMA ExpireTerms ==
    ASSUME TypeInv, MoneyInv, NEW h \in Requests, ExpireHold(h),
           NEW side \in {"debit", "credit"}, NEW a
    PROVE  /\ Total(PostedOn(side, a)', Amounts') = Total(PostedOn(side, a), Amounts)
           /\ Total(OpenOn(side, a)', Amounts') =
              Total(OpenOn(side, a), Amounts)
                  + (IF transfers[h][side] = a THEN 0 - transfers[h].amount ELSE 0)
<1> DEFINE S == OpenOn(side, a)
           P == PostedOn(side, a)
<1>1. /\ Pending(h) /\ transfers' = [transfers EXCEPT ![h].state = "expired"]
      /\ transfers \in [Requests -> TransferRecords \cup {NoTransfer}]
      /\ transfers[h] \in TransferRecords
  BY DEF ExpireHold, Pending, TypeInv, TypeOK
<1>2. /\ \A q \in Requests : Amounts'[q] = Amounts[q] /\ Amounts[q] \in Nat
      /\ Amounts[h] = transfers[h].amount
  <2>1. \A q \in Requests : Amounts'[q] = Amounts[q]
    BY ExpireFinal, FinalShape DEF Amounts
  <2>2. Amounts[h] = transfers[h].amount
    BY <1>1 DEF Amounts, Pending
  <2> QED
    BY <2>1, <2>2, SumShape
<1>3. /\ IsFiniteSet(S) /\ S \subseteq Requests /\ P \subseteq Requests
      /\ Total(S, Amounts) \in Nat
  BY SumShape
<1>4. P' = P
  <2>1. \A q \in Requests : q \in P' <=> q \in P
    BY ExpireFinal, FinalShape, ZenonT(30) DEF PostedOn
  <2>2. P' \subseteq Requests
    BY DEF PostedOn
  <2> QED
    BY <1>3, <2>1, <2>2
<1>5. Total(P', Amounts') = Total(P, Amounts)
  <2>1. \A q \in P : Amounts'[q] = Amounts[q]
    BY <1>2, <1>3
  <2>2. Total(P, Amounts') = Total(P, Amounts)
    BY <2>1, TotalSame
  <2> QED
    BY <1>4, <2>2
<1>6. S' = S \ {h}
  <2>1. ~Pending(h)'
    BY <1>1 DEF Pending, TransferRecords
  <2>2. \A q \in Requests \ {h} : transfers'[q] = transfers[q]
    BY <1>1
  <2>3. \A q \in Requests \ {h} : q \in S' <=> q \in S
    BY <2>2 DEF OpenOn, Pending
  <2>4. h \notin S' /\ S' \subseteq Requests
    BY <2>1 DEF OpenOn
  <2> QED
    BY <1>3, <2>3, <2>4
<1>7. Total(S', Amounts') = Total(S \ {h}, Amounts)
  <2>1. \A q \in S \ {h} : Amounts'[q] = Amounts[q]
    BY <1>2, <1>3
  <2>2. Total(S \ {h}, Amounts') = Total(S \ {h}, Amounts)
    BY <2>1, TotalSame
  <2> QED
    BY <1>6, <2>2
<1>8. h \in S <=> transfers[h][side] = a
  BY <1>1 DEF OpenOn
<1>9. CASE h \in S
  <2>1. \A q \in S : Amounts[q] \in Nat
    BY <1>2, <1>3
  <2>2. Total(S \ {h}, Amounts) = Total(S, Amounts) - Amounts[h]
    <3> HIDE DEF S
    <3> QED
      BY <1>3, <1>9, <2>1, TotalRemove
  <2> QED
    BY <1>2, <1>3, <1>5, <1>7, <1>8, <1>9, <2>2
<1>10. CASE h \notin S
  <2>1. S \ {h} = S
    BY <1>10
  <2>2. Total(S', Amounts') = Total(S, Amounts)
    BY <1>7, <2>1
  <2>3. (IF transfers[h][side] = a THEN 0 - transfers[h].amount ELSE 0) = 0
    BY <1>8, <1>10
  <2> QED
    BY <1>3, <1>5, <2>2, <2>3
<1> QED
  BY <1>9, <1>10

\* The books after a movement, when every sum moved with it.
LEMMA StillExplained ==
    ASSUME TypeInv, BookExplained, NEW d \in TbAccounts, NEW c \in TbAccounts,
           NEW posted \in Int, NEW pending \in Int,
           Moves(book, book', d, c, posted, pending),
           \A a : /\ Total(PostedOn("debit", a)', Amounts') =
                        Total(PostedOn("debit", a), Amounts) + (IF d = a THEN posted ELSE 0)
                  /\ Total(PostedOn("credit", a)', Amounts') =
                        Total(PostedOn("credit", a), Amounts) + (IF c = a THEN posted ELSE 0)
                  /\ Total(OpenOn("debit", a)', Amounts') =
                        Total(OpenOn("debit", a), Amounts) + (IF d = a THEN pending ELSE 0)
                  /\ Total(OpenOn("credit", a)', Amounts') =
                        Total(OpenOn("credit", a), Amounts) + (IF c = a THEN pending ELSE 0)
    PROVE  BookExplained'
<1> SUFFICES ASSUME NEW a \in TbAccounts
             PROVE  /\ book'[a].dp = OpeningBook[a].dp + Total(PostedOn("debit", a)', Amounts')
                    /\ book'[a].cp = OpeningBook[a].cp + Total(PostedOn("credit", a)', Amounts')
                    /\ book'[a].dpnd = Total(OpenOn("debit", a)', Amounts')
                    /\ book'[a].cpnd = Total(OpenOn("credit", a)', Amounts')
  BY DEF BookExplained
<1>1. OpeningBook[a].dp \in Nat /\ OpeningBook[a].cp \in Nat
  BY OpeningAssumption
<1>2. \A side : Total(PostedOn(side, a), Amounts) \in Nat /\ Total(OpenOn(side, a), Amounts) \in Nat
  BY SumShape
<1>3. /\ Total(PostedOn("debit", a), Amounts) \in Nat
      /\ Total(PostedOn("credit", a), Amounts) \in Nat
      /\ Total(OpenOn("debit", a), Amounts) \in Nat
      /\ Total(OpenOn("credit", a), Amounts) \in Nat
  BY <1>2
<1>4. /\ book[a].dp = OpeningBook[a].dp + Total(PostedOn("debit", a), Amounts)
      /\ book[a].cp = OpeningBook[a].cp + Total(PostedOn("credit", a), Amounts)
      /\ book[a].dpnd = Total(OpenOn("debit", a), Amounts)
      /\ book[a].cpnd = Total(OpenOn("credit", a), Amounts)
  BY DEF BookExplained
<1> QED
  BY <1>1, <1>3, <1>4 DEF Moves

LEMMA NextExplained == TypeInv /\ MoneyInv /\ BookExplained /\ [Next]_vars => BookExplained'
<1> SUFFICES ASSUME TypeInv, MoneyInv, BookExplained, [Next]_vars PROVE BookExplained'
  OBVIOUS
<1>1. ASSUME NEW r \in Requests, Sends(r) PROVE BookExplained'
  <2>1. /\ leg[r].debit \in TbAccounts /\ leg[r].credit \in TbAccounts
        /\ PostedBy(r) \in Int /\ ReservedBy(r) \in Int
    <3>1. /\ leg[r].debit \in TbAccounts /\ leg[r].credit \in TbAccounts
          /\ leg[r].amount \in Nat
      BY <1>1, SendEffect DEF Legs
    <3>2. ASSUME input[r].kind \in ResolvingKinds
          PROVE  transfers[input[r].hold].amount \in Nat
      <4>1. input[r].hold \in Requests /\ Pending(input[r].hold)
        BY <1>1, <3>2, SendEffect
      <4> QED
        BY <4>1 DEF Pending, TypeInv, TypeOK, TransferRecords
    <3> QED
      BY <3>1, <3>2 DEF PostedBy, ReservedBy
  <2>2. Moves(book, book', leg[r].debit, leg[r].credit, PostedBy(r), ReservedBy(r))
    BY <1>1, SendBook
  <2>3. \A a : \A side \in {"debit", "credit"} :
            /\ Total(PostedOn(side, a)', Amounts') =
               Total(PostedOn(side, a), Amounts) + (IF leg[r][side] = a THEN PostedBy(r) ELSE 0)
            /\ Total(OpenOn(side, a)', Amounts') =
               Total(OpenOn(side, a), Amounts) + (IF leg[r][side] = a THEN ReservedBy(r) ELSE 0)
    BY <1>1, SendPosted, SendOpen
  <2> QED
    BY <2>1, <2>2, <2>3, StillExplained
<1>2. ASSUME NEW h \in Requests, ExpireHold(h) PROVE BookExplained'
  <2> DEFINE t == transfers[h]
  <2>1. t \in TransferRecords /\ book \in Books
    BY <1>2 DEF ExpireHold, Pending, TypeInv, TypeOK
  <2>2. t.debit \in TbAccounts /\ t.credit \in TbAccounts /\ t.amount \in Nat
    BY <2>1 DEF TransferRecords
  <2>3. Moves(book, book', t.debit, t.credit, 0, 0 - t.amount)
    BY <1>2, <2>1, <2>2, ReleaseEffect DEF ExpireHold
  <2>4. \A a : \A side \in {"debit", "credit"} :
            /\ Total(PostedOn(side, a)', Amounts') = Total(PostedOn(side, a), Amounts)
            /\ Total(OpenOn(side, a)', Amounts') =
               Total(OpenOn(side, a), Amounts) + (IF t[side] = a THEN 0 - t.amount ELSE 0)
    BY <1>2, ExpireTerms
  <2>5. \A a : \A side \in {"debit", "credit"} : Total(PostedOn(side, a), Amounts) \in Nat
    BY SumShape
  <2> QED
    BY <2>2, <2>3, <2>4, <2>5, StillExplained
<1>3. CASE UNCHANGED <<book, transfers>>
  <2>1. \A r \in Requests : Pending(r)' <=> Pending(r)
    BY <1>3 DEF Pending
  <2>2. \A side, a : /\ PostedOn(side, a)' = PostedOn(side, a)
                     /\ OpenOn(side, a)' = OpenOn(side, a)
    BY <1>3, <2>1 DEF PostedOn, OpenOn
  <2>3. Amounts' = Amounts
    BY <1>3 DEF Amounts
  <2> QED
    BY <1>3, <2>2, <2>3 DEF BookExplained
<1>4. \/ UNCHANGED <<book, transfers>>
      \/ \E r \in Requests : Sends(r) \/ ExpireHold(r)
  BY DEF Next, vars, tbVars, Submit, CheckDebit, CheckCredit, LookupAccounts, LookupHold,
     ExecuteTb, WriteMetadata, CheckBalance, UpdateStatus, Commit, CommitFails,
     DependencyFails, Die, Sends
<1> QED
  BY <1>1, <1>2, <1>3, <1>4

\* For every bank: the totals of every account are the opening ones and its transfers, and
\* its reservations are the holds still pending, through any race of captures, voids,
\* expiries and deaths (what create_transfers does to accounts in TigerBeetle).
THEOREM BookExplainedCorrect == Spec => []BookExplained
<1>1. Init => BookExplained
  <2> SUFFICES ASSUME Init, NEW a \in TbAccounts
               PROVE  /\ book[a].dp = OpeningBook[a].dp + Total(PostedOn("debit", a), Amounts)
                      /\ book[a].cp = OpeningBook[a].cp + Total(PostedOn("credit", a), Amounts)
                      /\ book[a].dpnd = Total(OpenOn("debit", a), Amounts)
                      /\ book[a].cpnd = Total(OpenOn("credit", a), Amounts)
    BY DEF BookExplained
  <2>1. \A side : PostedOn(side, a) = {} /\ OpenOn(side, a) = {}
    BY DEF Init, PostedOn, OpenOn, Pending
  <2>2. Total({}, Amounts) = 0
    BY TotalEmpty
  <2>3. /\ book[a].dp = OpeningBook[a].dp /\ book[a].cp = OpeningBook[a].cp
        /\ book[a].dpnd = 0 /\ book[a].cpnd = 0
        /\ OpeningBook[a].dp \in Nat /\ OpeningBook[a].cp \in Nat
    BY OpeningAssumption DEF Init
  <2> QED
    BY <2>1, <2>2, <2>3
<1> QED
  BY <1>1, TypeInvCorrect, MoneyInvCorrect, NextExplained, PTL DEF Spec
=============================================================================
