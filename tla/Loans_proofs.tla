---------------------------- MODULE Loans_proofs ----------------------------
(***************************************************************************)
(* What disbursements, repayments and the arrears job guarantee for any    *)
(* number of requests, loans and currencies.                               *)
(***************************************************************************)
EXTENDS Loans, Ledger_proofs

-----------------------------------------------------------------------------
(* Facts about the operators. *)

\* The two byte orders are each other's inverse: the row found for an identifier
\* that went to TigerBeetle and back is the one it started from.
LEMMA RoundTrip == ASSUME NEW u \in Customers PROVE RowKey(u) = u
<1>1. u = [n \in ByteIndex |-> u[n]]
  BY LoansAssumption
<1>2. \A n \in ByteIndex : Mirror(n) \in ByteIndex /\ Mirror(Mirror(n)) = n
  BY HalfLenAssumption DEF ByteIndex, Mirror
<1>3. RowKey(u) = [n \in ByteIndex |-> u[n]]
  BY <1>2 DEF RowKey, TbId, Uint128ToUuid, UuidToUint128
<1> QED
  BY <1>1, <1>3

LEMMA LegsFinite == ASSUME NEW legs \in SUBSET LegNames PROVE IsFiniteSet(legs)
<1>1. IsFiniteSet({"principal"})
  BY FS_Singleton
<1>2. IsFiniteSet({"principal"} \cup {"interest"})
  BY <1>1, FS_AddElement
<1>3. IsFiniteSet(({"principal"} \cup {"interest"}) \cup {"fee"})
  BY <1>2, FS_AddElement
<1>4. LegNames = ({"principal"} \cup {"interest"}) \cup {"fee"}
  BY DEF LegNames
<1> QED
  BY <1>3, <1>4, FS_Subset

\* What a request may ask for.
LEMMA InputType ==
    ASSUME NEW i \in Inputs
    PROVE  /\ i.kind \in Kinds /\ i.loan \in Customers
           /\ i.amount \in [LegNames -> Nat] /\ i.amount["principal"] > 0
           /\ "principal" \in Asked(i) /\ Asked(i) \subseteq LegNames
           /\ i # NoInput
<1>1. i \in InputRecords /\ Valid(i)
  BY LoanInputsAssumption
<1>2. /\ i.kind \in Kinds /\ i.loan \in Customers
      /\ i.amount \in [LegNames -> Nat] /\ i.amount["principal"] > 0
  BY <1>1 DEF InputRecords, Valid
<1> QED
  BY <1>1, <1>2, LoansAssumption DEF Asked, LegNames

\* One leg of a batch.  The totals stay numbers, and a leg counts as executed only if
\* it was asked for.  Where the payer may not overdraw, a leg that moves less than was
\* asked leaves nothing behind, and one without the flag needs what it moves.
Step(batch, after, i, n) ==
    /\ after.book \in Books /\ after.posted \in SUBSET LegNames
    /\ after.moved \in [LegNames -> Nat]
    /\ \A m \in LegNames \ {n} :
           /\ m \in after.posted <=> m \in batch.posted
           /\ after.moved[m] = batch.moved[m]
    /\ n \in after.posted => n \in batch.posted \/ n \in Asked(i)
    /\ n \notin after.posted => after.moved[n] = batch.moved[n]
    /\ n \in after.posted /\ n \notin batch.posted /\ n \notin Balancing(i) =>
           after.moved[n] = i.amount[n]
    /\ Debit(i) \in DebitsCapped =>
           /\ Left(after.book, i) <= Left(batch.book, i)
           /\ n \in after.posted /\ n \notin batch.posted =>
                  /\ after.moved[n] = i.amount[n] \/ Left(after.book, i) <= 0
                  /\ n \notin Balancing(i) => Left(batch.book, i) > 0

LEMMA LegRun ==
    ASSUME NEW i \in Inputs, NEW n \in LegNames, NEW batch,
           batch.book \in Books, batch.posted \in SUBSET LegNames,
           batch.moved \in [LegNames -> Nat]
    PROVE  Step(batch, Leg(batch, i, n), i, n)
<1> DEFINE took == Taken(batch.book, i, n)
           d == Debit(i)
           c == Credit(i, n)
<1>0. PICK after : after = Leg(batch, i, n)
  OBVIOUS
<1>1. i.amount \in [LegNames -> Nat] /\ i.amount[n] \in Nat
  BY InputType
<1>2. d \in TbAccounts => Left(batch.book, i) \in Int
  BY DEF Books, Totals4, Left
<1>3. CASE ~(n \in Asked(i) /\ Accepts(batch.book, i.currency, d, c, took))
  <2>1. after = batch
    BY <1>0, <1>3 DEF Leg
  <2>2. d \in DebitsCapped => Left(batch.book, i) <= Left(batch.book, i)
    BY <1>2, CappedAssumption
  <2>3. Step(batch, batch, i, n)
    BY <2>2 DEF Step
  <2> QED
    BY <1>0, <2>1, <2>3
<1>4. CASE n \in Asked(i) /\ Accepts(batch.book, i.currency, d, c, took)
  <2>1. /\ d # c /\ d \in TbAccounts /\ c \in TbAccounts /\ DebitFits(batch.book, d, took)
    BY <1>4 DEF Accepts
  <2>2. /\ took \in Nat /\ (n \notin Balancing(i) => took = i.amount[n])
        /\ took = i.amount[n] \/ (took >= Left(batch.book, i))
    BY <1>1, <1>2, <2>1 DEF Taken
  <2>3. after = [book |-> Post(batch.book, d, c, took), posted |-> batch.posted \cup {n},
                 moved |-> [batch.moved EXCEPT ![n] = took]]
    BY <1>0, <1>4 DEF Leg
  <2> HIDE DEF took
  <2>4. /\ Post(batch.book, d, c, took) \in Books
        /\ Left(Post(batch.book, d, c, took), i) = Left(batch.book, i) - took
    <3>1. Post(batch.book, d, c, took) \in Books
      BY <2>1, <2>2, PostEffect
    <3>2. /\ Post(batch.book, d, c, took)[d].dp = batch.book[d].dp + took
          /\ Post(batch.book, d, c, took)[d].cp = batch.book[d].cp
          /\ Post(batch.book, d, c, took)[d].dpnd = batch.book[d].dpnd
      BY <2>1, <2>2 DEF Post, Books, Totals4
    <3>3. batch.book[d].dp \in Int /\ batch.book[d].cp \in Int /\ batch.book[d].dpnd \in Int
      BY <2>1 DEF Books, Totals4
    <3> QED
      BY <2>2, <3>1, <3>2, <3>3 DEF Left
  <2>5. d \in DebitsCapped => took <= Left(batch.book, i)
    BY <2>1, <2>2 DEF DebitFits, Left, Books, Totals4
  <2>6. n \in Asked(i) => i.amount[n] > 0
    BY DEF Asked
  <2>7. /\ after.book \in Books /\ after.posted \in SUBSET LegNames
        /\ after.moved \in [LegNames -> Nat] /\ after.moved[n] = took
        /\ Left(after.book, i) = Left(batch.book, i) - took
    BY <2>2, <2>3, <2>4
  <2>8. d \in DebitsCapped =>
            /\ Left(after.book, i) <= Left(batch.book, i)
            /\ took = i.amount[n] \/ Left(after.book, i) <= 0
            /\ n \notin Balancing(i) => Left(batch.book, i) > 0
    <3> HIDE DEF d
    <3> QED
      BY <1>1, <1>2, <1>4, <2>1, <2>2, <2>5, <2>6, <2>7
  <2>9. \A m \in LegNames \ {n} : /\ m \in after.posted <=> m \in batch.posted
                                  /\ after.moved[m] = batch.moved[m]
    BY <2>3
  <2>10. n \in after.posted
    BY <2>3
  <2>11. Step(batch, after, i, n)
    BY <1>4, <2>2, <2>7, <2>8, <2>9, <2>10 DEF Step
  <2> QED
    BY <1>0, <2>11
<1> QED
  BY <1>3, <1>4

\* What TigerBeetle makes of a batch.  If it executes every leg, no leg of a payer who
\* may not overdraw moved less than was asked: there was something left for the last.
LEMMA BatchRun ==
    ASSUME NEW i \in Inputs, book \in Books
    PROVE  /\ Batch(i).book \in Books
           /\ Batch(i).posted \subseteq Asked(i) /\ Batch(i).posted \in SUBSET LegNames
           /\ Batch(i).moved \in [LegNames -> Nat]
           /\ /\ Batch(i).posted = Asked(i)
              /\ Debit(i) \in DebitsCapped \/ Balancing(i) = {}
              => Batch(i).moved = i.amount
<1>1. PICK b0 : b0 = [book |-> book, posted |-> {}, moved |-> Nothing]
  OBVIOUS
<1>2. PICK b1 : b1 = Leg(b0, i, "principal")
  OBVIOUS
<1>3. PICK b2 : b2 = Leg(b1, i, "interest")
  OBVIOUS
<1>4. PICK b3 : b3 = Leg(b2, i, "fee")
  OBVIOUS
<1>5. Batch(i) = b3
  BY <1>1, <1>2, <1>3, <1>4 DEF Batch
<1>6. /\ b0.book \in Books /\ b0.posted = {} /\ b0.moved \in [LegNames -> Nat]
      /\ \A n \in LegNames : b0.moved[n] = 0
  BY <1>1 DEF Nothing
<1>7. Step(b0, b1, i, "principal")
  BY <1>2, <1>6, LegRun DEF LegNames
<1>8. Step(b1, b2, i, "interest")
  <2>1. b1.book \in Books /\ b1.posted \in SUBSET LegNames /\ b1.moved \in [LegNames -> Nat]
    BY <1>7 DEF Step
  <2> QED
    BY <1>3, <2>1, LegRun DEF LegNames
<1>9. Step(b2, b3, i, "fee")
  <2>1. b2.book \in Books /\ b2.posted \in SUBSET LegNames /\ b2.moved \in [LegNames -> Nat]
    BY <1>8 DEF Step
  <2> QED
    BY <1>4, <2>1, LegRun DEF LegNames
<1>10. /\ b3.book \in Books /\ b3.posted \in SUBSET LegNames /\ b3.moved \in [LegNames -> Nat]
  BY <1>9 DEF Step
<1>11. b3.posted \subseteq Asked(i)
  BY <1>6, <1>7, <1>8, <1>9 DEF Step, LegNames
<1>12. /\ "principal" \in Asked(i) /\ i.amount \in [LegNames -> Nat]
       /\ \A n \in LegNames : n \notin Asked(i) => i.amount[n] = 0
  BY InputType DEF Asked
<1>13. /\ "fee" \in Asked(i) => "fee" \notin Balancing(i)
       /\ "fee" \notin Asked(i) => "interest" \notin Balancing(i)
       /\ "fee" \notin Asked(i) /\ "interest" \notin Asked(i) => "principal" \notin Balancing(i)
  BY DEF Balancing, Position, Asked, LegNames
<1>14. Debit(i) \in DebitsCapped =>
           /\ Left(b0.book, i) \in Int /\ Left(b1.book, i) \in Int
           /\ Left(b2.book, i) \in Int /\ Left(b3.book, i) \in Int
  BY <1>6, <1>7, <1>8, <1>9, CappedAssumption DEF Step, Left, Books, Totals4
<1>15. ASSUME b3.posted = Asked(i), Debit(i) \in DebitsCapped \/ Balancing(i) = {}
       PROVE  \A n \in LegNames : b3.moved[n] = i.amount[n]
  <2>1. /\ "principal" \in b1.posted /\ "principal" \notin b0.posted
        /\ b3.moved["principal"] = b1.moved["principal"]
    BY <1>6, <1>7, <1>8, <1>9, <1>12, <1>15 DEF Step, LegNames
  <2>2. /\ "interest" \in Asked(i) <=> "interest" \in b2.posted
        /\ "interest" \notin b1.posted /\ b3.moved["interest"] = b2.moved["interest"]
        /\ "interest" \notin Asked(i) => b2.moved["interest"] = 0
    BY <1>6, <1>7, <1>8, <1>9, <1>15 DEF Step, LegNames
  <2>3. /\ "fee" \in Asked(i) <=> "fee" \in b3.posted
        /\ "fee" \notin b2.posted
        /\ "fee" \notin Asked(i) => b3.moved["fee"] = 0
    BY <1>6, <1>7, <1>8, <1>9, <1>15 DEF Step, LegNames
  <2>4. b3.moved["fee"] = i.amount["fee"]
    BY <1>9, <1>12, <1>13, <2>3 DEF Step, LegNames
  <2>5. b3.moved["interest"] = i.amount["interest"]
    <3>1. CASE "interest" \notin Asked(i)
      BY <1>12, <2>2, <3>1 DEF LegNames
    <3>2. CASE "interest" \in Asked(i) /\ "interest" \notin Balancing(i)
      BY <1>8, <2>2, <3>2 DEF Step
    <3>3. CASE /\ "interest" \in Asked(i) /\ "interest" \in Balancing(i)
      <4>1. "fee" \in Asked(i) /\ Debit(i) \in DebitsCapped
        BY <1>13, <1>15, <3>3
      <4>2. Left(b2.book, i) > 0
        BY <1>9, <1>13, <2>3, <4>1 DEF Step
      <4>3. b2.moved["interest"] = i.amount["interest"] \/ Left(b2.book, i) <= 0
        BY <1>8, <2>2, <3>3, <4>1 DEF Step
      <4> QED
        BY <1>14, <2>2, <4>1, <4>2, <4>3
    <3> QED
      BY <3>1, <3>2, <3>3
  <2>6. b3.moved["principal"] = i.amount["principal"]
    <3>1. CASE "principal" \notin Balancing(i)
      BY <1>7, <2>1, <3>1 DEF Step
    <3>2. CASE "principal" \in Balancing(i)
      <4>1. Debit(i) \in DebitsCapped
        BY <1>15, <3>2
      <4>2. b1.moved["principal"] = i.amount["principal"] \/ Left(b1.book, i) <= 0
        BY <1>7, <2>1, <4>1 DEF Step
      <4>3. Left(b2.book, i) <= Left(b1.book, i)
        BY <1>8, <4>1 DEF Step
      <4>4. "fee" \in Asked(i) => Left(b2.book, i) > 0
        BY <1>9, <1>13, <2>3, <4>1 DEF Step
      <4>5. "fee" \notin Asked(i) => Left(b1.book, i) > 0
        BY <1>8, <1>13, <2>2, <3>2, <4>1 DEF Step
      <4> QED
        BY <1>14, <2>1, <4>1, <4>2, <4>3, <4>4, <4>5
    <3> QED
      BY <3>1, <3>2
  <2> QED
    BY <2>4, <2>5, <2>6 DEF LegNames
<1>16. /\ b3.posted = Asked(i)
       /\ Debit(i) \in DebitsCapped \/ Balancing(i) = {}
       => b3.moved = i.amount
  BY <1>10, <1>12, <1>15
<1> QED
  BY <1>5, <1>10, <1>11, <1>16

\* TigerBeetle's totals stay numbers, and only r's legs are executed.
LEMMA Applied ==
    ASSUME TypeOK, NEW r \in Requests, input[r] \in Inputs, TbApply(r), input' = input
    PROVE  /\ book' \in Books
           /\ posted' \in [Requests -> SUBSET LegNames]
           /\ moved' \in [Requests -> [LegNames -> Nat]]
           /\ posted'[r] \subseteq Asked(input[r])
           /\ posted'[r] = Asked(input[r]) => Settled(r)'
           /\ \A q \in Requests \ {r} : posted'[q] = posted[q] /\ moved'[q] = moved[q]
<1> DEFINE i == input[r]
           e == Batch(i)
<1>1. /\ e.book \in Books /\ e.posted \subseteq Asked(i) /\ e.posted \in SUBSET LegNames
      /\ e.moved \in [LegNames -> Nat]
      /\ /\ e.posted = Asked(i)
         /\ Debit(i) \in DebitsCapped \/ Balancing(i) = {}
         => e.moved = i.amount
  BY BatchRun DEF TypeOK
<1>2. /\ book' = e.book /\ posted' = [posted EXCEPT ![r] = e.posted]
      /\ moved' = [moved EXCEPT ![r] = e.moved]
  BY DEF TbApply
<1> HIDE DEF e
<1>3. posted'[r] = e.posted /\ moved'[r] = e.moved
  BY <1>2 DEF TypeOK
<1>4. posted'[r] = Asked(input[r]) => Settled(r)'
  BY <1>1, <1>3 DEF Settled
<1> QED
  BY <1>1, <1>2, <1>3, <1>4 DEF TypeOK

\* Only loans pass validation.
LEMMA ValidLoan ==
    ASSUME NEW i \in Inputs, Refusal(i) = "none"
    PROVE  i.loan \in Granted
<1>1. RowKey(i.loan) = i.loan /\ i.loan \in Customers
  BY InputType, RoundTrip
<1>2. StatusRefusal(i) = "none"
  BY DEF Refusal
<1>3. Category[RowKey(i.loan)] = "loan"
  BY <1>2 DEF Refusal
<1> QED
  BY <1>1, <1>3 DEF Granted

\* The row after a repayment it allows, and after the date of a disbursement.
LEMMA RowsAfter ==
    ASSUME NEW row \in LoanRows, row.status = "closed" <=> row.outstanding = 0
    PROVE  /\ \A n \in Nat : n > 0 /\ row.outstanding >= n =>
                  /\ Reduced(row, n) \in LoanRows
                  /\ Reduced(row, n).outstanding = row.outstanding - n
                  /\ Reduced(row, n).disbursed = row.disbursed
                  /\ Reduced(row, n).status =
                         IF Reduced(row, n).outstanding = 0 THEN "closed" ELSE row.status
                  /\ row.status # "closed"
           /\ LET dated == [row EXCEPT !.disbursed = TRUE]
              IN /\ dated \in LoanRows /\ dated.outstanding = row.outstanding
                 /\ dated.status = row.status
<1> DEFINE dated == [row EXCEPT !.disbursed = TRUE]
<1>1. /\ row.outstanding \in Nat /\ row.disbursed \in BOOLEAN
      /\ row.status \in {"active", "in_arrears", "closed"}
      /\ row = [outstanding |-> row.outstanding, status |-> row.status,
                disbursed |-> row.disbursed]
  BY DEF LoanRows
<1>2. ASSUME NEW n \in Nat, n > 0, row.outstanding >= n
      PROVE  /\ Reduced(row, n) \in LoanRows
             /\ Reduced(row, n).outstanding = row.outstanding - n
             /\ Reduced(row, n).disbursed = row.disbursed
             /\ Reduced(row, n).status =
                    IF Reduced(row, n).outstanding = 0 THEN "closed" ELSE row.status
             /\ row.status # "closed"
  <2> DEFINE left == row.outstanding - n
             status == IF left <= 0 THEN "closed" ELSE row.status
  <2>1. left \in Nat /\ status \in {"active", "in_arrears", "closed"}
        /\ (left <= 0 <=> left = 0) /\ row.status # "closed"
    BY <1>1, <1>2
  <2>2. Reduced(row, n) = [outstanding |-> left, status |-> status,
                           disbursed |-> row.disbursed]
    <3>1. Reduced(row, n) = [row EXCEPT !.outstanding = left, !.status = status]
      BY <1>1 DEF Reduced
    <3> HIDE DEF left, status
    <3> QED
      BY <1>1, <3>1
  <2> HIDE DEF left
  <2> QED
    BY <1>1, <2>1, <2>2 DEF LoanRows, left
<1>3. dated \in LoanRows /\ dated.outstanding = row.outstanding /\ dated.status = row.status
  BY <1>1 DEF LoanRows
<1> QED
  BY <1>2, <1>3

-----------------------------------------------------------------------------
(* The inductive invariant.                                                *)

\* What a request has done by each await, and what it may be told.
OnWay(r) ==
    /\ pc[r] = "new" <=> input[r] = NoInput
    /\ pc[r] \in {"new", "validate", "execute"} => posted[r] = {}
    /\ pc[r] \in {"execute", "update", "record", "commit"} => input[r].loan \in Granted
    /\ pc[r] \in {"update", "record", "commit"} => Settled(r)
    /\ posted[r] # {} => input[r] # NoInput
    /\ r \in noted => pc[r] = "commit"
    /\ pc[r] # "done" => reply[r] = "none" /\ r \notin repayments /\ r \notin metadata
    /\ r \in repayments => Settled(r) /\ input[r].kind \in Repaying
    /\ r \in metadata => Settled(r)
    /\ reply[r] = "posted" => Settled(r)
    /\ reply[r] \in Refusals \ {"ErrServiceUnavailable"} => posted[r] = {}
    /\ reply[r] = "ValueError" => posted[r] # Asked(input[r])

\* A session that has written the row of a loan wrote it from the row as it still
\* is: the row stays locked until the session ends.
HonestWrite(r) ==
    write[r] # NoWrite =>
        /\ pc[r] \in {"record", "commit"}
        /\ input[r].kind \in Repaying =>
               /\ loan[input[r].loan].outstanding >= input[r].amount["principal"]
               /\ write[r] = Reduced(loan[input[r].loan], input[r].amount["principal"])
        /\ input[r].kind = "disburse" =>
               write[r] = [loan[input[r].loan] EXCEPT !.disbursed = TRUE]

\* One session at a time holds the row of a loan.
OneWriter ==
    \A r, q \in Requests :
        write[r] # NoWrite /\ write[q] # NoWrite /\ input[r].loan = input[q].loan => r = q

\* A disbursement on record is about money that has moved.
DatesBehindMoney ==
    \A u \in Granted : loan[u].disbursed /\ ~OpeningLoan[u].disbursed =>
        \E r \in Requests : /\ input[r] # NoInput /\ input[r].kind = "disburse"
                            /\ input[r].loan = u /\ Settled(r)

IInv ==
    /\ TypeOK
    /\ \A r \in Requests : OnWay(r)
    /\ \A r \in Requests : HonestWrite(r)
    /\ OneWriter
    /\ OutstandingExplained
    /\ DatesBehindMoney

\* A step of some other request leaves this one as it was.
Kept(q) ==
    /\ input'[q] = input[q] /\ pc'[q] = pc[q] /\ posted'[q] = posted[q]
    /\ moved'[q] = moved[q]
    /\ write'[q] = write[q] /\ reply'[q] = reply[q]
    /\ q \in noted' <=> q \in noted
    /\ q \in repayments' <=> q \in repayments
    /\ q \in metadata' <=> q \in metadata

LEMMA OnWayKept == ASSUME NEW q, OnWay(q), Kept(q) PROVE OnWay(q)'
  BY DEF OnWay, Kept, Settled

LEMMA SettledKept ==
    ASSUME NEW r, posted'[r] = posted[r], moved'[r] = moved[r], input'[r] = input[r]
    PROVE  Settled(r) => Settled(r)'
  BY DEF Settled

\* What is on record of the money of a request stays there.
LEMMA DatesKept ==
    ASSUME DatesBehindMoney,
           \A q \in Requests :
               input[q] # NoInput /\ Settled(q) => Settled(q)' /\ input'[q] = input[q],
           \A u \in Granted : loan'[u].disbursed = loan[u].disbursed
    PROVE  DatesBehindMoney'
  BY DEF DatesBehindMoney

\* The repayments on record are the same, and so is what they add up to.
LEMMA RepaidKept ==
    ASSUME NEW u, repayments' = repayments, repayments \subseteq Requests,
           \A q \in repayments : input'[q] = input[q]
    PROVE  /\ RepaidOn(u)' = RepaidOn(u)
           /\ Total(RepaidOn(u), Principals)' = Total(RepaidOn(u), Principals)
<1>1. RepaidOn(u)' = RepaidOn(u)
  BY DEF RepaidOn
<1>2. \A q \in RepaidOn(u) : Principals'[q] = Principals[q]
  BY DEF RepaidOn, Principals
<1>3. Total(RepaidOn(u), Principals') = Total(RepaidOn(u), Principals)
  BY <1>2, TotalSame
<1> QED
  BY <1>1, <1>3

\* A step of r that commits nothing: r writes no row, keeps the one it wrote, or
\* writes one that nobody else holds.
LEMMA QuietStep ==
    ASSUME IInv, TypeOK', NEW r \in Requests, OnWay(r)',
           \A q \in Requests \ {r} : Kept(q),
           UNCHANGED <<loan, repayments>>,
           pc[r] # "new" /\ Settled(r) => Settled(r)',
           pc[r] # "new" => input'[r] = input[r],
           \/ write'[r] = NoWrite
           \/ write'[r] = write[r] /\ pc[r] # "new" /\ pc'[r] \in {"record", "commit"}
           \/ pc[r] # "new" /\ HonestWrite(r)' /\ ~Locked(input[r].loan)
    PROVE  IInv'
<1>1. \A q \in Requests : OnWay(q)'
  BY OnWayKept DEF IInv
<1>2. \A q \in Requests \ {r} : HonestWrite(q)'
  BY DEF IInv, HonestWrite, Kept
<1>3. HonestWrite(r)'
  BY DEF IInv, HonestWrite
<1>4. OneWriter'
  <2> SUFFICES ASSUME NEW q \in Requests \ {r}, write'[r] # NoWrite, write'[q] # NoWrite,
                      input'[r].loan = input'[q].loan
               PROVE  FALSE
    BY DEF IInv, OneWriter, Kept
  <2>1. /\ write[q] # NoWrite /\ pc[q] \in {"record", "commit"}
        /\ input[r].loan = input[q].loan
    BY DEF Kept, IInv, HonestWrite
  <2>2. Locked(input[r].loan)
    BY <2>1 DEF Locked
  <2> QED
    BY <2>1, <2>2 DEF IInv, OneWriter
<1>5. OutstandingExplained'
  <2>1. repayments \subseteq Requests /\ \A q \in repayments : input'[q] = input[q]
    BY DEF IInv, TypeOK, OnWay, Kept
  <2>2. \A u : Total(RepaidOn(u), Principals)' = Total(RepaidOn(u), Principals)
    BY <2>1, RepaidKept
  <2> QED
    BY <2>2 DEF IInv, OutstandingExplained
<1>6. DatesBehindMoney'
  <2>1. \A q \in Requests :
            input[q] # NoInput /\ Settled(q) => Settled(q)' /\ input'[q] = input[q]
    BY DEF IInv, OnWay, Kept, Settled
  <2> QED
    BY <2>1, DatesKept DEF IInv
<1> QED
  BY <1>1, <1>2, <1>3, <1>4, <1>5, <1>6 DEF IInv

-----------------------------------------------------------------------------
(* The steps that commit nothing. *)

LEMMA SubmitInv == ASSUME IInv, NEW r \in Requests, Submit(r) PROVE IInv'
<1>1. PICK i \in Inputs : input' = [input EXCEPT ![r] = i]
  BY DEF Submit
<1>2. /\ pc[r] = "new" /\ pc' = [pc EXCEPT ![r] = "validate"]
      /\ UNCHANGED <<book, posted, moved, loan, repayments, metadata, write, noted, spoilt, reply>>
  BY DEF Submit, GoTo, pgVars, tbVars
<1>3. /\ input[r] = NoInput /\ posted[r] = {} /\ write[r] = NoWrite /\ i # NoInput
      /\ reply[r] = "none" /\ r \notin noted /\ r \notin repayments /\ r \notin metadata
  BY <1>2, InputType DEF IInv, OnWay, HonestWrite
<1>4. TypeOK'
  BY <1>1, <1>2 DEF IInv, TypeOK, Phases
<1>5. OnWay(r)'
  BY <1>1, <1>2, <1>3 DEF IInv, TypeOK, OnWay, Refusals, Settled
<1>6. \A q \in Requests \ {r} : Kept(q)
  BY <1>1, <1>2 DEF IInv, TypeOK, Kept
<1> QED
  BY <1>2, <1>3, <1>4, <1>5, <1>6, QuietStep, SettledKept

\* A request ends or goes on before it has sent anything.
LEMMA ValidateInv == ASSUME IInv, NEW r \in Requests, Validate(r) PROVE IInv'
<1> DEFINE i == input[r]
           refusal == Refusal(i)
<1>1. /\ pc[r] = "validate"
      /\ UNCHANGED <<book, posted, moved, loan, repayments, metadata, input, write, noted, spoilt>>
      /\ IF refusal = "none" THEN GoTo(r, "execute") ELSE EndWith(r, refusal)
  BY DEF Validate, pgVars, tbVars
<1>2. i \in Inputs /\ i # NoInput /\ posted[r] = {} /\ write[r] = NoWrite
      /\ reply[r] = "none" /\ r \notin noted /\ r \notin repayments /\ r \notin metadata
  BY <1>1 DEF IInv, TypeOK, OnWay, HonestWrite
<1>3. refusal \in {"none", "ErrInvalidAccount", "ErrAccountClosed", "ErrAccountFrozen",
                   "ValidationError", "ErrLiquidityPoolUnavailable"}
  BY DEF Refusal, StatusRefusal
<1>4. refusal = "none" => i.loan \in Granted
  BY <1>2, ValidLoan
<1> HIDE DEF refusal, i
<1>5. \/ /\ refusal = "none" /\ pc' = [pc EXCEPT ![r] = "execute"] /\ reply' = reply
      \/ /\ refusal # "none" /\ pc' = [pc EXCEPT ![r] = "done"]
         /\ reply' = [reply EXCEPT ![r] = refusal]
  BY <1>1 DEF GoTo, EndWith
<1>6. TypeOK'
  <2>1. pc' \in [Requests -> Phases]
    BY <1>5 DEF IInv, TypeOK, Phases
  <2>2. reply' \in [Requests -> Replies]
    BY <1>3, <1>5 DEF IInv, TypeOK, Replies, Refusals
  <2> QED
    BY <1>1, <2>1, <2>2 DEF IInv, TypeOK
<1>7. OnWay(r)'
  BY <1>1, <1>2, <1>3, <1>4, <1>5 DEF IInv, TypeOK, OnWay, Refusals, Settled, i
<1>8. \A q \in Requests \ {r} : Kept(q)
  BY <1>1, <1>5 DEF IInv, TypeOK, Kept
<1> QED
  BY <1>1, <1>2, <1>6, <1>7, <1>8, QuietStep, SettledKept

\* No session has settled what it has not sent.
LEMMA Unsent ==
    ASSUME NEW r \in Requests, input[r] \in Inputs, posted[r] = {} PROVE ~Settled(r)
  BY InputType DEF Settled

\* Every leg of the batch is executed, and the request goes on, or it ends.
LEMMA ExecuteTbInv == ASSUME IInv, NEW r \in Requests, ExecuteTb(r) PROVE IInv'
<1>1. /\ pc[r] = "execute" /\ TbApply(r)
      /\ UNCHANGED <<loan, repayments, metadata, input, write, noted, spoilt>>
  BY DEF ExecuteTb, pgVars
<1>2. \/ /\ posted'[r] = Asked(input[r]) /\ pc' = [pc EXCEPT ![r] = "update"] /\ reply' = reply
      \/ /\ posted'[r] # Asked(input[r]) /\ pc' = [pc EXCEPT ![r] = "done"]
         /\ reply' = [reply EXCEPT ![r] = "ValueError"]
  BY DEF ExecuteTb, GoTo, EndWith
<1>3. /\ input[r] \in Inputs /\ input[r] # NoInput /\ input[r].loan \in Granted
      /\ posted[r] = {} /\ write[r] = NoWrite /\ reply[r] = "none"
      /\ r \notin noted /\ r \notin repayments /\ r \notin metadata
  BY <1>1 DEF IInv, TypeOK, OnWay, HonestWrite
<1>4. /\ book' \in Books /\ posted' \in [Requests -> SUBSET LegNames]
      /\ moved' \in [Requests -> [LegNames -> Nat]]
      /\ posted'[r] = Asked(input[r]) => Settled(r)'
      /\ \A q \in Requests \ {r} : posted'[q] = posted[q] /\ moved'[q] = moved[q]
  BY <1>1, <1>3, Applied DEF IInv
<1>5. TypeOK'
  <2>1. pc' \in [Requests -> Phases]
    BY <1>2 DEF IInv, TypeOK, Phases
  <2>2. reply' \in [Requests -> Replies]
    BY <1>2 DEF IInv, TypeOK, Replies
  <2> QED
    BY <1>1, <1>4, <2>1, <2>2 DEF IInv, TypeOK
<1>6. OnWay(r)'
  BY <1>1, <1>2, <1>3, <1>4 DEF IInv, TypeOK, OnWay, Refusals
<1>7. \A q \in Requests \ {r} : Kept(q)
  BY <1>1, <1>2, <1>4 DEF IInv, TypeOK, Kept
<1> QED
  BY <1>1, <1>3, <1>5, <1>6, <1>7, Unsent, QuietStep

\* The money has moved, and the row of the loan is written or left.
LEMMA WriteRowInv ==
    ASSUME IInv, NEW r \in Requests, SetDisbursedAt(r) \/ ReduceOutstanding(r)
    PROVE  IInv'
<1> DEFINE i == input[r]
           u == i.loan
           n == i.amount["principal"]
<1>1. /\ pc[r] = "update"
      /\ UNCHANGED <<book, posted, moved, loan, repayments, metadata, input, noted>>
      /\ spoilt' \in {spoilt, spoilt \cup {r}}
  BY DEF SetDisbursedAt, ReduceOutstanding, pgVars, tbVars
<1>2. /\ i \in Inputs /\ i # NoInput /\ u \in Granted /\ Settled(r)
      /\ write[r] = NoWrite /\ reply[r] = "none"
      /\ r \notin noted /\ r \notin repayments /\ r \notin metadata
  BY <1>1 DEF IInv, TypeOK, OnWay, HonestWrite
<1>3. /\ loan[u] \in LoanRows /\ (loan[u].status = "closed" <=> loan[u].outstanding = 0)
      /\ n \in Nat /\ n > 0
  BY <1>2, InputType DEF IInv, TypeOK, OutstandingExplained, LegNames
<1>4. \/ /\ ~Locked(u) /\ pc' = [pc EXCEPT ![r] = "record"] /\ reply' = reply
         /\ i.kind = "disburse" /\ write' = [write EXCEPT ![r] = [loan[u] EXCEPT !.disbursed = TRUE]]
      \/ /\ ~Locked(u) /\ pc' = [pc EXCEPT ![r] = "record"] /\ reply' = reply
         /\ i.kind \in Repaying /\ loan[u].outstanding >= n
         /\ write' = [write EXCEPT ![r] = Reduced(loan[u], n)]
      \/ /\ write' = write /\ pc' = [pc EXCEPT ![r] = "record"] /\ reply' = reply
      \/ /\ write' = write /\ pc' = [pc EXCEPT ![r] = "done"]
         /\ reply' = [reply EXCEPT ![r] = "ErrRepaymentExceedsOutstanding"]
  BY DEF SetDisbursedAt, ReduceOutstanding, GoTo, EndWith
<1>5. /\ [loan[u] EXCEPT !.disbursed = TRUE] \in LoanRows
      /\ loan[u].outstanding >= n => Reduced(loan[u], n) \in LoanRows
  BY <1>3, RowsAfter
<1>6. TypeOK'
  <2>1. pc' \in [Requests -> Phases]
    BY <1>4 DEF IInv, TypeOK, Phases
  <2>2. reply' \in [Requests -> Replies]
    BY <1>4 DEF IInv, TypeOK, Replies
  <2>3. write' \in [Requests -> LoanRows \cup {NoWrite}]
    BY <1>4, <1>5 DEF IInv, TypeOK
  <2> QED
    BY <1>1, <2>1, <2>2, <2>3 DEF IInv, TypeOK
<1>7. OnWay(r)'
  BY <1>1, <1>2, <1>4 DEF IInv, TypeOK, OnWay, Refusals, Settled
<1>8. \A q \in Requests \ {r} : Kept(q)
  BY <1>1, <1>4 DEF IInv, TypeOK, Kept
<1>9. write'[r] = NoWrite \/ (HonestWrite(r)' /\ ~Locked(u))
  <2>1. CASE write' = write
    BY <1>2, <2>1
  <2>2. CASE /\ ~Locked(u) /\ pc' = [pc EXCEPT ![r] = "record"] /\ i.kind = "disburse"
             /\ write' = [write EXCEPT ![r] = [loan[u] EXCEPT !.disbursed = TRUE]]
    BY <1>1, <1>2, <2>2 DEF IInv, TypeOK, HonestWrite, Repaying
  <2>3. CASE /\ ~Locked(u) /\ pc' = [pc EXCEPT ![r] = "record"] /\ i.kind \in Repaying
             /\ loan[u].outstanding >= n /\ write' = [write EXCEPT ![r] = Reduced(loan[u], n)]
    BY <1>1, <1>2, <2>3 DEF IInv, TypeOK, HonestWrite, Repaying
  <2> QED
    BY <1>4, <2>1, <2>2, <2>3
<1> QED
  BY <1>1, <1>2, <1>6, <1>7, <1>8, <1>9, QuietStep, SettledKept

\* A request leaves its session without a commit, or brings its metadata to it.
LEMMA WriteMetadataInv == ASSUME IInv, NEW r \in Requests, WriteMetadata(r) PROVE IInv'
<1>1. /\ pc[r] = "record" /\ pc' = [pc EXCEPT ![r] = "commit"]
      /\ noted' \in {noted, noted \cup {r}} /\ spoilt' \in {spoilt, spoilt \cup {r}}
      /\ UNCHANGED <<book, posted, moved, loan, repayments, metadata, input, write, reply>>
  BY DEF WriteMetadata, GoTo, pgVars, tbVars
<1>2. TypeOK'
  BY <1>1 DEF IInv, TypeOK, Phases
<1>3. OnWay(r)'
  BY <1>1, SettledKept DEF IInv, TypeOK, OnWay
<1>4. \A q \in Requests \ {r} : Kept(q)
  BY <1>1 DEF IInv, TypeOK, Kept
<1>5. pc'[r] = "commit"
  BY <1>1 DEF IInv, TypeOK
<1> QED
  BY <1>1, <1>2, <1>3, <1>4, <1>5, QuietStep, SettledKept

LEMMA DependencyFailsInv == ASSUME IInv, NEW r \in Requests, DependencyFails(r) PROVE IInv'
<1>1. PICK a \in {"RuntimeError", "ErrServiceUnavailable"} :
          /\ pc[r] = "validate" \/ (pc[r] = "update" /\ a = "ErrServiceUnavailable")
          /\ EndWith(r, a)
  BY DEF DependencyFails
<1>2. UNCHANGED <<book, posted, moved, loan, repayments, metadata, input, write, noted, spoilt>>
  BY DEF DependencyFails, pgVars, tbVars
<1>3. pc' = [pc EXCEPT ![r] = "done"] /\ reply' = [reply EXCEPT ![r] = a]
  BY <1>1 DEF EndWith
<1>4. write[r] = NoWrite /\ r \notin noted /\ r \notin repayments /\ r \notin metadata
      /\ input[r] # NoInput /\ pc[r] # "new"
  BY <1>1 DEF IInv, OnWay, HonestWrite
<1>5. TypeOK'
  <2>1. pc' \in [Requests -> Phases] /\ reply' \in [Requests -> Replies]
    BY <1>3 DEF IInv, TypeOK, Phases, Replies, Refusals
  <2> QED
    BY <1>2, <2>1 DEF IInv, TypeOK
<1>6. OnWay(r)'
  BY <1>1, <1>2, <1>3, <1>4 DEF IInv, TypeOK, OnWay, Refusals, Settled
<1>7. \A q \in Requests \ {r} : Kept(q)
  BY <1>2, <1>3 DEF IInv, TypeOK, Kept
<1> QED
  BY <1>2, <1>4, <1>5, <1>6, <1>7, QuietStep, SettledKept

LEMMA DieInv == ASSUME IInv, NEW r \in Requests, Die(r) PROVE IInv'
<1>1. /\ pc[r] \notin {"new", "done"} /\ pc' = [pc EXCEPT ![r] = "done"]
      /\ write' = [write EXCEPT ![r] = NoWrite]
      /\ noted' = noted \ {r} /\ spoilt' = spoilt \ {r}
      /\ UNCHANGED <<loan, repayments, metadata, input, reply>>
  BY DEF Die, Live, Forget, pgVars, tbVars
<1>2. /\ input[r] \in Inputs /\ input[r] # NoInput /\ reply[r] = "none"
      /\ r \notin repayments /\ r \notin metadata
  BY <1>1 DEF IInv, TypeOK, OnWay
<1>3. /\ book' \in Books /\ posted' \in [Requests -> SUBSET LegNames]
      /\ moved' \in [Requests -> [LegNames -> Nat]]
      /\ \A q \in Requests \ {r} : posted'[q] = posted[q] /\ moved'[q] = moved[q]
      /\ Settled(r) => Settled(r)'
  <2>1. CASE UNCHANGED tbVars
    BY <1>1, <2>1 DEF IInv, TypeOK, tbVars, Settled
  <2>2. CASE pc[r] = "execute" /\ TbApply(r)
    <3>1. ~Settled(r)
      BY <1>2, <2>2, Unsent DEF IInv, OnWay
    <3> QED
      BY <1>1, <1>2, <2>2, <3>1, Applied DEF IInv
  <2> QED
    BY <2>1, <2>2 DEF Die
<1>4. TypeOK'
  BY <1>1, <1>3 DEF IInv, TypeOK, Phases
<1>5. OnWay(r)'
  BY <1>1, <1>2, <1>3 DEF IInv, TypeOK, OnWay, Refusals, Settled
<1>6. \A q \in Requests \ {r} : Kept(q)
  BY <1>1, <1>3 DEF IInv, TypeOK, Kept
<1>7. write'[r] = NoWrite
  BY <1>1 DEF IInv, TypeOK
<1> QED
  BY <1>1, <1>3, <1>4, <1>5, <1>6, <1>7, QuietStep, SettledKept

\* The session of r is over, and nothing of it was committed.
LEMMA RollbackInv ==
    ASSUME IInv, NEW r \in Requests, pc[r] = "commit", UNCHANGED pgVars, Forget(r),
           NEW a \in {"posted", "CommitError"}, EndWith(r, a),
           UNCHANGED <<book, posted, moved, input>>
    PROVE  IInv'
<1>1. /\ pc' = [pc EXCEPT ![r] = "done"] /\ reply' = [reply EXCEPT ![r] = a]
      /\ write' = [write EXCEPT ![r] = NoWrite]
      /\ noted' = noted \ {r} /\ spoilt' = spoilt \ {r}
      /\ UNCHANGED <<loan, repayments, metadata>>
  BY DEF Forget, EndWith, pgVars, tbVars
<1>2. input[r] # NoInput /\ Settled(r)
      /\ r \notin repayments /\ r \notin metadata
  BY DEF IInv, OnWay
<1>3. TypeOK'
  <2>1. pc' \in [Requests -> Phases] /\ reply' \in [Requests -> Replies]
    BY <1>1 DEF IInv, TypeOK, Phases, Replies
  <2>2. write' \in [Requests -> LoanRows \cup {NoWrite}]
    BY <1>1 DEF IInv, TypeOK
  <2> QED
    BY <1>1, <2>1, <2>2 DEF IInv, TypeOK
<1>4. OnWay(r)'
  BY <1>1, <1>2 DEF IInv, TypeOK, OnWay, Refusals, Settled
<1>5. \A q \in Requests \ {r} : Kept(q)
  BY <1>1 DEF IInv, TypeOK, Kept
<1>6. write'[r] = NoWrite
  BY <1>1 DEF IInv, TypeOK
<1> QED
  BY <1>1, <1>2, <1>3, <1>4, <1>5, <1>6, QuietStep, SettledKept

-----------------------------------------------------------------------------
(* The steps that commit. *)

\* The session of r is committed: its row of the loan, which nobody else has touched
\* since r read it, and the repayment become visible together.
LEMMA PublishInv ==
    ASSUME IInv, NEW r \in Requests, pc[r] = "commit", Publish(r), Forget(r),
           NEW a \in {"posted", "CommitError"}, EndWith(r, a),
           UNCHANGED <<book, posted, moved, input>>
    PROVE  IInv'
<1> DEFINE i == input[r]
           u == i.loan
           n == i.amount["principal"]
<1>1. /\ pc' = [pc EXCEPT ![r] = "done"] /\ reply' = [reply EXCEPT ![r] = a]
      /\ write' = [write EXCEPT ![r] = NoWrite]
      /\ noted' = noted \ {r} /\ spoilt' = spoilt \ {r}
      /\ metadata' = metadata \cup (noted \cap {r})
  BY DEF Publish, Forget, EndWith
<1>2. /\ i \in Inputs /\ i # NoInput /\ u \in Granted /\ Settled(r)
      /\ r \notin repayments /\ r \notin metadata /\ write'[r] = NoWrite
  BY <1>1 DEF IInv, TypeOK, OnWay
<1>3. /\ i.kind \in Kinds /\ n \in Nat /\ n > 0 /\ Asked(i) # {}
  BY <1>2, InputType DEF LegNames
<1>4. /\ loan[u] \in LoanRows /\ (loan[u].status = "closed" <=> loan[u].outstanding = 0)
  BY <1>2 DEF IInv, TypeOK, OutstandingExplained
<1>5. /\ pc' \in [Requests -> Phases] /\ reply' \in [Requests -> Replies]
      /\ write' \in [Requests -> LoanRows \cup {NoWrite}]
      /\ noted' \subseteq Requests /\ spoilt' \subseteq Requests
      /\ metadata' \subseteq Requests
  <2>1. pc' \in [Requests -> Phases] /\ reply' \in [Requests -> Replies]
    BY <1>1 DEF IInv, TypeOK, Phases, Replies
  <2>2. write' \in [Requests -> LoanRows \cup {NoWrite}]
    BY <1>1 DEF IInv, TypeOK
  <2>3. noted' \subseteq Requests /\ spoilt' \subseteq Requests
        /\ metadata' \subseteq Requests
    BY <1>1 DEF IInv, TypeOK
  <2> QED
    BY <2>1, <2>2, <2>3
<1>6. CASE write[r] = NoWrite
  <2>1. loan' = loan /\ repayments' = repayments
    BY <1>6 DEF Publish
  <2>2. TypeOK'
    BY <1>5, <2>1 DEF IInv, TypeOK
  <2>3. OnWay(r)'
    BY <1>1, <1>2, <2>1 DEF IInv, TypeOK, OnWay, Refusals, Settled
  <2>4. \A q \in Requests \ {r} : Kept(q)
    BY <1>1, <2>1 DEF IInv, TypeOK, Kept
  <2> QED
    BY <1>2, <2>1, <2>2, <2>3, <2>4, QuietStep, SettledKept
<1>7. CASE write[r] # NoWrite
  <2>1. /\ loan' = [loan EXCEPT ![u] = write[r]]
        /\ repayments' = IF i.kind \in Repaying THEN repayments \cup {r} ELSE repayments
    BY <1>7 DEF Publish
  <2>2. /\ i.kind \in Repaying => loan[u].outstanding >= n /\ write[r] = Reduced(loan[u], n)
        /\ i.kind = "disburse" => write[r] = [loan[u] EXCEPT !.disbursed = TRUE]
        /\ write[r] \in LoanRows
    BY <1>7 DEF IInv, TypeOK, HonestWrite
  <2>3. /\ loan'[u] = write[r] /\ \A v \in Granted \ {u} : loan'[v] = loan[v]
        /\ loan' \in [Granted -> LoanRows]
    BY <1>2, <2>1, <2>2 DEF IInv, TypeOK
  <2>4. TypeOK'
    BY <1>5, <2>1, <2>3 DEF IInv, TypeOK
  <2>5. \A q \in Requests \ {r} : Kept(q)
    BY <1>1, <2>1 DEF IInv, TypeOK, Kept
  <2>6. \A q \in Requests : OnWay(q)'
    <3>1. OnWay(r)'
      BY <1>1, <1>2, <2>1 DEF IInv, TypeOK, OnWay, Refusals, Settled
    <3> QED
      BY <2>5, <3>1, OnWayKept DEF IInv
  <2>7. \A q \in Requests : HonestWrite(q)'
    <3>1. HonestWrite(r)'
      BY <1>2 DEF HonestWrite
    <3>2. ASSUME NEW q \in Requests \ {r}, write[q] # NoWrite
          PROVE  input[q].loan \in Granted \ {u}
      BY <1>7, <3>2 DEF IInv, OneWriter, HonestWrite, OnWay
    <3>3. ASSUME NEW q \in Requests \ {r} PROVE HonestWrite(q)'
      BY <2>3, <2>5, <3>2 DEF IInv, HonestWrite, Kept
    <3> QED
      BY <3>1, <3>3
  <2>8. OneWriter'
    BY <1>2, <2>5 DEF IInv, OneWriter, Kept
  <2>9. OutstandingExplained'
    <3>1. IsFiniteSet(repayments) /\ repayments \subseteq Requests
      BY LoansAssumption, FS_Subset DEF IInv, TypeOK
    <3>2. Principals' = Principals /\ Principals[r] = n
      BY <1>2 DEF Principals
    <3>3. \A q \in repayments : Principals[q] \in Nat
      <4> SUFFICES ASSUME NEW q \in repayments PROVE Principals[q] \in Nat
        OBVIOUS
      <4>1. input[q] \in Inputs \cup {NoInput} /\ q \in Requests
        BY <3>1 DEF IInv, TypeOK
      <4>2. input[q] \in Inputs => input[q].amount["principal"] \in Nat
        BY InputType DEF LegNames
      <4> QED
        BY <4>1, <4>2 DEF Principals
    <3>4. \A v : /\ IsFiniteSet(RepaidOn(v)) /\ RepaidOn(v) \subseteq repayments
                 /\ Total(RepaidOn(v), Principals) \in Nat
      <4> SUFFICES ASSUME NEW v
                   PROVE  /\ IsFiniteSet(RepaidOn(v)) /\ RepaidOn(v) \subseteq repayments
                          /\ Total(RepaidOn(v), Principals) \in Nat
        OBVIOUS
      <4>1. RepaidOn(v) \subseteq repayments
        BY DEF RepaidOn
      <4>2. IsFiniteSet(RepaidOn(v))
        BY <3>1, <4>1, FS_Subset
      <4> QED
        BY <3>3, <4>1, <4>2, TotalType
    <3>5. ASSUME NEW v \in Granted, v # u \/ i.kind \notin Repaying
          PROVE  Total(RepaidOn(v), Principals)' = Total(RepaidOn(v), Principals)
      <4>1. RepaidOn(v)' = RepaidOn(v)
        BY <1>2, <2>1, <3>5 DEF RepaidOn
      <4> QED
        BY <3>2, <4>1
    <3>6. ASSUME i.kind \in Repaying
          PROVE  RepaidOn(u)' = RepaidOn(u) \cup {r} /\ r \notin RepaidOn(u)
      BY <1>2, <2>1, <3>2, <3>6 DEF RepaidOn
    <3>7. ASSUME i.kind \in Repaying
          PROVE  Total(RepaidOn(u), Principals)' = Total(RepaidOn(u), Principals) + n
      <4>1. Total(RepaidOn(u) \cup {r}, Principals) =
                Total(RepaidOn(u), Principals) + Principals[r]
        BY <1>3, <3>2, <3>3, <3>4, <3>6, <3>7, TotalAdd
      <4> QED
        BY <3>2, <3>6, <3>7, <4>1
    <3>8. \A v \in Granted \ {u} :
              /\ loan'[v].outstanding + Total(RepaidOn(v), Principals)'
                     = OpeningLoan[v].outstanding
              /\ loan'[v].status = "closed" <=> loan'[v].outstanding = 0
      BY <2>3, <3>5 DEF IInv, OutstandingExplained
    <3>9. /\ loan[u].outstanding + Total(RepaidOn(u), Principals) = OpeningLoan[u].outstanding
          /\ loan[u].outstanding \in Nat /\ OpeningLoan[u].outstanding \in Nat
          /\ Total(RepaidOn(u), Principals) \in Nat
      BY <1>2, <1>4, <3>4, LoansAssumption DEF IInv, OutstandingExplained, LoanRows
    <3>10. CASE i.kind \in Repaying
      <4>1. /\ write[r].outstanding = loan[u].outstanding - n
            /\ write[r].status = IF write[r].outstanding = 0 THEN "closed" ELSE loan[u].status
            /\ loan[u].status # "closed"
        BY <1>3, <1>4, <2>2, <3>10, RowsAfter
      <4>2. loan'[u].outstanding + Total(RepaidOn(u), Principals)' = OpeningLoan[u].outstanding
        BY <1>3, <2>3, <3>7, <3>9, <3>10, <4>1
      <4> QED
        BY <2>3, <3>8, <4>1, <4>2 DEF OutstandingExplained
    <3>11. CASE i.kind = "disburse"
      <4>1. write[r].outstanding = loan[u].outstanding /\ write[r].status = loan[u].status
        BY <1>4, <2>2, <3>11, RowsAfter
      <4>2. Total(RepaidOn(u), Principals)' = Total(RepaidOn(u), Principals)
        BY <1>2, <3>5, <3>11 DEF Repaying
      <4> QED
        BY <1>4, <2>3, <3>8, <3>9, <4>1, <4>2 DEF OutstandingExplained
    <3> QED
      BY <1>3, <3>10, <3>11 DEF Repaying
  <2>10. DatesBehindMoney'
    <3>0. \A q \in Requests : Settled(q) => Settled(q)'
      BY SettledKept
    <3>1. CASE i.kind \in Repaying
      <4>1. write[r].disbursed = loan[u].disbursed
        BY <1>3, <1>4, <2>2, <3>1, RowsAfter
      <4> QED
        BY <2>3, <3>0, <4>1, DatesKept DEF IInv
    <3>2. CASE i.kind = "disburse"
      <4>1. /\ input'[r] # NoInput /\ input'[r].kind = "disburse"
            /\ input'[r].loan = u /\ Settled(r)'
        BY <1>2, <1>3, <3>0, <3>2
      <4> QED
        BY <2>3, <3>0, <4>1 DEF IInv, DatesBehindMoney
    <3> QED
      BY <1>3, <3>1, <3>2 DEF Repaying
  <2> QED
    BY <2>4, <2>6, <2>7, <2>8, <2>9, <2>10 DEF IInv
<1> QED
  BY <1>6, <1>7

LEMMA EndInv == ASSUME IInv, NEW r \in Requests, Commit(r) \/ CommitFails(r) PROVE IInv'
<1>1. PICK a \in {"posted", "CommitError"} :
          /\ pc[r] = "commit" /\ Forget(r) /\ EndWith(r, a)
          /\ UNCHANGED <<book, posted, moved, input>>
          /\ UNCHANGED pgVars \/ Publish(r)
  BY DEF Commit, CommitFails, EndWith, tbVars
<1> QED
  BY <1>1, RollbackInv, PublishInv

\* The arrears job changes a row that nobody is writing.
LEMMA ArrearsInv == ASSUME IInv, NEW u \in Granted, UpdateArrearsStatus(u) PROVE IInv'
<1>1. /\ ~Locked(u) /\ loan[u].outstanding > 0
      /\ loan' = [loan EXCEPT ![u].status = "in_arrears"]
      /\ UNCHANGED <<book, posted, moved, repayments, metadata, input, pc, write, noted, spoilt, reply>>
  BY DEF UpdateArrearsStatus, tbVars
<1>2. loan[u] \in LoanRows
  BY DEF IInv, TypeOK
<1>3. /\ \A v \in Granted \ {u} : loan'[v] = loan[v]
      /\ loan'[u] = [loan[u] EXCEPT !.status = "in_arrears"]
  BY <1>1 DEF IInv, TypeOK
<1>4. /\ [loan[u] EXCEPT !.status = "in_arrears"] \in LoanRows
      /\ loan'[u].outstanding = loan[u].outstanding
      /\ loan'[u].disbursed = loan[u].disbursed
      /\ loan'[u].status = "in_arrears"
  BY <1>2, <1>3 DEF LoanRows
<1>5. TypeOK'
  BY <1>1, <1>3, <1>4 DEF IInv, TypeOK
<1>6. \A q \in Requests : OnWay(q)'
  BY <1>1, OnWayKept DEF IInv, Kept
<1>7. \A q \in Requests : HonestWrite(q)'
  <2> SUFFICES ASSUME NEW q \in Requests, write[q] # NoWrite PROVE HonestWrite(q)'
    BY <1>1 DEF HonestWrite
  <2>1. input[q].loan \in Granted /\ input[q].loan # u
    BY <1>1 DEF IInv, HonestWrite, OnWay, Locked
  <2> QED
    BY <1>1, <1>3, <2>1 DEF IInv, HonestWrite
<1>8. OneWriter'
  BY <1>1 DEF IInv, OneWriter
<1>9. OutstandingExplained'
  <2>1. \A v : Total(RepaidOn(v), Principals)' = Total(RepaidOn(v), Principals)
    BY <1>1, RepaidKept DEF IInv, TypeOK
  <2>2. loan[u].outstanding # 0
    BY <1>1, <1>2 DEF LoanRows
  <2>3. \A v \in Granted :
            /\ loan'[v].outstanding = loan[v].outstanding
            /\ loan'[v].status = "closed" <=> loan[v].outstanding = 0
    <3>1. \A v \in Granted : loan[v].status = "closed" <=> loan[v].outstanding = 0
      BY DEF IInv, OutstandingExplained
    <3> QED
      BY <1>3, <1>4, <2>2, <3>1
  <2> QED
    BY <2>1, <2>3 DEF IInv, OutstandingExplained
<1>10. DatesBehindMoney'
  <2>1. \A q \in Requests : Settled(q) => Settled(q)'
    BY <1>1, SettledKept
  <2> QED
    BY <1>1, <1>3, <1>4, <2>1, DatesKept DEF IInv
<1> QED
  BY <1>5, <1>6, <1>7, <1>8, <1>9, <1>10 DEF IInv

-----------------------------------------------------------------------------
LEMMA InitInv == Init => IInv
<1> SUFFICES ASSUME Init PROVE IInv
  OBVIOUS
<1> USE DEF Init
<1>1. TypeOK
  BY LoansAssumption DEF TypeOK, Phases, Replies, Nothing
<1>2. \A r \in Requests : OnWay(r) /\ HonestWrite(r)
  BY DEF OnWay, HonestWrite, Refusals
<1>3. OneWriter /\ DatesBehindMoney
  BY DEF OneWriter, DatesBehindMoney
<1>4. OutstandingExplained
  <2>1. \A u \in Granted : OpeningLoan[u].outstanding \in Nat
    BY LoansAssumption DEF LoanRows
  <2>2. \A u : RepaidOn(u) = {}
    BY DEF RepaidOn
  <2>3. \A u : Total(RepaidOn(u), Principals) = 0
    BY <2>2, TotalEmpty
  <2> QED
    BY <2>1, <2>3, LoansAssumption DEF OutstandingExplained
<1> QED
  BY <1>1, <1>2, <1>3, <1>4 DEF IInv

LEMMA NextInv == IInv /\ [Next]_vars => IInv'
<1> SUFFICES ASSUME IInv, [Next]_vars PROVE IInv'
  OBVIOUS
<1>1. CASE UNCHANGED vars
  <2>1. UNCHANGED <<book, posted, moved, loan, repayments, metadata, input, pc, write, noted,
                    spoilt, reply>>
    BY <1>1 DEF vars, pgVars, tbVars
  <2>2. TypeOK' /\ OneWriter'
    BY <2>1 DEF IInv, TypeOK, OneWriter
  <2>3. \A r \in Requests : OnWay(r)' /\ HonestWrite(r)'
    BY <2>1 DEF IInv, OnWay, HonestWrite, Settled
  <2>4. DatesBehindMoney'
    BY <2>1 DEF IInv, DatesBehindMoney, Settled
  <2>5. \A u : Total(RepaidOn(u), Principals)' = Total(RepaidOn(u), Principals)
    BY <2>1, RepaidKept DEF IInv, TypeOK
  <2>6. OutstandingExplained'
    BY <2>1, <2>5 DEF IInv, OutstandingExplained
  <2> QED
    BY <2>2, <2>3, <2>4, <2>6 DEF IInv
<1>2. ASSUME NEW r \in Requests,
             \/ Submit(r) \/ Validate(r) \/ ExecuteTb(r) \/ SetDisbursedAt(r)
             \/ ReduceOutstanding(r) \/ WriteMetadata(r) \/ Commit(r) \/ CommitFails(r)
             \/ DependencyFails(r) \/ Die(r)
      PROVE  IInv'
  BY <1>2, SubmitInv, ValidateInv, ExecuteTbInv, WriteRowInv, WriteMetadataInv, EndInv,
     DependencyFailsInv, DieInv
<1>3. ASSUME NEW u \in Granted, UpdateArrearsStatus(u) PROVE IInv'
  BY <1>3, ArrearsInv
<1> QED
  BY <1>1, <1>2, <1>3 DEF Next

LEMMA Inductive == Spec => []IInv
  BY InitInv, NextInv, PTL DEF Spec

-----------------------------------------------------------------------------
(* The theorems. *)

\* No loan ever has less than nothing outstanding, and TigerBeetle's totals and the
\* rows of the loans keep their shape (loan_service.py, loan_repo.py).
THEOREM TypeCorrect == Spec => []TypeOK
<1>1. IInv => TypeOK
  BY DEF IInv
<1> QED
  BY <1>1, Inductive, PTL

\* However many repayments, disbursements and runs of the arrears job wait for each
\* other's row, what is outstanding is the opening amount less the repayments on
\* record, and a loan is closed just when that is nothing (LoanRepo.reduce_outstanding).
THEOREM OutstandingExplainedCorrect == Spec => []OutstandingExplained
<1>1. IInv => OutstandingExplained
  BY DEF IInv
<1> QED
  BY <1>1, Inductive, PTL

\* No row of PostgreSQL is about money that has not moved (LoanService.repay,
\* repay_with_fee and disburse, with the background task for metadata).
THEOREM RecordsBehindMoneyCorrect == Spec => []RecordsBehindMoney
<1>1. IInv => RecordsBehindMoney
  BY DEF IInv, TypeOK, OnWay, DatesBehindMoney, RecordsBehindMoney
<1> QED
  BY <1>1, Inductive, PTL

\* A client told that money was posted had every leg executed, for what was asked
\* where its account may not be overdrawn; one refused before the batch had none, and
\* one told of a TigerBeetle error not the whole batch (the answers of LoanService).
THEOREM AnswersTruthfulCorrect == Spec => []AnswersTruthful
<1>1. IInv => AnswersTruthful
  BY DEF IInv, OnWay, AnswersTruthful
<1> QED
  BY <1>1, Inductive, PTL

\* A status never goes back, although repayments write the one they read and the
\* arrears job runs beside them (LoanRepo.reduce_outstanding, update_arrears_status).
THEOREM LoanStatusForwardCorrect == Spec => LoanStatusForward
<1> DEFINE Forward ==
        \A u \in Granted : loan'[u].status # loan[u].status =>
            <<loan[u].status, loan'[u].status>> \in
                {<<"active", "in_arrears">>, <<"active", "closed">>,
                 <<"in_arrears", "closed">>}
<1>1. ASSUME IInv, NEW r \in Requests, pc[r] = "commit", Publish(r) PROVE Forward
  <2> DEFINE i == input[r]
             u == i.loan
             n == i.amount["principal"]
  <2>1. CASE write[r] = NoWrite
    BY <1>1, <2>1 DEF Publish
  <2>2. CASE write[r] # NoWrite
    <3>1. i \in Inputs /\ u \in Granted
      BY <1>1 DEF IInv, TypeOK, OnWay
    <3>2. i.kind \in Kinds /\ n \in Nat /\ n > 0
      BY <3>1, InputType DEF LegNames
    <3>3. loan[u] \in LoanRows /\ (loan[u].status = "closed" <=> loan[u].outstanding = 0)
      BY <1>1, <3>1 DEF IInv, TypeOK, OutstandingExplained
    <3>4. /\ i.kind \in Repaying =>
                 loan[u].outstanding >= n /\ write[r] = Reduced(loan[u], n)
          /\ i.kind = "disburse" => write[r] = [loan[u] EXCEPT !.disbursed = TRUE]
      BY <1>1, <2>2 DEF IInv, HonestWrite
    <3>5. write[r].status = loan[u].status
          \/ (write[r].status = "closed" /\ loan[u].status # "closed")
      <4>1. CASE i.kind \in Repaying
        BY <3>2, <3>3, <3>4, <4>1, RowsAfter
      <4>2. CASE i.kind = "disburse"
        BY <3>3, <3>4, <4>2, RowsAfter
      <4> QED
        BY <3>2, <4>1, <4>2 DEF Repaying
    <3>6. loan'[u] = write[r] /\ \A v \in Granted \ {u} : loan'[v] = loan[v]
      BY <1>1, <2>2, <3>1 DEF Publish, IInv, TypeOK
    <3>7. loan[u].status \in {"active", "in_arrears", "closed"}
      BY <3>3 DEF LoanRows
    <3> QED
      BY <3>5, <3>6, <3>7
  <2> QED
    BY <2>1, <2>2
<1>2. ASSUME IInv, NEW u \in Granted, UpdateArrearsStatus(u) PROVE Forward
  <2>1. /\ loan[u].status \in {"active", "in_arrears", "closed"}
        /\ loan[u].status \notin {"closed", "in_arrears"}
        /\ loan' = [loan EXCEPT ![u].status = "in_arrears"]
    BY <1>2 DEF UpdateArrearsStatus, IInv, TypeOK, LoanRows
  <2>2. /\ loan'[u].status = "in_arrears" /\ \A v \in Granted \ {u} : loan'[v] = loan[v]
    BY <1>2, <2>1 DEF IInv, TypeOK, LoanRows
  <2> QED
    BY <2>1, <2>2
<1>3. ASSUME loan' = loan PROVE Forward
  BY <1>3
<1>4. IInv /\ [Next]_vars => [Forward]_vars
  <2> SUFFICES ASSUME IInv, Next PROVE Forward
    OBVIOUS
  <2>1. ASSUME NEW r \in Requests,
               \/ Submit(r) \/ Validate(r) \/ ExecuteTb(r) \/ SetDisbursedAt(r)
               \/ ReduceOutstanding(r) \/ WriteMetadata(r) \/ DependencyFails(r) \/ Die(r)
        PROVE  loan' = loan
    BY <2>1 DEF Submit, Validate, ExecuteTb, SetDisbursedAt, ReduceOutstanding,
        WriteMetadata, DependencyFails, Die, pgVars, tbVars
  <2>2. ASSUME NEW r \in Requests, Commit(r) \/ CommitFails(r)
        PROVE  loan' = loan \/ (pc[r] = "commit" /\ Publish(r))
    BY <2>2 DEF Commit, CommitFails, pgVars, tbVars
  <2> HIDE DEF Forward
  <2> QED
    BY <1>1, <1>2, <1>3, <2>1, <2>2 DEF Next
<1> QED
  BY <1>4, Inductive, PTL DEF Spec, LoanStatusForward
=============================================================================
