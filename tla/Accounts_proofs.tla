--------------------------- MODULE Accounts_proofs ---------------------------
(***************************************************************************)
(* What Accounts guarantees for every bank, every number of requests and   *)
(* every products they open accounts of.                                   *)
(***************************************************************************)
EXTENDS Accounts, FiniteSetTheorems, TLAPS

-----------------------------------------------------------------------------
(* The invariant. *)

Mine(prefix) == {x \in rows : Prefix(x.product) = prefix}
Count(prefix) == Cardinality(Mine(prefix))

\* The requests that may still generate a UUID.
Early == {r \in Requests : pc[r] \in {"new", "validate", "sequence", "create"}}

\* u is not among the UUIDs still to come.
Drawn(u) == \A n \in DOMAIN Uuids : n > made => Uuids[n] # u

Typed ==
    /\ IsFiniteSet(rows) /\ rows \subseteq AccountRows
    /\ nextId \in Nat /\ made \in Nat
    /\ draft \in [Requests -> Drafts]
    /\ page \in [Requests -> SUBSET rows]
    /\ DOMAIN shown = Requests /\ DOMAIN before = Requests /\ DOMAIN input = Requests
    /\ pc \in [Requests -> Phases] /\ reply \in [Requests -> Replies]
    /\ made + Cardinality(Early) <= Cardinality(Requests)

\* What is known of an opening on its way.
Opening(r) == pc[r] \in {"sequence", "create", "insert", "link", "loan", "commit"}
Prepared ==
    \A r \in Requests :
        /\ pc[r] # "done" => reply[r] = "none"
        /\ Opening(r) => ProductOf(r) \in Products /\ input[r].customer \in Customers
        /\ pc[r] = "loan" => Product[ProductOf(r)].loan
        /\ pc[r] \in {"loan", "commit"} => draft[r].owner = input[r].customer
        /\ pc[r] \in {"insert", "link", "loan"} => ~draft[r].loan
        /\ pc[r] \in {"new", "validate", "sequence", "create", "row", "balance", "page", "balances"}
              => draft[r].uuid = NoUuid /\ ~draft[r].loan
        /\ pc[r] = "commit" => draft[r].loan = Product[ProductOf(r)].loan

\* Identity values are drawn once.
IdsApart ==
    /\ \A x \in rows : x.id < nextId
    /\ \A x, y \in rows : x.id = y.id => x = y
    /\ \A r \in Requests : Inserted(r) =>
          /\ draft[r].id < nextId
          /\ \A x \in rows : x.id # draft[r].id
          /\ \A q \in Requests : Inserted(q) /\ draft[q].id = draft[r].id => q = r
    /\ \A r \in Requests : \A n \in before[r] : \E x \in rows : x.id = n

\* So are UUIDs, and TigerBeetle knows those drawn only.
UuidsApart ==
    /\ \A x \in rows : Drawn(x.uuid)
    /\ \A x, y \in rows : x.uuid = y.uuid => x = y
    /\ \A a \in DOMAIN tb : \A n \in DOMAIN Uuids : n > made => TbId(Uuids[n]) # a
    /\ \A r \in Requests : draft[r].uuid # NoUuid =>
          /\ Drawn(draft[r].uuid)
          /\ \A q \in Requests : draft[q].uuid = draft[r].uuid => q = r
    /\ \A r \in Requests :
          pc[r] # "done" \/ reply[r] \in {"ValidationError", "ErrProductInactive", "RuntimeError"} =>
              \A x \in rows : x.uuid # draft[r].uuid

\* An opening past TigerBeetle has its account there.
Backed ==
    \A r \in Requests : pc[r] = "insert" \/ Inserted(r) =>
        /\ draft[r].uuid \in Identifiers
        /\ TbId(draft[r].uuid) \in DOMAIN tb
        /\ tb[TbId(draft[r].uuid)].ledger = Product[ProductOf(r)].currency

\* A number on its way is at most the next one, and one that was inserted is just
\* that, so that there is one of them.
Numbered ==
    /\ \A p \in Products : Numbers(Prefix(p)) = 1 .. Count(Prefix(p))
    /\ \A r \in Requests :
          LET next == Count(Prefix(ProductOf(r))) + 1
          IN /\ pc[r] \in {"create", "insert"} => draft[r].seq \in 1 .. next
             /\ Inserted(r) => draft[r].seq = next
    /\ \A q, r \in Requests :
          Inserted(q) /\ Inserted(r) /\ Prefix(ProductOf(q)) = Prefix(ProductOf(r)) => q = r

IInv == Typed /\ Prepared /\ IdsApart /\ UuidsApart /\ Backed /\ Numbered /\ AccountsWhole

-----------------------------------------------------------------------------
(* Lemmas on data. *)

\* The two byte orders of an identifier determine each other.
LEMMA TbIdInjective ==
    ASSUME NEW u \in Identifiers, NEW v \in Identifiers, TbId(u) = TbId(v)
    PROVE  u = v
<1>1. \A i \in ByteIndex : Mirror(i) \in ByteIndex /\ Mirror(Mirror(i)) = i
  BY HalfLenAssumption DEF ByteIndex, Mirror
<1>2. \A i \in ByteIndex : TbId(u)[i] = u[Mirror(i)] /\ TbId(v)[i] = v[Mirror(i)]
  BY DEF TbId, UuidToUint128
<1>3. \A i \in ByteIndex : u[i] = v[i]
  BY <1>1, <1>2
<1> QED
  BY <1>3 DEF Identifiers

\* A bank's products have what a row of products has.
LEMMA ProductShape ==
    ASSUME NEW p \in Products
    PROVE  /\ Product[p].loan \in BOOLEAN /\ Product[p].code \in Nat
  BY AccountsAssumption DEF ProductRows

\* The numbers that are committed are those of the rows of the prefix.
LEMMA NumbersShape ==
    ASSUME IsFiniteSet(rows), rows \subseteq AccountRows
    PROVE  /\ \A prefix : Count(prefix) \in Nat /\ IsFiniteSet(Mine(prefix))
           /\ \A prefix : Numbers(prefix) = {x.seq : x \in Mine(prefix)}
<1>1. \A prefix : IsFiniteSet(Mine(prefix))
  BY FS_Subset DEF Mine
<1>2. \A prefix : Count(prefix) \in Nat
  BY <1>1, FS_CardinalityType DEF Count
<1>3. \A prefix : Numbers(prefix) = {x.seq : x \in Mine(prefix)}
  BY DEF Numbers, Mine
<1> QED
  BY <1>1, <1>2, <1>3

\* MAX + 1 is the next number.
LEMMA NextNumberShape ==
    ASSUME NEW prefix, NEW k \in Nat, Numbers(prefix) = 1 .. k
    PROVE  NextNumber(prefix) = k
<1>1. k \in {0} \cup Numbers(prefix) /\ \A m \in Numbers(prefix) : m <= k
  OBVIOUS
<1>2. \A n \in {0} \cup Numbers(prefix) : (\A m \in Numbers(prefix) : m <= n) => n = k
  OBVIOUS
<1> QED
  BY <1>1, <1>2 DEF NextNumber

\* A new row counts for its own prefix alone.
LEMMA OneRowMore ==
    ASSUME IsFiniteSet(rows), rows \subseteq AccountRows,
           NEW x \in AccountRows, x \notin rows, rows' = rows \cup {x}
    PROVE  /\ IsFiniteSet(rows') /\ rows' \subseteq AccountRows
           /\ Count(Prefix(x.product))' = Count(Prefix(x.product)) + 1
           /\ \A prefix : prefix # Prefix(x.product) => Count(prefix)' = Count(prefix)
           /\ Numbers(Prefix(x.product))' = Numbers(Prefix(x.product)) \cup {x.seq}
           /\ \A prefix : prefix # Prefix(x.product) => Numbers(prefix)' = Numbers(prefix)
<1> DEFINE P == Prefix(x.product)
<1>1. IsFiniteSet(rows') /\ rows' \subseteq AccountRows
  BY FS_AddElement
<1>2. Mine(P)' = Mine(P) \cup {x} /\ x \notin Mine(P)
  BY DEF Mine, Prefix
<1>3. \A prefix : prefix # P => Mine(prefix)' = Mine(prefix)
  BY DEF Mine, Prefix
<1>4. IsFiniteSet(Mine(P))
  BY NumbersShape
<1>5. Count(P)' = Count(P) + 1
  BY <1>2, <1>4, FS_AddElement DEF Count
<1>6. \A prefix : prefix # P => Count(prefix)' = Count(prefix)
  BY <1>3 DEF Count
<1>7. Numbers(P)' = Numbers(P) \cup {x.seq}
  BY DEF Numbers, Prefix
<1>8. \A prefix : prefix # P => Numbers(prefix)' = Numbers(prefix)
  BY DEF Numbers, Prefix
<1> QED
  BY <1>1, <1>5, <1>6, <1>7, <1>8

-----------------------------------------------------------------------------
(* The invariant holds at the start. *)

LEMMA InitInv == Init => IInv
<1> SUFFICES ASSUME Init PROVE IInv
  OBVIOUS
<1> USE DEF Init
<1>1. Typed
  <2>1. Early = Requests
    BY DEF Early
  <2>2. Cardinality(OpeningRows) \in Nat /\ Cardinality(Requests) \in Nat
    BY OpeningAssumption, AccountsAssumption, FS_CardinalityType
  <2>3. Blank \in Drafts
    BY DEF Blank, Drafts
  <2> QED
    BY <2>1, <2>2, <2>3, OpeningAssumption DEF Typed, Phases, Replies
<1>2. Prepared
  BY DEF Prepared, Opening, Blank
<1>3. IdsApart
  <2>1. Cardinality(OpeningRows) \in Nat
    BY OpeningAssumption, FS_CardinalityType
  <2>2. \A x \in rows : x.id < nextId
    BY <2>1, OpeningAssumption
  <2> QED
    BY <2>2, OpeningAssumption DEF IdsApart, Inserted
<1>4. UuidsApart
  <2>1. \A x \in rows : Drawn(x.uuid)
    BY OpeningAssumption DEF Drawn
  <2>2. \A x, y \in rows : x.uuid = y.uuid => x = y
    BY OpeningAssumption
  <2>3. \A a \in DOMAIN tb : \A n \in DOMAIN Uuids : TbId(Uuids[n]) # a
    <3> SUFFICES ASSUME NEW x \in OpeningRows, NEW n \in DOMAIN Uuids, TbId(Uuids[n]) = TbId(x.uuid)
                 PROVE  FALSE
      BY OpeningAssumption
    <3>1. x.uuid \in Identifiers /\ Uuids[n] \in Identifiers
      BY OpeningAssumption, AccountsAssumption DEF AccountRows
    <3> QED
      BY <3>1, TbIdInjective, OpeningAssumption
  <2>4. \A r \in Requests : draft[r].uuid = NoUuid
    BY DEF Blank
  <2>5. \A x \in rows : x.uuid # NoUuid
    BY OpeningAssumption, AccountsAssumption DEF AccountRows
  <2> QED
    BY <2>1, <2>2, <2>3, <2>4, <2>5 DEF UuidsApart
<1>5. Backed
  BY DEF Backed, Inserted
<1>6. Numbered
  <2>1. IsFiniteSet(rows) /\ rows \subseteq AccountRows
    BY OpeningAssumption
  <2>2. \A p \in Products : {x.seq : x \in Mine(Prefix(p))} = 1 .. Count(Prefix(p))
    BY OpeningAssumption DEF NumbersOf, Mine, Count
  <2>3. \A p \in Products : Numbers(Prefix(p)) = 1 .. Count(Prefix(p))
    BY <2>1, <2>2, NumbersShape
  <2> QED
    BY <2>3 DEF Numbered, Inserted
<1>7. AccountsWhole
  <2> SUFFICES ASSUME NEW x \in OpeningRows
               PROVE  /\ TbId(x.uuid) \in DOMAIN tb
                      /\ tb[TbId(x.uuid)].ledger = Product[x.product].currency
                      /\ x.owner \in Customers
                      /\ x.loan = Product[x.product].loan
                      /\ \A y \in OpeningRows : x.id = y.id \/ x.uuid = y.uuid => x = y
    BY DEF AccountsWhole
  <2>1. x.product \in Products
    BY OpeningAssumption DEF AccountRows
  <2> QED
    BY <2>1, OpeningAssumption, ProductShape
<1> QED
  BY <1>1, <1>2, <1>3, <1>4, <1>5, <1>6, <1>7 DEF IInv

-----------------------------------------------------------------------------
(* Every step keeps it. *)

\* A request leaves the phases before its UUID for good, and draws one UUID as it does.
LEMMA EarlyShrinks ==
    ASSUME Typed, NEW r \in Requests, NEW phase \in Phases, pc' = [pc EXCEPT ![r] = phase],
           \/ made' = made /\ (r \in Early \/ phase \notin {"new", "validate", "sequence", "create"})
           \/ made' = made + 1 /\ r \in Early
                  /\ phase \notin {"new", "validate", "sequence", "create"}
    PROVE  made' \in Nat /\ made' + Cardinality(Early)' <= Cardinality(Requests)
<1>1. IsFiniteSet(Early) /\ Cardinality(Early) \in Nat
  BY AccountsAssumption, FS_Subset, FS_CardinalityType DEF Early
<1>2. Cardinality(Requests) \in Nat
  BY AccountsAssumption, FS_CardinalityType
<1>3. CASE made' = made
  <2>1. Early' \subseteq Early
    BY <1>3 DEF Typed, Early
  <2>2. Cardinality(Early') \in Nat /\ Cardinality(Early') <= Cardinality(Early)
    BY <1>1, <2>1, FS_Subset, FS_CardinalityType
  <2> QED
    BY <1>1, <1>2, <1>3, <2>2 DEF Typed
<1>4. CASE made' = made + 1
  <2>0. made \in Nat /\ pc \in [Requests -> Phases]
    BY DEF Typed
  <2>1. r \in Early /\ phase \notin {"new", "validate", "sequence", "create"}
    BY <1>4, <2>0
  <2>2. Early' = Early \ {r}
    BY <2>0, <2>1 DEF Early
  <2>3. Cardinality(Early') = Cardinality(Early) - 1
    BY <1>1, <2>1, <2>2, FS_RemoveElement
  <2> QED
    BY <1>1, <1>2, <1>4, <2>3 DEF Typed
<1> QED
  BY <1>3, <1>4

\* A UUID still to come exists, for whoever is about to draw one.
LEMMA UuidToCome ==
    ASSUME Typed, NEW r \in Requests, pc[r] = "create"
    PROVE  made + 1 \in DOMAIN Uuids /\ Uuids[made + 1] \in Identifiers
<1>1. r \in Early
  BY DEF Early
<1>2. IsFiniteSet(Early) /\ Cardinality(Early) \in Nat /\ Early # {}
  BY <1>1, AccountsAssumption, FS_Subset, FS_CardinalityType DEF Early
<1>3. Cardinality(Early) >= 1
  BY <1>2, FS_EmptySet
<1>4. Cardinality(Requests) \in Nat
  BY AccountsAssumption, FS_CardinalityType
<1> QED
  BY <1>2, <1>3, <1>4, AccountsAssumption DEF Typed

\* The row an opening commits is one.
LEMMA RowShape ==
    ASSUME Typed, Prepared, Backed, NEW r \in Requests, pc[r] = "commit"
    PROVE  RowOf(r) \in AccountRows
<1>1. draft[r] \in Drafts /\ draft[r].uuid \in Identifiers
  BY DEF Typed, Backed, Inserted
<1>2. ProductOf(r) \in Products
  BY DEF Prepared, Opening
<1> QED
  BY <1>1, <1>2 DEF RowOf, AccountRows, Drafts

\* The ways a step may go.
Moves(r, phase, answer) ==
    pc' = [pc EXCEPT ![r] = phase] /\ reply' = [reply EXCEPT ![r] = answer]

\* A step that leaves what is stored alone, or ends a request.
QuietStep(r) ==
    /\ UNCHANGED <<tb, rows, made, draft>> /\ nextId' \in {nextId, nextId + 1}
    /\ \/ /\ pc[r] = "new" /\ \E phase \in {"validate", "row", "page"} : Moves(r, phase, "none")
          /\ \E i \in Inputs : input' = [input EXCEPT ![r] = i]
          /\ before' = [before EXCEPT ![r] = {x.id : x \in rows}]
       \/ /\ UNCHANGED <<input, before>>
          /\ \/ pc[r] = "validate" /\ Refusal(input[r]) = "none" /\ Moves(r, "sequence", "none")
             \/ /\ pc[r] \in {"row", "page", "balances"}
                /\ \E phase \in {"balance", "page", "balances"} : Moves(r, phase, "none")
             \/ Live(r) /\ \E answer \in Replies \ {"created"} : Moves(r, "done", answer)

SequenceStep(r) ==
    /\ pc[r] = "sequence" /\ Moves(r, "create", "none")
    /\ draft' = [draft EXCEPT ![r].seq = NextNumber(Prefix(ProductOf(r))) + 1]
    /\ UNCHANGED <<tb, rows, nextId, made, before, input>>

GenerateStep(r) ==
    /\ pc[r] = "create" /\ Generate(r)
    /\ \/ TbCreated(r) /\ Moves(r, "insert", "none")
       \/ /\ UNCHANGED tb \/ TbCreated(r)
          /\ \E answer \in {"none", "RuntimeError"} : Moves(r, "done", answer)
    /\ UNCHANGED <<rows, nextId, before, input>>

InsertStep(r) ==
    /\ pc[r] = "insert" /\ Moves(r, "link", "none") /\ ~NumberTaken(r)
    /\ \A q \in Requests : ~(Inserted(q) /\ SameNumber(q, r))
    /\ nextId' = nextId + 1 /\ draft' = [draft EXCEPT ![r].id = nextId]
    /\ UNCHANGED <<tb, rows, made, before, input>>

\* The two inserts that follow the account's own.
FillStep(r) ==
    /\ \/ /\ pc[r] = "link" /\ draft' = [draft EXCEPT ![r].owner = input[r].customer]
          /\ Moves(r, IF Product[ProductOf(r)].loan THEN "loan" ELSE "commit", "none")
       \/ /\ pc[r] = "loan" /\ draft' = [draft EXCEPT ![r].loan = TRUE]
          /\ Moves(r, "commit", "none")
    /\ UNCHANGED <<tb, rows, nextId, made, before, input>>

CommitStep(r) ==
    /\ pc[r] = "commit" /\ rows' = rows \cup {RowOf(r)}
    /\ \E answer \in {"created", "CommitError"} : Moves(r, "done", answer)
    /\ UNCHANGED <<tb, nextId, made, draft, before, input>>

\* Every action is one of these.
LEMMA Steps ==
    ASSUME Typed, Prepared, NEW r \in Requests,
           \/ Submit(r) \/ Proceed(r) \/ CreateTbFails(r) \/ CommitFails(r)
           \/ DependencyFails(r) \/ Die(r)
    PROVE  \/ QuietStep(r) \/ SequenceStep(r) \/ GenerateStep(r) \/ InsertStep(r)
           \/ FillStep(r) \/ CommitStep(r)
<1>1. pc[r] # "done" => reply = [reply EXCEPT ![r] = "none"]
  BY DEF Typed, Prepared
<1>2. \A phase : GoTo(r, phase) /\ pc[r] # "done" => Moves(r, phase, "none")
  BY <1>1 DEF GoTo, Moves
<1>3. \A answer : EndWith(r, answer) => Moves(r, "done", answer)
  BY DEF EndWith, Moves
<1>4. CASE Submit(r)
  <2>1. PICK i \in Inputs :
           /\ input' = [input EXCEPT ![r] = i]
           /\ GoTo(r, CASE Kind(i) = "open" -> "validate"
                        [] Kind(i) = "list" -> "page"
                        [] OTHER -> "row")
    BY <1>4 DEF Submit
  <2>2. (CASE Kind(i) = "open" -> "validate"
           [] Kind(i) = "list" -> "page"
           [] OTHER -> "row") \in {"validate", "row", "page"}
    BY DEF Kind
  <2> QED
    BY <1>2, <1>4, <2>1, <2>2 DEF Submit, QuietStep
<1>5. CASE Validate(r)
  <2>1. Refusal(input[r]) \in Replies \ {"created"}
    BY DEF Refusal, Replies
  <2> QED
    BY <1>2, <1>3, <1>5, <2>1 DEF Validate, QuietStep, Live
<1>6. CASE NextSequence(r)
  BY <1>2, <1>6 DEF NextSequence, SequenceStep
<1>7. CASE CreateTb(r)
  BY <1>2, <1>7 DEF CreateTb, GenerateStep
<1>8. CASE Insert(r)
  BY <1>2, <1>3, <1>8 DEF Insert, InsertStep, QuietStep, Live, Replies
<1>9. CASE Link(r)
  BY <1>2, <1>9 DEF Link, FillStep
<1>10. CASE CreateLoan(r)
  BY <1>2, <1>3, <1>10 DEF CreateLoan, FillStep, QuietStep, Live, Replies
<1>11. CASE Commit(r)
  BY <1>3, <1>11 DEF Commit, CommitStep
<1>12. CASE FindRow(r) \/ FindBalance(r) \/ ReadPage(r) \/ ShowPage(r)
  BY <1>2, <1>3, <1>12 DEF FindRow, FindBalance, ReadPage, ShowPage, QuietStep, Live, Replies
<1>13. CASE CreateTbFails(r)
  BY <1>3, <1>13 DEF CreateTbFails, GenerateStep
<1>14. CASE CommitFails(r)
  BY <1>3, <1>14 DEF CommitFails, CommitStep, QuietStep, Live, Replies
<1>15. CASE DependencyFails(r)
  BY <1>3, <1>15 DEF DependencyFails, QuietStep, Live, Replies
<1>16. CASE Die(r)
  <2>1. Moves(r, "done", "none")
    BY <1>1, <1>16 DEF Die, Live, Moves
  <2> QED
    BY <1>16, <2>1 DEF Die, QuietStep, GenerateStep, Live, Replies
<1> QED
  BY <1>4, <1>5, <1>6, <1>7, <1>8, <1>9, <1>10, <1>11, <1>12, <1>13, <1>14, <1>15, <1>16
     DEF Proceed

LEMMA NextTyped ==
    ASSUME IInv, Next
    PROVE  Typed'
<1>1. PICK r \in Requests :
          \/ Submit(r) \/ Proceed(r) \/ CreateTbFails(r) \/ CommitFails(r)
          \/ DependencyFails(r) \/ Die(r)
  BY DEF Next
<1>2. Typed /\ Prepared /\ Backed
  BY DEF IInv
<1>3. \/ QuietStep(r) \/ SequenceStep(r) \/ GenerateStep(r) \/ InsertStep(r)
      \/ FillStep(r) \/ CommitStep(r)
  BY <1>1, <1>2, Steps
<1>4. IsFiniteSet(rows') /\ rows' \subseteq AccountRows /\ rows \subseteq rows'
  <2>1. CASE rows' = rows
    BY <1>2, <2>1 DEF Typed
  <2>2. CASE pc[r] = "commit" /\ rows' = rows \cup {RowOf(r)}
    BY <1>2, <2>2, RowShape, FS_AddElement DEF Typed
  <2> QED
    BY <1>3, <2>1, <2>2
       DEF QuietStep, SequenceStep, GenerateStep, InsertStep, FillStep, CommitStep
<1>5. nextId' \in Nat
  BY <1>2, <1>3
     DEF Typed, QuietStep, SequenceStep, GenerateStep, InsertStep, FillStep, CommitStep
<1>6. draft' \in [Requests -> Drafts]
  <2>1. CASE draft' = draft
    BY <1>2, <2>1 DEF Typed
  <2>2. CASE SequenceStep(r)
    <3>1. ProductOf(r) \in Products
      BY <1>2, <2>2 DEF SequenceStep, Prepared, Opening
    <3>2. NextNumber(Prefix(ProductOf(r))) = Count(Prefix(ProductOf(r)))
      BY <3>1, <1>2, NextNumberShape, NumbersShape DEF IInv, Numbered, Typed
    <3>3. NextNumber(Prefix(ProductOf(r))) + 1 \in Nat
      BY <3>2, <1>2, NumbersShape DEF Typed
    <3> QED
      BY <2>2, <3>3, <1>2 DEF SequenceStep, Typed, Drafts
  <2>3. CASE GenerateStep(r)
    BY <1>2, <2>3, UuidToCome DEF Typed, Drafts, GenerateStep, Generate
  <2>4. CASE InsertStep(r)
    BY <1>2, <2>4 DEF InsertStep, Typed, Drafts
  <2>5. CASE FillStep(r)
    <3>1. input[r].customer \in Customers
      BY <1>2, <2>5 DEF FillStep, Prepared, Opening
    <3>2. \A d \in Drafts : [d EXCEPT !.loan = TRUE] \in Drafts
      BY DEF Drafts
    <3>3. \A d \in Drafts : [d EXCEPT !.owner = input[r].customer] \in Drafts
      BY <3>1 DEF Drafts
    <3>4. draft \in [Requests -> Drafts]
      BY <1>2 DEF Typed
    <3>5. draft' = [draft EXCEPT ![r].owner = input[r].customer]
          \/ draft' = [draft EXCEPT ![r].loan = TRUE]
      BY <2>5 DEF FillStep
    <3> QED
      BY <3>2, <3>3, <3>4, <3>5
  <2> QED
    BY <1>3, <2>1, <2>2, <2>3, <2>4, <2>5 DEF QuietStep, CommitStep
<1>7. page' \in [Requests -> SUBSET rows']
  <2>1. PageOf(r) \subseteq rows
    BY DEF PageOf, FirstOf
  <2> QED
    BY <1>1, <1>2, <1>4, <2>1 DEF Typed, readVars, Submit, Proceed, CreateTbFails, CommitFails,
       DependencyFails, Die, Validate, NextSequence, CreateTb, Insert, Link, CreateLoan, Commit,
       FindRow, FindBalance, ReadPage, ShowPage
<1>8. DOMAIN shown' = Requests /\ DOMAIN before' = Requests /\ DOMAIN input' = Requests
  BY <1>1, <1>2 DEF Typed, readVars, Submit, Proceed, CreateTbFails, CommitFails,
     DependencyFails, Die, Validate, NextSequence, CreateTb, Insert, Link, CreateLoan, Commit,
     FindRow, FindBalance, ReadPage, ShowPage
<1>9. PICK phase \in Phases, answer \in Replies :
         /\ Moves(r, phase, answer)
         /\ \/ made' = made /\ (r \in Early \/ phase \notin {"new", "validate", "sequence", "create"})
            \/ made' = made + 1 /\ r \in Early
                   /\ phase \notin {"new", "validate", "sequence", "create"}
  <2>2. CASE QuietStep(r)
    BY <2>2 DEF QuietStep, Early, Phases, Replies
  <2>3. CASE SequenceStep(r)
    BY <2>3 DEF SequenceStep, Early, Phases, Replies
  <2>4. CASE GenerateStep(r)
    BY <2>4 DEF GenerateStep, Generate, Early, Phases, Replies
  <2>5. CASE InsertStep(r)
    BY <2>5 DEF InsertStep, Early, Phases, Replies
  <2>6. CASE FillStep(r)
    BY <2>6 DEF FillStep, Early, Phases, Replies
  <2>7. CASE CommitStep(r)
    BY <2>7 DEF CommitStep, Early, Phases, Replies
  <2> QED
    BY <1>3, <2>2, <2>3, <2>4, <2>5, <2>6, <2>7
<1>10. pc' \in [Requests -> Phases] /\ reply' \in [Requests -> Replies]
  BY <1>2, <1>9 DEF Typed, Moves
<1>11. made' \in Nat /\ made' + Cardinality(Early)' <= Cardinality(Requests)
  BY <1>2, <1>9, EarlyShrinks DEF Moves
<1> QED
  BY <1>4, <1>5, <1>6, <1>7, <1>8, <1>10, <1>11 DEF Typed

\* The rest of the invariant.
Rest == Prepared /\ IdsApart /\ UuidsApart /\ Backed /\ Numbered /\ AccountsWhole

LEMMA QuietKeeps ==
    ASSUME IInv, Typed', NEW r \in Requests, QuietStep(r)
    PROVE  Rest'
<1> USE DEF IInv
<1>1. /\ tb' = tb /\ rows' = rows /\ made' = made /\ draft' = draft
      /\ nextId \in Nat /\ nextId' \in {nextId, nextId + 1}
      /\ DOMAIN pc = Requests /\ DOMAIN reply = Requests
      /\ DOMAIN input = Requests /\ DOMAIN before = Requests
  BY DEF QuietStep, Typed
<1>2. \A q \in Requests : q # r =>
         pc'[q] = pc[q] /\ reply'[q] = reply[q] /\ input'[q] = input[q] /\ before'[q] = before[q]
  BY <1>1 DEF QuietStep, Moves
<1>3. /\ pc[r] # "done"
      /\ pc'[r] \in {"validate", "sequence", "row", "page", "balance", "balances", "done"}
      /\ pc'[r] # "done" => reply'[r] = "none"
      /\ pc'[r] \in {"validate", "sequence", "row", "page", "balance", "balances"} =>
            pc[r] \in {"new", "validate", "row", "page", "balances"}
      /\ pc'[r] = "sequence" => Refusal(input[r]) = "none" /\ input' = input
  BY <1>1 DEF QuietStep, Moves, Live
<1>4. \A q \in Requests :
         /\ pc'[q] \in {"create", "insert", "link", "loan", "commit"} =>
               pc'[q] = pc[q] /\ input'[q] = input[q]
         /\ Inserted(q)' => Inserted(q)
  BY <1>2, <1>3 DEF Inserted
<1>5. Prepared'
  <2>1. Refusal(input[r]) = "none" =>
            input[r].product \in Products /\ input[r].customer \in Customers
    BY DEF Refusal
  <2>2. \A q \in Requests : (pc'[q] = pc[q] /\ input'[q] = input[q]) \/ q = r
    BY <1>2
  <2> QED
    BY <1>1, <1>2, <1>3, <2>1, <2>2 DEF Prepared, Opening, ProductOf
<1>6. IdsApart'
  <2>1. \A q \in Requests : \A n \in before'[q] : \E x \in rows : x.id = n
    BY <1>1, <1>2 DEF IdsApart, QuietStep
  <2>2. \A x \in rows : x.id < nextId /\ x.id \in Nat
    BY DEF IdsApart, Typed, AccountRows
  <2>3. \A q \in Requests : draft[q].id \in Nat
    BY DEF Typed, Drafts
  <2> QED
    BY <1>1, <1>4, <2>1, <2>2, <2>3 DEF IdsApart
<1>7. UuidsApart'
  BY <1>1, <1>2, <1>3 DEF UuidsApart, Drawn
<1>8. Backed'
  BY <1>1, <1>4 DEF Backed, ProductOf, Inserted
<1>9. Numbered'
  BY <1>1, <1>4 DEF Numbered, ProductOf, Numbers, Count, Mine, Inserted
<1>10. AccountsWhole'
  BY <1>1 DEF AccountsWhole
<1> QED
  BY <1>5, <1>6, <1>7, <1>8, <1>9, <1>10 DEF Rest

LEMMA SequenceKeeps ==
    ASSUME IInv, Typed', NEW r \in Requests, SequenceStep(r)
    PROVE  Rest'
<1> USE DEF IInv
<1>1. /\ tb' = tb /\ rows' = rows /\ made' = made /\ nextId' = nextId
      /\ before' = before /\ input' = input /\ pc[r] = "sequence"
      /\ pc' = [pc EXCEPT ![r] = "create"] /\ reply' = [reply EXCEPT ![r] = "none"]
      /\ draft' = [draft EXCEPT ![r].seq = NextNumber(Prefix(ProductOf(r))) + 1]
      /\ DOMAIN pc = Requests /\ DOMAIN reply = Requests /\ draft \in [Requests -> Drafts]
  BY DEF SequenceStep, Moves, Typed
<1>2. /\ pc'[r] = "create" /\ reply'[r] = "none"
      /\ \A q \in Requests : q # r => pc'[q] = pc[q] /\ reply'[q] = reply[q] /\ draft'[q] = draft[q]
  BY <1>1
<1>3. \A q \in Requests : /\ draft'[q].uuid = draft[q].uuid /\ draft'[q].id = draft[q].id
                          /\ draft'[q].owner = draft[q].owner /\ draft'[q].loan = draft[q].loan
  BY <1>1 DEF Drafts
<1>4. \A q \in Requests : Inserted(q)' = Inserted(q) /\ (Inserted(q) => q # r)
  BY <1>1, <1>2 DEF Inserted
<1>5. Prepared'
  BY <1>1, <1>2, <1>3 DEF Prepared, Opening, ProductOf
<1>6. IdsApart'
  BY <1>1, <1>3, <1>4 DEF IdsApart
<1>7. UuidsApart'
  BY <1>1, <1>2, <1>3 DEF UuidsApart, Drawn
<1>8. Backed'
  BY <1>1, <1>2, <1>3, <1>4 DEF Backed, ProductOf
<1>9. Numbered'
  <2> DEFINE P == Prefix(ProductOf(r))
  <2>1. ProductOf(r) \in Products
    BY <1>1 DEF Prepared, Opening
  <2>2. Count(P) \in Nat /\ NextNumber(P) = Count(P)
    BY <2>1, NextNumberShape, NumbersShape DEF Numbered, Typed
  <2>3. draft'[r].seq = Count(P) + 1
    BY <1>1, <2>2 DEF Drafts
  <2>4. \A prefix : Numbers(prefix)' = Numbers(prefix) /\ Count(prefix)' = Count(prefix)
    BY <1>1 DEF Numbers, Count, Mine
  <2>5. \A q \in Requests : ProductOf(q)' = ProductOf(q)
    BY <1>1 DEF ProductOf
  <2>6. \A q \in Requests : pc'[q] \in {"create", "insert"} =>
           draft'[q].seq \in 1 .. Count(Prefix(ProductOf(q))) + 1
    BY <1>2, <2>2, <2>3 DEF Numbered
  <2>7. \A q \in Requests : Inserted(q)' => draft'[q].seq = Count(Prefix(ProductOf(q))) + 1
    BY <1>2, <1>4 DEF Numbered
  <2> QED
    BY <1>4, <2>4, <2>5, <2>6, <2>7 DEF Numbered, Prefix
<1>10. AccountsWhole'
  BY <1>1 DEF AccountsWhole
<1> QED
  BY <1>5, <1>6, <1>7, <1>8, <1>9, <1>10 DEF Rest

LEMMA GenerateKeeps ==
    ASSUME IInv, Typed', NEW r \in Requests, GenerateStep(r)
    PROVE  Rest'
<1> DEFINE u == Uuids[made + 1]
           Past(v) == \A n \in DOMAIN Uuids : n > made' => Uuids[n] # v
<1> USE DEF IInv
<1>1. /\ rows' = rows /\ nextId' = nextId /\ before' = before /\ input' = input
      /\ pc[r] = "create" /\ made' = made + 1 /\ made \in Nat
      /\ draft' = [draft EXCEPT ![r].uuid = u]
      /\ DOMAIN pc = Requests /\ DOMAIN reply = Requests /\ draft \in [Requests -> Drafts]
  BY DEF GenerateStep, Generate, Typed
<1>2. /\ pc'[r] \in {"insert", "done"} /\ (pc'[r] # "done" => reply'[r] = "none")
      /\ \A q \in Requests : q # r => pc'[q] = pc[q] /\ reply'[q] = reply[q] /\ draft'[q] = draft[q]
  BY <1>1 DEF GenerateStep, Moves
<1>3. /\ \A q \in Requests : /\ draft'[q].seq = draft[q].seq /\ draft'[q].id = draft[q].id
                             /\ draft'[q].owner = draft[q].owner /\ draft'[q].loan = draft[q].loan
      /\ draft'[r].uuid = u
  BY <1>1 DEF Drafts
<1>4. \A q \in Requests : Inserted(q)' = Inserted(q) /\ (Inserted(q) => q # r)
  BY <1>1, <1>2 DEF Inserted
<1>5. made + 1 \in DOMAIN Uuids /\ u \in Identifiers /\ u # NoUuid
  BY <1>1, UuidToCome, AccountsAssumption
<1>6. /\ \A v : Drawn(v) => Past(v) /\ v # u
      /\ \A n \in DOMAIN Uuids : n > made' => n > made /\ Uuids[n] # u /\ TbId(Uuids[n]) # TbId(u)
  <2>1. \A n \in DOMAIN Uuids : n \in Int /\ Uuids[n] \in Identifiers
    BY AccountsAssumption, FS_CardinalityType
  <2>2. \A n \in DOMAIN Uuids : n > made' => n > made /\ n # made + 1
    BY <1>1, <2>1
  <2>3. \A n \in DOMAIN Uuids : n > made' => Uuids[n] # u
    BY <1>5, <2>2, AccountsAssumption
  <2>4. \A n \in DOMAIN Uuids : n > made' => TbId(Uuids[n]) # TbId(u)
    BY <1>5, <2>1, <2>3, TbIdInjective
  <2>5. \A v : Drawn(v) => Past(v) /\ v # u
    BY <1>1, <1>5, <2>2 DEF Drawn
  <2> QED
    BY <2>2, <2>3, <2>4, <2>5
<1>7. TbId(u) \notin DOMAIN tb
  BY <1>1, <1>5 DEF UuidsApart
<1>8. tb' = tb \/ TbCreated(r)
  BY DEF GenerateStep
<1>9. /\ \A a \in DOMAIN tb : a \in DOMAIN tb' /\ tb'[a] = tb[a]
      /\ DOMAIN tb' \subseteq DOMAIN tb \cup {TbId(u)}
  BY <1>8 DEF TbCreated
<1>10. pc'[r] = "insert" => TbId(u) \in DOMAIN tb' /\ tb'[TbId(u)] = TbRecord(ProductOf(r))
  BY <1>1, <1>7, ZenonT(30) DEF GenerateStep, Moves, TbCreated
<1>11. Prepared'
  BY <1>1, <1>2, <1>3 DEF Prepared, Opening, ProductOf
<1>12. IdsApart'
  BY <1>1, <1>3, <1>4 DEF IdsApart
<1>13. UuidsApart'
  <2>1. \A x \in rows : Past(x.uuid) /\ x.uuid # u
    BY <1>6 DEF UuidsApart
  <2>2. \A a \in DOMAIN tb' : \A n \in DOMAIN Uuids : n > made' => TbId(Uuids[n]) # a
    BY <1>6, <1>9 DEF UuidsApart
  <2>3. Past(u)
    BY <1>6
  <2>4. \A q \in Requests : q # r /\ draft[q].uuid # NoUuid => Past(draft[q].uuid) /\ draft[q].uuid # u
    BY <1>6 DEF UuidsApart
  <2>5. \A q \in Requests : draft'[q].uuid # NoUuid =>
           /\ Past(draft'[q].uuid)
           /\ \A s \in Requests : draft'[s].uuid = draft'[q].uuid => s = q
    BY <1>2, <1>3, <1>5, <2>3, <2>4 DEF UuidsApart
  <2>6. \A q \in Requests :
          pc'[q] # "done" \/ reply'[q] \in {"ValidationError", "ErrProductInactive", "RuntimeError"} =>
              \A x \in rows : x.uuid # draft'[q].uuid
    BY <1>2, <1>3, <2>1 DEF UuidsApart
  <2> QED
    BY <1>1, <2>1, <2>2, <2>5, <2>6 DEF UuidsApart, Drawn
<1>14. Backed'
  <2>1. \A q \in Requests : q # r /\ (pc'[q] = "insert" \/ Inserted(q)') =>
           /\ draft'[q].uuid \in Identifiers /\ TbId(draft'[q].uuid) \in DOMAIN tb'
           /\ tb'[TbId(draft'[q].uuid)].ledger = Product[ProductOf(q)].currency
    BY <1>2, <1>4, <1>9 DEF Backed
  <2>2. pc'[r] = "insert" \/ Inserted(r)' =>
           /\ draft'[r].uuid \in Identifiers /\ TbId(draft'[r].uuid) \in DOMAIN tb'
           /\ tb'[TbId(draft'[r].uuid)].ledger = Product[ProductOf(r)].currency
    BY <1>3, <1>4, <1>5, <1>10 DEF TbRecord
  <2>3. \A q \in Requests : ProductOf(q)' = ProductOf(q)
    BY <1>1 DEF ProductOf
  <2> QED
    BY <2>1, <2>2, <2>3 DEF Backed
<1>15. Numbered'
  <2>1. \A prefix : Numbers(prefix)' = Numbers(prefix) /\ Count(prefix)' = Count(prefix)
    BY <1>1 DEF Numbers, Count, Mine
  <2>2. \A q \in Requests : ProductOf(q)' = ProductOf(q)
    BY <1>1 DEF ProductOf
  <2>3. \A q \in Requests : pc'[q] \in {"create", "insert"} => pc[q] \in {"create", "insert"}
    BY <1>1, <1>2
  <2> QED
    BY <1>3, <1>4, <2>1, <2>2, <2>3 DEF Numbered, Prefix
<1>16. AccountsWhole'
  BY <1>1, <1>9 DEF AccountsWhole
<1> QED
  BY <1>11, <1>12, <1>13, <1>14, <1>15, <1>16 DEF Rest

LEMMA InsertKeeps ==
    ASSUME IInv, Typed', NEW r \in Requests, InsertStep(r)
    PROVE  Rest'
<1> USE DEF IInv
<1>1. /\ tb' = tb /\ rows' = rows /\ made' = made /\ nextId' = nextId + 1 /\ nextId \in Nat
      /\ before' = before /\ input' = input /\ pc[r] = "insert"
      /\ pc' = [pc EXCEPT ![r] = "link"] /\ reply' = [reply EXCEPT ![r] = "none"]
      /\ draft' = [draft EXCEPT ![r].id = nextId]
      /\ DOMAIN pc = Requests /\ DOMAIN reply = Requests /\ draft \in [Requests -> Drafts]
  BY DEF InsertStep, Moves, Typed
<1>2. /\ pc'[r] = "link" /\ reply'[r] = "none"
      /\ \A q \in Requests : q # r => pc'[q] = pc[q] /\ reply'[q] = reply[q] /\ draft'[q] = draft[q]
  BY <1>1
<1>3. /\ \A q \in Requests :
            /\ draft'[q].uuid = draft[q].uuid /\ draft'[q].seq = draft[q].seq
            /\ draft'[q].owner = draft[q].owner /\ draft'[q].loan = draft[q].loan
      /\ draft'[r].id = nextId
  BY <1>1 DEF Drafts
<1>4. \A q \in Requests : Inserted(q)' => Inserted(q) \/ q = r
  BY <1>1, <1>2 DEF Inserted
<1>5. Prepared'
  BY <1>1, <1>2, <1>3 DEF Prepared, Opening, ProductOf
<1>6. IdsApart'
  <2>1. \A x \in rows : x.id \in Nat /\ x.id < nextId
    BY DEF Typed, AccountRows, IdsApart
  <2>2. \A q \in Requests : draft[q].id \in Nat
    BY <1>1 DEF Drafts
  <2>3. \A q \in Requests : q # r /\ Inserted(q)' => Inserted(q) /\ draft'[q].id = draft[q].id /\ draft[q].id < nextId
    BY <1>2, <1>4 DEF IdsApart
  <2>4. \A q \in Requests : Inserted(q)' => draft'[q].id < nextId'
    BY <1>1, <1>3, <2>2, <2>3
  <2>5. \A q \in Requests : Inserted(q)' => \A x \in rows : x.id # draft'[q].id
    BY <1>3, <2>1, <2>3 DEF IdsApart
  <2>6. \A q, s \in Requests : Inserted(q)' /\ Inserted(s)' /\ draft'[q].id = draft'[s].id => q = s
    BY <1>1, <1>3, <2>2, <2>3 DEF IdsApart
  <2>7. \A x \in rows : x.id < nextId'
    BY <1>1, <2>1
  <2> QED
    BY <1>1, <2>4, <2>5, <2>6, <2>7 DEF IdsApart
<1>7. UuidsApart'
  BY <1>1, <1>2, <1>3 DEF UuidsApart, Drawn
<1>8. Backed'
  BY <1>1, <1>2, <1>3, <1>4 DEF Backed, ProductOf
<1>9. Numbered'
  <2> DEFINE P == Prefix(ProductOf(r))
  <2>1. ProductOf(r) \in Products
    BY <1>1 DEF Prepared, Opening
  <2>2. Count(P) \in Nat /\ draft[r].seq \in 1 .. Count(P) + 1 /\ Numbers(P) = 1 .. Count(P)
    BY <1>1, <2>1, NumbersShape DEF Numbered, Typed
  <2>3. draft[r].seq \notin Numbers(P)
    BY DEF InsertStep, NumberTaken
  <2>4. draft[r].seq = Count(P) + 1
    BY <2>2, <2>3
  <2>5. \A q \in Requests : Inserted(q) => Prefix(ProductOf(q)) # P
    BY <2>4 DEF Numbered, InsertStep, SameNumber
  <2>6. \A prefix : Numbers(prefix)' = Numbers(prefix) /\ Count(prefix)' = Count(prefix)
    BY <1>1 DEF Numbers, Count, Mine
  <2>7. \A q \in Requests : ProductOf(q)' = ProductOf(q)
    BY <1>1 DEF ProductOf
  <2>8. \A q \in Requests : pc'[q] \in {"create", "insert"} => pc[q] \in {"create", "insert"}
    BY <1>2
  <2> QED
    BY <1>3, <1>4, <2>4, <2>5, <2>6, <2>7, <2>8 DEF Numbered, Prefix
<1>10. AccountsWhole'
  BY <1>1 DEF AccountsWhole
<1> QED
  BY <1>5, <1>6, <1>7, <1>8, <1>9, <1>10 DEF Rest

LEMMA FillKeeps ==
    ASSUME IInv, Typed', NEW r \in Requests, FillStep(r)
    PROVE  Rest'
<1> USE DEF IInv
<1>1. /\ tb' = tb /\ rows' = rows /\ made' = made /\ nextId' = nextId
      /\ before' = before /\ input' = input /\ pc[r] \in {"link", "loan"}
      /\ DOMAIN pc = Requests /\ DOMAIN reply = Requests /\ draft \in [Requests -> Drafts]
  BY DEF FillStep, Typed
<1>2. /\ pc'[r] \in {"loan", "commit"} /\ reply'[r] = "none"
      /\ \A q \in Requests : q # r => pc'[q] = pc[q] /\ reply'[q] = reply[q] /\ draft'[q] = draft[q]
  BY <1>1 DEF FillStep, Moves
<1>3. \A q \in Requests : /\ draft'[q].uuid = draft[q].uuid /\ draft'[q].seq = draft[q].seq
                          /\ draft'[q].id = draft[q].id
  BY <1>1 DEF FillStep, Drafts
<1>4. \A q \in Requests : Inserted(q)' = Inserted(q)
  BY <1>1, <1>2 DEF Inserted
<1>5. Prepared'
  <2>1. ProductOf(r) \in Products /\ Product[ProductOf(r)].loan \in BOOLEAN
    BY <1>1, ProductShape DEF Prepared, Opening
  <2>2. CASE pc[r] = "link"
    <3>1. draft'[r].owner = input[r].customer /\ draft'[r].loan = draft[r].loan
      BY <1>1, <2>2 DEF FillStep, Drafts
    <3>2. \/ pc'[r] = "loan" /\ Product[ProductOf(r)].loan
          \/ pc'[r] = "commit" /\ ~Product[ProductOf(r)].loan
      BY <1>1, <2>2 DEF FillStep, Moves
    <3>3. ~draft[r].loan /\ draft[r].loan \in BOOLEAN
      BY <1>1, <2>2 DEF Prepared, Drafts
    <3> QED
      BY <1>1, <1>2, <2>1, <2>2, <3>1, <3>2, <3>3 DEF Prepared, Opening, ProductOf
  <2>3. CASE pc[r] = "loan"
    <3>1. draft'[r].owner = draft[r].owner /\ draft'[r].loan = TRUE /\ pc'[r] = "commit"
      BY <1>1, <2>3 DEF FillStep, Moves, Drafts
    <3>2. Product[ProductOf(r)].loan = TRUE /\ draft[r].owner = input[r].customer
      BY <2>1, <2>3 DEF Prepared
    <3> QED
      <4>1. /\ draft'[r].loan = Product[ProductOf(r)].loan /\ draft'[r].owner = input[r].customer
            /\ input[r].customer \in Customers
        BY <2>3, <3>1, <3>2 DEF Prepared, Opening
      <4> QED
        BY <1>1, <1>2, <2>1, <3>1, <4>1 DEF Prepared, Opening, ProductOf
  <2> QED
    BY <1>1, <2>2, <2>3
<1>6. IdsApart'
  BY <1>1, <1>3, <1>4 DEF IdsApart
<1>7. UuidsApart'
  BY <1>1, <1>2, <1>3 DEF UuidsApart, Drawn
<1>8. Backed'
  BY <1>1, <1>2, <1>3, <1>4 DEF Backed, ProductOf
<1>9. Numbered'
  <2>1. \A prefix : Numbers(prefix)' = Numbers(prefix) /\ Count(prefix)' = Count(prefix)
    BY <1>1 DEF Numbers, Count, Mine
  <2>2. \A q \in Requests : ProductOf(q)' = ProductOf(q)
    BY <1>1 DEF ProductOf
  <2>3. \A q \in Requests : pc'[q] \in {"create", "insert"} => pc[q] \in {"create", "insert"}
    BY <1>2
  <2> QED
    BY <1>3, <1>4, <2>1, <2>2, <2>3 DEF Numbered, Prefix
<1>10. AccountsWhole'
  BY <1>1 DEF AccountsWhole
<1> QED
  BY <1>5, <1>6, <1>7, <1>8, <1>9, <1>10 DEF Rest

LEMMA CommitKeeps ==
    ASSUME IInv, Typed', NEW r \in Requests, CommitStep(r)
    PROVE  Rest'
<1> USE DEF IInv
<1>0. PICK x \in AccountRows : x = RowOf(r)
  BY RowShape DEF CommitStep
<1> DEFINE P == Prefix(x.product)
<1>1. /\ tb' = tb /\ rows' = rows \cup {x} /\ made' = made /\ nextId' = nextId
      /\ before' = before /\ input' = input /\ draft' = draft /\ pc[r] = "commit"
      /\ DOMAIN pc = Requests /\ DOMAIN reply = Requests
  BY <1>0 DEF CommitStep, Typed
<1>2. /\ pc'[r] = "done" /\ reply'[r] \in {"created", "CommitError"}
      /\ \A q \in Requests : q # r => pc'[q] = pc[q] /\ reply'[q] = reply[q]
  BY <1>1 DEF CommitStep, Moves
<1>3. \A q \in Requests : Inserted(q)' => Inserted(q) /\ q # r
  BY <1>2 DEF Inserted
<1>4. /\ x \in AccountRows /\ x.product = ProductOf(r) /\ x.product \in Products
      /\ x.uuid = draft[r].uuid /\ x.id = draft[r].id /\ x.seq = draft[r].seq
      /\ x.owner = draft[r].owner /\ x.loan = draft[r].loan
  BY <1>0, <1>1 DEF RowOf, Prepared, Opening
<1>5. Inserted(r)
  BY <1>1 DEF Inserted
<1>6. \A y \in rows : y.id # x.id /\ y.uuid # x.uuid
  BY <1>1, <1>4, <1>5 DEF IdsApart, UuidsApart
<1>7. draft[r].uuid # NoUuid
  BY <1>5, AccountsAssumption DEF Backed
<1>8. Prepared'
  BY <1>1, <1>2 DEF Prepared, Opening, ProductOf
<1>9. IdsApart'
  <2>1. \A q \in Requests : Inserted(q)' =>
          /\ draft[q].id < nextId /\ (\A y \in rows' : y.id # draft[q].id)
          /\ \A s \in Requests : Inserted(s)' /\ draft[s].id = draft[q].id => s = q
    BY <1>1, <1>3, <1>4, <1>5 DEF IdsApart
  <2>2. \A y \in rows' : y.id < nextId
    BY <1>1, <1>4, <1>5 DEF IdsApart
  <2>3. \A y, z \in rows' : y.id = z.id => y = z
    BY <1>1, <1>6 DEF IdsApart
  <2>4. \A q \in Requests : \A n \in before[q] : \E y \in rows' : y.id = n
    BY <1>1 DEF IdsApart
  <2> QED
    BY <1>1, <2>1, <2>2, <2>3, <2>4 DEF IdsApart
<1>10. UuidsApart'
  <2>1. \A y \in rows' : Drawn(y.uuid)
    BY <1>1, <1>4, <1>7 DEF UuidsApart
  <2>2. \A y, z \in rows' : y.uuid = z.uuid => y = z
    BY <1>1, <1>6 DEF UuidsApart
  <2>3. \A q \in Requests :
          pc'[q] # "done" \/ reply'[q] \in {"ValidationError", "ErrProductInactive", "RuntimeError"} =>
              q # r /\ \A y \in rows : y.uuid # draft[q].uuid
    BY <1>2 DEF UuidsApart
  <2>4. \A q \in Requests : q # r => draft[q].uuid # x.uuid
    BY <1>4, <1>7 DEF UuidsApart
  <2> QED
    BY <1>1, <2>1, <2>2, <2>3, <2>4 DEF UuidsApart, Drawn
<1>11. Backed'
  BY <1>1, <1>2, <1>3 DEF Backed, ProductOf
<1>12. /\ Count(P)' = Count(P) + 1 /\ Numbers(P)' = Numbers(P) \cup {x.seq}
       /\ \A prefix : prefix # P => Count(prefix)' = Count(prefix) /\ Numbers(prefix)' = Numbers(prefix)
  <2>1. IsFiniteSet(rows) /\ rows \subseteq AccountRows
    BY DEF Typed
  <2> QED
    BY <1>1, <1>4, <1>6, <2>1, OneRowMore
<1>13. Numbered'
  <2>1. /\ x.seq = Count(P) + 1 /\ Numbers(P) = 1 .. Count(P) /\ Count(P) \in Nat
    BY <1>4, <1>5, NumbersShape DEF Numbered, Typed
  <2>2. Numbers(P)' = 1 .. Count(P)'
    BY <1>12, <2>1
  <2>3. \A p \in Products : Numbers(Prefix(p))' = 1 .. Count(Prefix(p))'
    BY <1>12, <2>2 DEF Numbered, Prefix
  <2>4. \A q \in Requests : Inserted(q)' => Prefix(ProductOf(q)) # P
    BY <1>3, <1>4, <1>5 DEF Numbered
  <2>5. \A q \in Requests : ProductOf(q)' = ProductOf(q)
    BY <1>1 DEF ProductOf
  <2>6. \A q \in Requests : pc'[q] \in {"create", "insert"} =>
           draft[q].seq \in 1 .. Count(Prefix(ProductOf(q)))' + 1
    BY <1>2, <1>12, <2>1, <2>5 DEF Numbered, Prefix
  <2>7. \A q \in Requests : Inserted(q)' => draft[q].seq = Count(Prefix(ProductOf(q)))' + 1
    BY <1>3, <1>12, <2>4, <2>5 DEF Numbered, Prefix
  <2>8. \A q, s \in Requests :
           Inserted(q)' /\ Inserted(s)' /\ Prefix(ProductOf(q)) = Prefix(ProductOf(s)) => s = q
    BY <1>3 DEF Numbered
  <2> QED
    BY <1>1, <2>3, <2>5, <2>6, <2>7, <2>8 DEF Numbered, Prefix
<1>14. AccountsWhole'
  <2>1. /\ TbId(x.uuid) \in DOMAIN tb
        /\ tb[TbId(x.uuid)].ledger = Product[x.product].currency
    BY <1>4, <1>5, ProductShape DEF Backed
  <2>2. x.owner \in Customers /\ x.loan = Product[x.product].loan
    BY <1>1, <1>4 DEF Prepared, Opening
  <2> QED
    BY <1>1, <1>6, <2>1, <2>2 DEF AccountsWhole
<1> QED
  BY <1>8, <1>9, <1>10, <1>11, <1>13, <1>14 DEF Rest

-----------------------------------------------------------------------------
(* The theorems. *)

LEMMA Inductive == IInv /\ [Next]_vars => IInv'
<1> SUFFICES ASSUME IInv, [Next]_vars PROVE IInv'
  OBVIOUS
<1>1. CASE Next
  <2>1. Typed'
    BY <1>1, NextTyped
  <2>2. PICK r \in Requests :
           \/ QuietStep(r) \/ SequenceStep(r) \/ GenerateStep(r) \/ InsertStep(r)
           \/ FillStep(r) \/ CommitStep(r)
    BY <1>1, Steps DEF IInv, Next
  <2>3. Rest'
    BY <2>1, <2>2, QuietKeeps, SequenceKeeps, GenerateKeeps, InsertKeeps, FillKeeps, CommitKeeps
  <2> QED
    BY <2>1, <2>3 DEF Rest, IInv
<1>2. CASE UNCHANGED vars
  <2> USE <1>2 DEF vars, readVars, IInv
  <2>1. Typed' /\ Prepared' /\ AccountsWhole'
    BY DEF Typed, Early, Prepared, Opening, ProductOf, AccountsWhole
  <2>2. IdsApart' /\ UuidsApart' /\ Backed'
    BY DEF IdsApart, Inserted, UuidsApart, Drawn, Backed, ProductOf
  <2>3. Numbered'
    BY DEF Numbered, Numbers, Count, Mine, ProductOf, Inserted, Prefix
  <2> QED
    BY <2>1, <2>2, <2>3
<1> QED
  BY <1>1, <1>2

\* The numbers of a bank's accounts have no gap and no repetition, however many openings
\* compute theirs at a time, are refused, or die on their way.
THEOREM NumbersGaplessCorrect == Spec => []NumbersGapless
<1>1. IInv => NumbersGapless
  <2> SUFFICES ASSUME IInv, NEW p \in Products
               PROVE  {x.seq : x \in Mine(Prefix(p))} = 1 .. Cardinality(Mine(Prefix(p)))
    BY DEF NumbersGapless, NumbersOf, Mine
  <2> QED
    BY NumbersShape DEF IInv, Typed, Numbered, Count
<1> QED
  BY <1>1, InitInv, Inductive, PTL DEF Spec

\* Whatever row is committed, its account is in TigerBeetle and its owner and loan row
\* are with it, and no identifier is used twice: a half-opened account is never seen.
THEOREM AccountsWholeCorrect == Spec => []AccountsWhole
<1>1. IInv => AccountsWhole
  BY DEF IInv
<1> QED
  BY <1>1, InitInv, Inductive, PTL DEF Spec

-----------------------------------------------------------------------------
(* What clients are told. *)

\* A look-up that has found a row has the one it was asked for.
Found ==
    \A r \in Requests : pc[r] = "balance" =>
        page[r] # {} /\ \A x \in page[r] : x.uuid = input[r].uuid

\* What a step of r leaves alone, and how r may get the answers that say something.
LEMMA Answers ==
    ASSUME IInv, NEW r \in Requests,
           \/ Submit(r) \/ Proceed(r) \/ CreateTbFails(r) \/ CommitFails(r)
           \/ DependencyFails(r) \/ Die(r)
    PROVE  /\ pc[r] # "done" /\ reply[r] = "none"
           /\ \A q \in Requests : q # r =>
                 /\ pc'[q] = pc[q] /\ reply'[q] = reply[q] /\ input'[q] = input[q]
                 /\ draft'[q] = draft[q] /\ page'[q] = page[q] /\ shown'[q] = shown[q]
                 /\ before'[q] = before[q]
           /\ pc'[r] = "balance" => FindRow(r)
           /\ reply'[r] = "created" => Commit(r)
           /\ reply'[r] = "found" => FindBalance(r)
           /\ reply'[r] = "ErrNotFound" => FindRow(r)
<1>1. /\ DOMAIN page = Requests /\ DOMAIN shown = Requests /\ DOMAIN before = Requests
      /\ DOMAIN input = Requests /\ DOMAIN draft = Requests /\ DOMAIN pc = Requests
      /\ DOMAIN reply = Requests
  BY DEF IInv, Typed
<1>2. pc[r] # "done" /\ reply[r] = "none"
  BY DEF IInv, Prepared, Submit, Proceed, CreateTbFails, CommitFails, DependencyFails, Die,
     Validate, NextSequence, CreateTb, Insert, Link, CreateLoan, Commit, FindRow, FindBalance,
     ReadPage, ShowPage, Live
<1>3. \A q \in Requests : q # r =>
         pc'[q] = pc[q] /\ reply'[q] = reply[q] /\ draft'[q] = draft[q]
  BY <1>1 DEF Submit, Proceed, CreateTbFails, CommitFails, DependencyFails, Die, Validate,
     NextSequence, CreateTb, Insert, Link, CreateLoan, Commit, FindRow, FindBalance, ReadPage,
     ShowPage, GoTo, EndWith, Generate
<1>4. \A q \in Requests : q # r =>
         /\ input'[q] = input[q] /\ page'[q] = page[q] /\ shown'[q] = shown[q]
         /\ before'[q] = before[q]
  BY <1>1 DEF Submit, Proceed, CreateTbFails, CommitFails, DependencyFails, Die, Validate,
     NextSequence, CreateTb, Insert, Link, CreateLoan, Commit, FindRow, FindBalance, ReadPage,
     ShowPage, readVars
<1>5. \A phase : GoTo(r, phase) => pc'[r] = phase /\ reply'[r] = "none"
  BY <1>1, <1>2 DEF GoTo
<1>6. \A answer : EndWith(r, answer) => pc'[r] = "done" /\ reply'[r] = answer
  BY <1>1 DEF EndWith
<1>7. CASE Submit(r) \/ Validate(r)
  <2>1. \A i : (CASE Kind(i) = "open" -> "validate"
                  [] Kind(i) = "list" -> "page"
                  [] OTHER -> "row") # "balance"
    BY DEF Kind
  <2>2. Refusal(input[r]) \notin {"created", "found", "ErrNotFound"}
    BY DEF Refusal
  <2>3. pc'[r] # "balance" /\ reply'[r] \notin {"created", "found", "ErrNotFound"}
    BY <1>5, <1>6, <1>7, <2>1, <2>2 DEF Submit, Validate
  <2> QED
    BY <1>2, <1>3, <1>4, <2>3
<1>8. CASE NextSequence(r) \/ CreateTb(r) \/ Insert(r) \/ Link(r) \/ CreateLoan(r)
  <2>1. pc'[r] # "balance" /\ reply'[r] \notin {"created", "found", "ErrNotFound"}
    BY <1>5, <1>6, <1>8 DEF NextSequence, CreateTb, Insert, Link, CreateLoan
  <2> QED
    BY <1>2, <1>3, <1>4, <2>1
<1>9. CASE FindRow(r) \/ FindBalance(r) \/ Commit(r)
  <2>1. FindRow(r) => reply'[r] \notin {"created", "found"}
    BY <1>5, <1>6 DEF FindRow
  <2>2. FindBalance(r) => pc'[r] = "done" /\ reply'[r] = "found"
    BY <1>6 DEF FindBalance
  <2>3. Commit(r) => pc'[r] = "done" /\ reply'[r] = "created"
    BY <1>6 DEF Commit
  <2> QED
    BY <1>2, <1>3, <1>4, <1>9, <2>1, <2>2, <2>3
<1>10. CASE ReadPage(r) \/ ShowPage(r)
  <2>1. pc'[r] # "balance" /\ reply'[r] \notin {"created", "found", "ErrNotFound"}
    BY <1>5, <1>6, <1>10 DEF ReadPage, ShowPage
  <2> QED
    BY <1>2, <1>3, <1>4, <2>1
<1>11. CASE CreateTbFails(r) \/ CommitFails(r) \/ DependencyFails(r)
  <2>1. pc'[r] # "balance" /\ reply'[r] \notin {"created", "found", "ErrNotFound"}
    BY <1>6, <1>11 DEF CreateTbFails, CommitFails, DependencyFails
  <2> QED
    BY <1>2, <1>3, <1>4, <2>1
<1>12. CASE Die(r)
  <2>1. pc'[r] # "balance" /\ reply'[r] \notin {"created", "found", "ErrNotFound"}
    BY <1>1, <1>2, <1>12 DEF Die
  <2> QED
    BY <1>2, <1>3, <1>4, <2>1
<1> QED
  BY <1>7, <1>8, <1>9, <1>10, <1>11, <1>12 DEF Proceed

\* What is stored is kept: TigerBeetle's accounts, and rows, with new ids for new ones.
LEMMA Kept ==
    ASSUME IInv, Next
    PROVE  /\ \A a \in DOMAIN tb : a \in DOMAIN tb' /\ tb'[a] = tb[a]
           /\ rows \subseteq rows'
           /\ \A x \in rows' : x \in rows \/ \A y \in rows : y.id # x.id
<1>1. PICK r \in Requests : \/ QuietStep(r) \/ SequenceStep(r) \/ GenerateStep(r)
                            \/ InsertStep(r) \/ FillStep(r) \/ CommitStep(r)
  BY Steps DEF IInv, Next
<1>2. CASE CommitStep(r)
  <2>1. \A y \in rows : y.id # RowOf(r).id
    BY <1>2 DEF IInv, IdsApart, Inserted, CommitStep, RowOf
  <2> QED
    BY <1>2, <2>1 DEF CommitStep
<1>3. CASE GenerateStep(r)
  BY <1>3 DEF GenerateStep, TbCreated
<1>4. CASE QuietStep(r) \/ SequenceStep(r) \/ InsertStep(r) \/ FillStep(r)
  BY <1>4 DEF QuietStep, SequenceStep, InsertStep, FillStep
<1> QED
  BY <1>1, <1>2, <1>3, <1>4

\* The parts of AnswersTruthful, for one request.
SaidCreated(r) ==
    reply[r] = "created" =>
        \E x \in rows : /\ x.uuid = draft[r].uuid /\ x.product = ProductOf(r)
                        /\ x.owner = input[r].customer
SaidRefused(r) ==
    Asked(r, "open") /\ reply[r] \in {"ValidationError", "ErrProductInactive", "RuntimeError"} =>
        \A x \in rows : x.uuid # draft[r].uuid
SaidFound(r) ==
    reply[r] = "found" =>
        \E x \in rows :
           /\ x.uuid = input[r].uuid
           /\ shown[r] = <<IF input[r].by = "BalanceService" THEN ShowBalance(x, tb, TbId(x.uuid))
                           ELSE Show(x, tb, TbId(x.uuid))>>
SaidUnknown(r) ==
    reply[r] = "ErrNotFound" => \A x \in rows : x.uuid = input[r].uuid => x.id \notin before[r]

\* What is shown of an account stays so, as long as TigerBeetle keeps what it has.
LEMMA ShownStays ==
    ASSUME NEW x, NEW a, NEW b, NEW key, key \in DOMAIN a, key \in DOMAIN b, a[key] = b[key]
    PROVE  Show(x, a, key) = Show(x, b, key) /\ ShowBalance(x, a, key) = ShowBalance(x, b, key)
  BY DEF Show, ShowBalance

LEMMA NextFound ==
    ASSUME IInv, Found, Next
    PROVE  Found'
<1>1. PICK r \in Requests :
          \/ Submit(r) \/ Proceed(r) \/ CreateTbFails(r) \/ CommitFails(r)
          \/ DependencyFails(r) \/ Die(r)
  BY DEF Next
<1>2. CASE pc'[r] = "balance"
  <2>1. FindRow(r)
    BY <1>1, <1>2, Answers
  <2>2. pc'[r] = "balance" => page'[r] # {}
    BY <2>1 DEF FindRow, EndWith, IInv, Typed
  <2>3. page'[r] = {x \in rows : x.uuid = input[r].uuid} /\ input' = input
    BY <2>1 DEF FindRow, RowKey, IInv, Typed
  <2> QED
    BY <1>1, <1>2, <2>2, <2>3, Answers DEF Found
<1>3. CASE pc'[r] # "balance"
  BY <1>1, <1>3, Answers DEF Found
<1> QED
  BY <1>2, <1>3

LEMMA NextTruthful ==
    ASSUME IInv, Found, AnswersTruthful, Next, IInv'
    PROVE  AnswersTruthful'
<1>1. PICK r \in Requests :
          \/ Submit(r) \/ Proceed(r) \/ CreateTbFails(r) \/ CommitFails(r)
          \/ DependencyFails(r) \/ Die(r)
  BY DEF Next
<1>2. \A q \in Requests : SaidCreated(q) /\ SaidFound(q) /\ SaidUnknown(q)
  BY DEF AnswersTruthful, SaidCreated, SaidFound, SaidUnknown
<1>3. \A q \in Requests : SaidCreated(q)'
  <2>1. CASE reply'[r] = "created"
    <3>1. Commit(r)
      BY <1>1, <2>1, Answers
    <3>2. /\ RowOf(r) \in rows' /\ draft' = draft /\ input' = input
          /\ draft[r].owner = input[r].customer
      BY <3>1 DEF Commit, IInv, Prepared
    <3>3. SaidCreated(r)'
      BY <3>2 DEF SaidCreated, RowOf, ProductOf
    <3> QED
      BY <1>1, <1>2, <3>3, Answers, Kept DEF SaidCreated, ProductOf
  <2> QED
    BY <1>1, <1>2, <2>1, Answers, Kept DEF SaidCreated, ProductOf
<1>4. \A q \in Requests : SaidRefused(q)'
  BY DEF SaidRefused, IInv, UuidsApart
<1>5. \A q \in Requests : SaidFound(q)'
  <2> SUFFICES ASSUME NEW q \in Requests, reply'[q] = "found"
               PROVE  \E x \in rows' :
                         /\ x.uuid = input'[q].uuid
                         /\ shown'[q] = <<IF input'[q].by = "BalanceService"
                                          THEN ShowBalance(x, tb', TbId(x.uuid))
                                          ELSE Show(x, tb', TbId(x.uuid))>>
    BY DEF SaidFound, ShowBalance, Show, TbId, UuidToUint128, Balance
  <2>1. CASE q # r
    <3>1. /\ reply[q] = "found" /\ input'[q] = input[q] /\ shown'[q] = shown[q]
      BY <1>1, <2>1, Answers
    <3>2. PICK x \in rows :
             /\ x.uuid = input[q].uuid
             /\ shown[q] = <<IF input[q].by = "BalanceService"
                             THEN ShowBalance(x, tb, TbId(x.uuid))
                             ELSE Show(x, tb, TbId(x.uuid))>>
      BY <1>2, <3>1 DEF SaidFound
    <3>3. TbId(x.uuid) \in DOMAIN tb
      BY DEF IInv, AccountsWhole
    <3>4. /\ Show(x, tb, TbId(x.uuid)) = Show(x, tb', TbId(x.uuid))
          /\ ShowBalance(x, tb, TbId(x.uuid)) = ShowBalance(x, tb', TbId(x.uuid))
      BY <3>3, Kept, ShownStays
    <3> QED
      BY <3>1, <3>2, <3>4, Kept
  <2>2. CASE q = r
    <3>1. FindBalance(r)
      BY <1>1, <2>2, Answers
    <3>2. PICK x \in page[r] : x = CHOOSE y \in page[r] : TRUE
      BY <3>1 DEF FindBalance, Found
    <3>3. x \in rows /\ x.uuid = input[r].uuid
      BY <3>1 DEF FindBalance, Found, IInv, Typed
    <3>4. /\ tb' = tb /\ rows' = rows /\ input' = input
          /\ shown' = [shown EXCEPT ![r] =
                          <<IF input[r].by = "BalanceService"
                            THEN ShowBalance(x, tb, TbId(input[r].uuid))
                            ELSE Show(x, tb, TbId(input[r].uuid))>>]
      BY <3>1, <3>2 DEF FindBalance
    <3> QED
      BY <2>2, <3>3, <3>4 DEF IInv, Typed
  <2> QED
    BY <2>1, <2>2
<1>6. \A q \in Requests : SaidUnknown(q)'
  <2>1. \A q \in Requests : \A n \in before[q] : \E x \in rows : x.id = n
    BY DEF IInv, IdsApart
  <2>2. CASE reply'[r] = "ErrNotFound"
    <3>1. FindRow(r)
      BY <1>1, <2>2, Answers
    <3>2. rows' = rows /\ input' = input /\ \A x \in rows : x.uuid # input[r].uuid
      BY <2>2, <3>1 DEF FindRow, RowKey, GoTo, IInv, Typed, Prepared
    <3> QED
      BY <1>1, <1>2, <3>2, Answers DEF SaidUnknown
  <2>3. CASE reply'[r] # "ErrNotFound"
    BY <1>1, <1>2, <2>1, <2>3, Answers, Kept DEF SaidUnknown
  <2> QED
    BY <2>2, <2>3
<1> QED
  BY <1>3, <1>4, <1>5, <1>6
     DEF AnswersTruthful, SaidCreated, SaidRefused, SaidFound, SaidUnknown

\* Whatever a client is told of an account is so, and stays so: it was created, it was
\* refused, it was found with this money, it did not exist when the request began.
THEOREM AnswersTruthfulCorrect == Spec => []AnswersTruthful
<1> DEFINE All == IInv /\ Found /\ AnswersTruthful
<1>1. Init => All
  <2> SUFFICES ASSUME Init PROVE All
    OBVIOUS
  <2>1. IInv
    BY InitInv
  <2>2. Found
    BY DEF Init, Found
  <2>3. AnswersTruthful
    BY DEF Init, AnswersTruthful
  <2> QED
    BY <2>1, <2>2, <2>3
<1>2. All /\ [Next]_vars => All'
  <2> SUFFICES ASSUME All, [Next]_vars PROVE All'
    OBVIOUS
  <2>1. IInv'
    BY Inductive
  <2>2. CASE Next
    BY <2>1, <2>2, NextFound, NextTruthful
  <2>3. CASE UNCHANGED vars
    <3>1. Found'
      BY <2>3 DEF vars, readVars, Found
    <3>2. AnswersTruthful'
      BY <2>3 DEF vars, readVars, AnswersTruthful, Asked, ProductOf
    <3> QED
      BY <2>1, <3>1, <3>2
  <2> QED
    BY <2>2, <2>3
<1>3. All => AnswersTruthful
  OBVIOUS
<1> QED
  BY <1>1, <1>2, <1>3, PTL DEF Spec

-----------------------------------------------------------------------------
(* Rows in the order of their ids. *)

Apart(s) == IsFiniteSet(s) /\ (\A x \in s : x.id \in Int) /\ \A x, y \in s : x.id = y.id => x = y
Before(s, x) == {y \in s : y.id < x.id}

\* The rows of a set are counted from 0 on, in the order of their ids.
LEMMA Ranks ==
    ASSUME NEW s, Apart(s)
    PROVE  /\ Cardinality(s) \in Nat
           /\ \A x \in s : Cardinality(Before(s, x)) \in 0 .. Cardinality(s) - 1
           /\ \A x, y \in s : x.id < y.id <=> Cardinality(Before(s, x)) < Cardinality(Before(s, y))
           /\ \A k \in 0 .. Cardinality(s) - 1 : \E x \in s : Cardinality(Before(s, x)) = k
<1> DEFINE N == Cardinality(s)
<1> DEFINE rank == [x \in s |-> Cardinality(Before(s, x))]
<1>1. IsFiniteSet(s) /\ N \in Nat
  BY FS_CardinalityType DEF Apart
<1>2. ASSUME NEW x \in s
      PROVE  IsFiniteSet(Before(s, x)) /\ rank[x] \in 0 .. N - 1
  <2>1. Before(s, x) \subseteq s /\ x \notin Before(s, x)
    BY DEF Before, Apart
  <2>2. IsFiniteSet(Before(s, x)) /\ Cardinality(Before(s, x)) \in Nat
    BY <1>1, <2>1, FS_Subset, FS_CardinalityType
  <2>3. Cardinality(Before(s, x)) <= N /\ Cardinality(Before(s, x)) # N
    BY <1>1, <2>1, FS_Subset
  <2> QED
    BY <1>1, <2>2, <2>3
<1>3. ASSUME NEW x \in s, NEW y \in s, x.id < y.id
      PROVE  rank[x] < rank[y]
  <2>1. Before(s, x) \subseteq Before(s, y) /\ x \in Before(s, y) /\ x \notin Before(s, x)
    BY <1>3 DEF Before, Apart
  <2>2. IsFiniteSet(Before(s, y)) /\ rank[x] \in Nat /\ rank[y] \in Nat
    BY <1>1, <1>2
  <2>3. rank[x] <= rank[y] /\ rank[x] # rank[y]
    BY <2>1, <2>2, FS_Subset
  <2> QED
    BY <2>2, <2>3
<1>4. \A x, y \in s : x.id < y.id <=> rank[x] < rank[y]
  <2> SUFFICES ASSUME NEW x \in s, NEW y \in s, rank[x] < rank[y] PROVE x.id < y.id
    BY <1>3
  <2>1. rank[x] \in Int /\ rank[y] \in Int /\ x.id \in Int /\ y.id \in Int
    BY <1>1, <1>2 DEF Apart
  <2>2. CASE x.id = y.id
    BY <2>1, <2>2 DEF Apart
  <2>3. CASE y.id < x.id
    BY <1>3, <2>1, <2>3
  <2> QED
    BY <2>1, <2>2, <2>3
<1>5. rank \in Injection(s, 0 .. N - 1)
  <2>1. rank \in [s -> 0 .. N - 1]
    BY <1>2
  <2>2. ASSUME NEW x \in s, NEW y \in s, rank[x] = rank[y] PROVE x = y
    <3>1. rank[x] \in Int /\ x.id \in Int /\ y.id \in Int
      BY <1>1, <1>2 DEF Apart
    <3>2. ~(x.id < y.id) /\ ~(y.id < x.id)
      BY <1>3, <2>2, <3>1
    <3> QED
      BY <3>1, <3>2 DEF Apart
  <2> HIDE DEF rank
  <2>3. DOMAIN rank = s
    BY <2>1
  <2> QED
    BY <2>1, <2>2, <2>3, Zenon DEF Injection, IsInjective
<1>6. IsFiniteSet(0 .. N - 1) /\ Cardinality(0 .. N - 1) = N
  BY <1>1, FS_Interval
<1>7. rank \in Surjection(s, 0 .. N - 1)
  BY <1>5, <1>6, FS_Injection
<1>8. \A k \in 0 .. N - 1 : \E x \in s : rank[x] = k
  BY <1>7 DEF Surjection
<1> QED
  BY <1>1, <1>2, <1>4, <1>8

\* The first n rows are n rows, or all there are, and none is left out before them.
LEMMA FirstOfShape ==
    ASSUME NEW s, Apart(s), NEW n \in Nat
    PROVE  /\ Apart(FirstOf(s, n)) /\ FirstOf(s, n) \subseteq s
           /\ \A x \in FirstOf(s, n), y \in s : y \notin FirstOf(s, n) => x.id < y.id
           /\ Cardinality(s) <= n => FirstOf(s, n) = s
           /\ Cardinality(s) > n => Cardinality(FirstOf(s, n)) = n
<1> DEFINE F == FirstOf(s, n)
<1>1. F = {x \in s : Cardinality(Before(s, x)) < n}
  BY DEF FirstOf, Before
<1> HIDE DEF F
<1>2. F \subseteq s
  BY <1>1
<1>3. Apart(F)
  BY <1>2, FS_Subset DEF Apart
<1>4. Cardinality(s) \in Nat /\ \A x \in s : Cardinality(Before(s, x)) \in 0 .. Cardinality(s) - 1
  BY Ranks
<1>5. \A x, y \in s : x.id < y.id <=> Cardinality(Before(s, x)) < Cardinality(Before(s, y))
  BY Ranks
<1>6. \A x \in F, y \in s : y \notin F => x.id < y.id
  BY <1>1, <1>4, <1>5
<1>7. Cardinality(s) <= n => F = s
  BY <1>1, <1>4
<1>8. ASSUME Cardinality(s) > n PROVE Cardinality(F) = n
  <2>1. PICK y \in s : Cardinality(Before(s, y)) = n
    <3>1. n \in 0 .. Cardinality(s) - 1
      BY <1>4, <1>8
    <3> QED
      BY <3>1, Ranks
  <2>2. Before(s, y) = F
    BY <1>1, <1>5, <2>1 DEF Before
  <2> QED
    BY <2>1, <2>2
<1> QED
  BY <1>2, <1>3, <1>6, <1>7, <1>8 DEF F

\* A set of rows in order is a list of each of them, in the order of their ids.
LEMMA InOrderShape ==
    ASSUME NEW s, Apart(s)
    PROVE  /\ Cardinality(s) \in Nat /\ InOrder(s) \in [1 .. Cardinality(s) -> s]
           /\ \A j, k \in 1 .. Cardinality(s) : j < k => InOrder(s)[j].id < InOrder(s)[k].id
           /\ \A x \in s : \E k \in 1 .. Cardinality(s) : InOrder(s)[k] = x
<1> DEFINE N == Cardinality(s)
<1> DEFINE list == InOrder(s)
<1> DEFINE Rank(x) == Cardinality(Before(s, x))
<1>1. N \in Nat /\ \A x \in s : Rank(x) \in 0 .. N - 1
  BY Ranks
<1>2. \A x, y \in s : x.id < y.id <=> Rank(x) < Rank(y)
  BY Ranks
<1>3. \A k \in 0 .. N - 1 : \E x \in s : Rank(x) = k
  BY Ranks
<1>4. list = [k \in 1 .. N |-> CHOOSE x \in s : Rank(x) = k - 1]
  BY DEF InOrder, Before
<1> HIDE DEF N, list, Rank
<1>5. \A k \in 1 .. N : list[k] \in s /\ Rank(list[k]) = k - 1
  <2> SUFFICES ASSUME NEW k \in 1 .. N PROVE list[k] \in s /\ Rank(list[k]) = k - 1
    OBVIOUS
  <2>1. \E x \in s : Rank(x) = k - 1
    BY <1>1, <1>3
  <2>2. list[k] = CHOOSE x \in s : Rank(x) = k - 1
    BY <1>4
  <2> QED
    BY <2>1, <2>2
<1>6. list \in [1 .. N -> s]
  BY <1>4, <1>5
<1>7. \A j, k \in 1 .. N : j < k => list[j].id < list[k].id
  BY <1>1, <1>2, <1>5
<1>8. \A x \in s : \E k \in 1 .. N : list[k] = x
  <2> SUFFICES ASSUME NEW x \in s PROVE \E k \in 1 .. N : list[k] = x
    OBVIOUS
  <2> DEFINE k == Rank(x) + 1
  <2>1. k \in 1 .. N /\ Rank(list[k]) = Rank(x)
    BY <1>1, <1>5
  <2>2. list[k] = x
    <3>1. list[k] \in s /\ ~(list[k].id < x.id) /\ ~(x.id < list[k].id)
      BY <1>1, <1>2, <1>5, <2>1
    <3>2. list[k].id \in Int /\ x.id \in Int /\ (list[k].id = x.id => list[k] = x)
      BY <3>1 DEF Apart
    <3> QED
      BY <3>1, <3>2
  <2> QED
    BY <2>1, <2>2
<1> QED
  BY <1>1, <1>6, <1>7, <1>8 DEF N, list

-----------------------------------------------------------------------------
(* What is stored, and the listings. *)

Views == [id : Nat, balance : [posted : Int, available : Int]]

\* What TypeOK says beyond Typed, and why: what is sold has a ledger, ids begin with 1.
Shaped ==
    /\ \A a \in DOMAIN tb : a \in Identifiers /\ tb[a] \in TbRecords
    /\ nextId >= 1 /\ \A x \in rows : x.id >= 1
    /\ cursor \in [Requests -> Nat]
    /\ input \in [Requests -> Inputs \cup {NoInput}]
    /\ \A r \in Requests :
          /\ Inserted(r) => draft[r].id >= 1
          /\ Opening(r) => Product[ProductOf(r)].currency \in Currencies
          /\ shown[r] \in Seq(Views)
          /\ \A k \in DOMAIN shown[r] : shown[r][k].id \in 1 .. nextId - 1

\* The parts of ListingComplete, for one request.
Ascending(s) == \A j, k \in DOMAIN s : j < k => s[j].id < s[k].id
Owned(r) == {x \in rows : x.owner = input[r].customer}
ShowsOwned(r) == \A k \in DOMAIN shown[r] : \E x \in Owned(r) : x.id = shown[r][k].id
Shows(r, x) == \E k \in DOMAIN shown[r] : shown[r][k].id = x.id

\* A listing has shown what was there up to its cursor, and nothing behind it.
Paging(r) ==
    /\ input[r] \in Listings /\ Ascending(shown[r]) /\ ShowsOwned(r)
    /\ \A k \in DOMAIN shown[r] : shown[r][k].id <= cursor[r]
    /\ \A x \in Owned(r) : x.id \in before[r] /\ x.id <= cursor[r] => Shows(r, x)

\* Its page has what was there behind the cursor, or more than it can show of that.
Read(r) ==
    /\ page[r] \subseteq {x \in Owned(r) : x.id > cursor[r]}
    /\ \A x \in Owned(r) : x.id \in before[r] /\ x.id > cursor[r] =>
          \/ x \in page[r]
          \/ Cardinality(page[r]) > Limit(r) /\ \A y \in page[r] : y.id < x.id

Listed(r) ==
    /\ Ascending(shown[r]) /\ ShowsOwned(r)
    /\ \A x \in Owned(r) : x.id \in before[r] => Shows(r, x)

Listing(r) ==
    /\ pc[r] = "new" => shown[r] = <<>> /\ cursor[r] = 0
    /\ pc[r] \in {"page", "balances"} => Paging(r)
    /\ pc[r] = "balances" => Read(r)
    /\ reply[r] = "listed" => Listed(r)

LEMMA ViewShape ==
    ASSUME NEW x \in AccountRows, NEW f, NEW key, key \in DOMAIN f => f[key] \in TbRecords
    PROVE  /\ ShowBalance(x, f, key) \in Views /\ ShowBalance(x, f, key).id = x.id
           /\ Show(x, f, key) \in Views /\ Show(x, f, key).id = x.id
<1> DEFINE totals == IF key \in DOMAIN f THEN f[key].totals ELSE NoMoney
<1> DEFINE balance == Balance(totals, Product[x.product].code)
<1>1. totals \in Totals4
  BY DEF TbRecords, NoMoney, Totals4
<1> HIDE DEF totals
<1>2. balance \in [posted : Int, available : Int]
  BY <1>1 DEF Totals4, Balance
<1>3. ShowBalance(x, f, key) = [id |-> x.id, balance |-> balance]
  BY DEF ShowBalance, totals
<1> HIDE DEF balance
<1>4. x.id \in Nat
  BY DEF AccountRows
<1>5. ShowBalance(x, f, key) \in Views /\ ShowBalance(x, f, key).id = x.id
  BY <1>2, <1>3, <1>4 DEF Views
<1> DEFINE whole == ShowBalance(x, f, key)
<1>6. Show(x, f, key) = IF Product[x.product].loan THEN [whole EXCEPT !.balance.available = 0] ELSE whole
  BY DEF Show
<1> HIDE DEF whole
<1>7. whole \in Views /\ whole.id = x.id
  BY <1>5 DEF whole
<1>8. [whole EXCEPT !.balance.available = 0] \in Views
      /\ [whole EXCEPT !.balance.available = 0].id = x.id
  BY <1>7 DEF Views
<1> QED
  BY <1>5, <1>6, <1>7, <1>8

\* Rows have ids of their own.
LEMMA RowsApart ==
    ASSUME IInv, NEW s \in SUBSET rows
    PROVE  Apart(s)
  BY FS_Subset DEF IInv, Typed, IdsApart, Apart, AccountRows

\* Both parts of a list of views, each in its place.
LEMMA Concat ==
    ASSUME NEW s \in Seq(Views), NEW t \in Seq(Views)
    PROVE  /\ s \o t \in Seq(Views) /\ Len(s \o t) = Len(s) + Len(t)
           /\ \A k \in 1 .. Len(s) : (s \o t)[k] = s[k]
           /\ \A k \in 1 .. Len(t) : (s \o t)[Len(s) + k] = t[k]
  OBVIOUS

\* ShowPage shows m rows more, those in list.
Adds(r, m, list) ==
    /\ list \in [1 .. m -> page[r]]
    /\ shown'[r] \in Seq(Views) /\ Len(shown'[r]) = Len(shown[r]) + m
    /\ \A k \in 1 .. Len(shown[r]) : shown'[r][k] = shown[r][k]
    /\ \A k \in 1 .. m : shown'[r][Len(shown[r]) + k].id = list[k].id
    /\ \A j, k \in 1 .. m : j < k => list[j].id < list[k].id
Finishes(r, m, list) ==
    /\ EndWith(r, "listed") /\ UNCHANGED cursor /\ ~(Cardinality(page[r]) > Limit(r))
    /\ \A x \in page[r] : \E k \in 1 .. m : list[k] = x
GoesOn(r, m, list) ==
    /\ GoTo(r, "page") /\ m > 0 /\ cursor' = [cursor EXCEPT ![r] = list[m].id]
    /\ \A x \in page[r] : x.id <= list[m].id => \E k \in 1 .. m : list[k] = x

LEMMA ShowPageEffect ==
    ASSUME IInv, Shaped, NEW r \in Requests, ShowPage(r), Limit(r) \in Nat \ {0}
    PROVE  \E m \in Nat : \E list :
              Adds(r, m, list) /\ (Finishes(r, m, list) \/ GoesOn(r, m, list))
<1> DEFINE P == page[r]
<1> DEFINE n == Limit(r)
<1> DEFINE accounts == FirstOf(P, n)
<1> DEFINE list == InOrder(accounts)
<1> DEFINE found == [a \in DOMAIN tb \cap {TbId(x.uuid) : x \in accounts} |-> tb[a]]
<1> DEFINE add == [k \in DOMAIN list |-> Show(list[k], found, list[k].uuid)]
<1> DEFINE m == Cardinality(accounts)
<1>1. P \subseteq rows /\ rows \subseteq AccountRows /\ n \in Nat /\ n > 0
  BY DEF IInv, Typed
<1>2. Apart(P)
  BY <1>1, RowsApart
<1>3. /\ Apart(accounts) /\ accounts \subseteq P
      /\ \A x \in accounts, y \in P : y \notin accounts => x.id < y.id
      /\ Cardinality(P) <= n => accounts = P
      /\ Cardinality(P) > n => m = n
  BY <1>1, <1>2, FirstOfShape
<1>4. /\ m \in Nat /\ list \in [1 .. m -> accounts]
      /\ \A j, k \in 1 .. m : j < k => list[j].id < list[k].id
      /\ \A x \in accounts : \E k \in 1 .. m : list[k] = x
  BY <1>3, InOrderShape
<1>5. DOMAIN shown = Requests /\ shown[r] \in Seq(Views)
  BY DEF IInv, Typed, Shaped
<1>6. /\ shown' = [shown EXCEPT ![r] = shown[r] \o add]
      /\ IF Cardinality(P) > n
         THEN cursor' = [cursor EXCEPT ![r] = list[n].id] /\ GoTo(r, "page")
         ELSE EndWith(r, "listed") /\ UNCHANGED cursor
  BY DEF ShowPage
<1>7. \A key \in DOMAIN found : found[key] \in TbRecords
  BY DEF Shaped
<1>8. Cardinality(P) \in Nat
  BY <1>2, Ranks
<1> HIDE DEF n, accounts, list, found, m
<1>9. \A k \in 1 .. m : add[k] \in Views /\ add[k].id = list[k].id
  BY <1>1, <1>3, <1>4, <1>7, ViewShape
<1>10. add \in Seq(Views) /\ Len(add) = m
  BY <1>4, <1>9
<1> HIDE DEF add
<1>11. /\ shown'[r] \in Seq(Views) /\ Len(shown'[r]) = Len(shown[r]) + m
       /\ \A k \in 1 .. Len(shown[r]) : shown'[r][k] = shown[r][k]
       /\ \A k \in 1 .. m : shown'[r][Len(shown[r]) + k] = add[k]
  <2>1. shown'[r] = shown[r] \o add
    BY <1>5, <1>6
  <2> DEFINE old == shown[r]
  <2> DEFINE new == shown'[r]
  <2>2. new = old \o add /\ old \in Seq(Views) /\ add \in Seq(Views) /\ Len(add) = m
    BY <1>5, <1>10, <2>1
  <2> HIDE DEF old, new
  <2>3. /\ new \in Seq(Views) /\ Len(new) = Len(old) + m
        /\ \A k \in 1 .. Len(old) : new[k] = old[k]
        /\ \A k \in 1 .. m : new[Len(old) + k] = add[k]
    BY <2>2, Concat
  <2> QED
    BY <2>3 DEF old, new
<1>12. list \in [1 .. m -> P] /\ Adds(r, m, list)
  BY <1>3, <1>4, <1>9, <1>11 DEF Adds
<1>13. CASE Cardinality(P) > n
  <2>1. m = n /\ m > 0 /\ list[m] \in accounts
    BY <1>1, <1>3, <1>4, <1>13
  <2>2. \A x \in P : x.id <= list[m].id => x \in accounts
    <3>1. \A x \in P : x.id \in Int
      BY <1>2 DEF Apart
    <3> QED
      BY <1>3, <2>1, <3>1
  <2>3. GoTo(r, "page") /\ cursor' = [cursor EXCEPT ![r] = list[m].id]
    BY <1>6, <1>13, <2>1
  <2>4. GoesOn(r, m, list)
    BY <1>4, <2>1, <2>2, <2>3 DEF GoesOn
  <2> QED
    BY <1>4, <1>12, <2>4
<1>14. CASE ~(Cardinality(P) > n)
  <2>1. accounts = P
    BY <1>1, <1>3, <1>8, <1>14
  <2>2. EndWith(r, "listed") /\ UNCHANGED cursor
    BY <1>6, <1>14
  <2>3. Finishes(r, m, list)
    BY <1>4, <1>14, <2>1, <2>2 DEF Finishes, n
  <2> QED
    BY <1>4, <1>12, <2>3
<1> QED
  BY <1>13, <1>14

LEMMA LimitPositive ==
    ASSUME NEW r, input[r] \in Listings
    PROVE  Limit(r) \in Nat \ {0}
  BY AccountsAssumption DEF Listings, Limit

\* What a step of r does to cursors and to what is shown, and how r may get on with a listing.
LEMMA ListingSteps ==
    ASSUME IInv, NEW r \in Requests, cursor \in [Requests -> Nat],
           \/ Submit(r) \/ Proceed(r) \/ CreateTbFails(r) \/ CommitFails(r)
           \/ DependencyFails(r) \/ Die(r)
    PROVE  /\ pc'[r] # "new" /\ pc'[r] \in Phases
           /\ \A q \in Requests : q # r => cursor'[q] = cursor[q]
           /\ pc'[r] = "page" => Submit(r) \/ ShowPage(r)
           /\ pc'[r] = "balances" => ReadPage(r)
           /\ reply'[r] = "listed" => ReadPage(r) \/ ShowPage(r)
           /\ ShowPage(r) \/ FindBalance(r) \/ UNCHANGED <<cursor, shown>>
<1>1. DOMAIN pc = Requests /\ DOMAIN reply = Requests
  BY DEF IInv, Typed
<1>2. pc[r] # "done" /\ reply[r] = "none"
  BY Answers
<1>3. \A phase : GoTo(r, phase) => pc'[r] = phase /\ reply'[r] = "none"
  BY <1>1, <1>2 DEF GoTo
<1>4. \A answer : EndWith(r, answer) => pc'[r] = "done" /\ reply'[r] = answer
  BY <1>1 DEF EndWith
<1>5. CASE Submit(r)
  <2>1. PICK i \in Inputs : GoTo(r, CASE Kind(i) = "open" -> "validate"
                                      [] Kind(i) = "list" -> "page"
                                      [] OTHER -> "row")
    BY <1>5 DEF Submit
  <2>2. pc'[r] \in {"validate", "page", "row"} /\ reply'[r] = "none"
    BY <1>3, <2>1 DEF Kind
  <2> QED
    BY <1>5, <2>2 DEF Submit, readVars, Phases
<1>6. CASE Validate(r)
  <2>1. Refusal(input[r]) # "listed"
    BY DEF Refusal
  <2> QED
    BY <1>3, <1>4, <1>6, <2>1 DEF Validate, readVars, Phases
<1>7. CASE NextSequence(r) \/ CreateTb(r) \/ Insert(r) \/ CreateLoan(r)
  BY <1>3, <1>4, <1>7 DEF NextSequence, CreateTb, Insert, CreateLoan, readVars, Phases
<1>8. CASE Link(r) \/ Commit(r) \/ CreateTbFails(r) \/ CommitFails(r) \/ DependencyFails(r)
  BY <1>3, <1>4, <1>8
     DEF Link, Commit, CreateTbFails, CommitFails, DependencyFails, readVars, Phases
<1>9. CASE Die(r)
  BY <1>1, <1>2, <1>9 DEF Die, readVars, Phases
<1>10. CASE FindRow(r) \/ FindBalance(r)
  BY <1>3, <1>4, <1>10 DEF FindRow, FindBalance, Phases
<1>11. CASE ReadPage(r)
  BY <1>3, <1>4, <1>11 DEF ReadPage, Phases
<1>12. CASE ShowPage(r)
  <2>1. pc'[r] \in {"page", "done"}
    BY <1>3, <1>4, <1>12 DEF ShowPage
  <2>2. \A q \in Requests : q # r => cursor'[q] = cursor[q]
    BY <1>12 DEF ShowPage
  <2> QED
    BY <1>12, <2>1, <2>2 DEF Phases
<1> QED
  BY <1>5, <1>6, <1>7, <1>8, <1>9, <1>10, <1>11, <1>12 DEF Proceed

LEMMA InitShaped == Init => Shaped /\ \A r \in Requests : Listing(r)
<1> SUFFICES ASSUME Init PROVE Shaped /\ \A r \in Requests : Listing(r)
  OBVIOUS
<1> USE DEF Init
<1>1. \A a \in DOMAIN tb : a \in Identifiers /\ tb[a] \in TbRecords
  <2>1. \A i \in ByteIndex : Mirror(i) \in ByteIndex
    BY HalfLenAssumption DEF ByteIndex, Mirror
  <2>2. \A x \in OpeningRows : TbId(x.uuid) \in Identifiers
    BY <2>1, OpeningAssumption DEF AccountRows, Identifiers, TbId, UuidToUint128
  <2> QED
    BY <2>2, OpeningAssumption
<1>2. Cardinality(OpeningRows) \in Nat
  BY OpeningAssumption, FS_CardinalityType
<1>3. nextId >= 1 /\ \A x \in rows : x.id >= 1
  BY <1>2, OpeningAssumption
<1>4. \A r \in Requests : shown[r] \in Seq(Views) /\ DOMAIN shown[r] = {}
  OBVIOUS
<1>5. Shaped
  BY <1>1, <1>3, <1>4 DEF Shaped, Inserted, Opening
<1> QED
  BY <1>5 DEF Listing

LEMMA NextShaped ==
    ASSUME IInv, IInv', Found, Shaped, \A r \in Requests : Listing(r), Next
    PROVE  Shaped'
<1>1. PICK r \in Requests :
          \/ Submit(r) \/ Proceed(r) \/ CreateTbFails(r) \/ CommitFails(r)
          \/ DependencyFails(r) \/ Die(r)
  BY DEF Next
<1>2. \/ QuietStep(r) \/ SequenceStep(r) \/ GenerateStep(r) \/ InsertStep(r)
      \/ FillStep(r) \/ CommitStep(r)
  BY <1>1, Steps DEF IInv
<1>3. /\ pc \in [Requests -> Phases] /\ draft \in [Requests -> Drafts] /\ nextId \in Nat
      /\ DOMAIN shown = Requests /\ DOMAIN input = Requests /\ rows \subseteq AccountRows
      /\ page \in [Requests -> SUBSET rows]
  BY DEF IInv, Typed
<1>4. \A a \in DOMAIN tb' : a \in Identifiers /\ tb'[a] \in TbRecords
  <2>1. CASE tb' = tb
    BY <2>1 DEF Shaped
  <2>2. CASE pc[r] = "create" /\ TbCreated(r)
    <3>1. Uuids[made + 1] \in Identifiers
      BY <2>2, UuidToCome DEF IInv
    <3>2. TbId(Uuids[made + 1]) \in Identifiers
      <4>1. \A i \in ByteIndex : Mirror(i) \in ByteIndex
        BY HalfLenAssumption DEF ByteIndex, Mirror
      <4> QED
        BY <3>1, <4>1 DEF Identifiers, TbId, UuidToUint128
    <3>3. ProductOf(r) \in Products /\ Product[ProductOf(r)].currency \in Currencies
      BY <2>2 DEF IInv, Prepared, Opening, Shaped
    <3>4. TbRecord(ProductOf(r)) \in TbRecords
      BY <3>3 DEF TbRecord, TbRecords, Capped, NoMoney, Totals4
    <3> QED
      BY <2>2, <3>2, <3>4 DEF TbCreated, Shaped
  <2> QED
    BY <1>2, <2>1, <2>2
       DEF QuietStep, SequenceStep, GenerateStep, InsertStep, FillStep, CommitStep
<1>5. nextId' \in {nextId, nextId + 1}
  BY <1>2 DEF QuietStep, SequenceStep, GenerateStep, InsertStep, FillStep, CommitStep
<1>6. nextId' >= 1 /\ \A x \in rows' : x.id >= 1
  <2>1. CASE CommitStep(r)
    BY <1>3, <1>5, <2>1 DEF CommitStep, RowOf, Inserted, Shaped
  <2>2. CASE rows' = rows
    BY <1>3, <1>5, <2>2 DEF Shaped
  <2> QED
    BY <1>1, <1>2, <2>1, <2>2
       DEF QuietStep, SequenceStep, GenerateStep, InsertStep, FillStep, Submit, Proceed, CreateTbFails,
           CommitFails, DependencyFails, Die, Validate, NextSequence, CreateTb, Insert, Link,
           CreateLoan, Commit, FindRow, FindBalance, ReadPage, ShowPage, CommitStep
<1>7. input' \in [Requests -> Inputs \cup {NoInput}]
  BY <1>2 DEF QuietStep, SequenceStep, GenerateStep, InsertStep, FillStep, CommitStep, Shaped
<1>8. \A q \in Requests : Inserted(q)' => draft'[q].id >= 1
  <2>1. CASE InsertStep(r)
    BY <1>3, <2>1 DEF InsertStep, Moves, Inserted, Shaped
  <2>2. CASE QuietStep(r) \/ SequenceStep(r) \/ GenerateStep(r)
    BY <1>3, <2>2
       DEF QuietStep, SequenceStep, GenerateStep, Generate, Moves, Inserted, Shaped
  <2>3. CASE FillStep(r)
    <3>1. Inserted(r) /\ draft'[r].id = draft[r].id /\ \A q \in Requests : q # r => draft'[q] = draft[q]
      BY <1>3, <2>3 DEF FillStep, Inserted, Drafts
    <3>2. \A q \in Requests : q # r => pc'[q] = pc[q]
      BY <1>3, <2>3 DEF FillStep, Moves
    <3> QED
      BY <3>1, <3>2 DEF Inserted, Shaped
  <2>4. CASE CommitStep(r)
    BY <1>3, <2>4 DEF CommitStep, Moves, Inserted, Shaped
  <2> QED
    BY <1>2, <2>1, <2>2, <2>3, <2>4
<1>9. \A q \in Requests : Opening(q)' => Product[ProductOf(q)'].currency \in Currencies
  <2>1. CASE QuietStep(r)
    <3>1. pc[r] = "validate" /\ Refusal(input[r]) = "none" => Product[ProductOf(r)].currency \in Currencies
      BY DEF Refusal, ProductOf
    <3> QED
      BY <1>3, <2>1, <3>1 DEF QuietStep, Moves, Opening, ProductOf, Shaped
  <2>2. CASE SequenceStep(r) \/ GenerateStep(r) \/ InsertStep(r) \/ FillStep(r) \/ CommitStep(r)
    BY <1>3, <2>2
       DEF SequenceStep, GenerateStep, InsertStep, FillStep, CommitStep, Moves, Opening, ProductOf, Shaped
  <2> QED
    BY <1>2, <2>1, <2>2
<1>10. /\ cursor' \in [Requests -> Nat]
       /\ \A q \in Requests : /\ shown'[q] \in Seq(Views)
                              /\ \A k \in DOMAIN shown'[q] : shown'[q][k].id \in 1 .. nextId' - 1
  <2>0. /\ cursor \in [Requests -> Nat]
        /\ \A q \in Requests : /\ shown[q] \in Seq(Views)
                               /\ \A k \in DOMAIN shown[q] : shown[q][k].id \in 1 .. nextId - 1
    BY DEF Shaped
  <2>1. CASE UNCHANGED <<cursor, shown>>
    BY <1>3, <1>5, <2>0, <2>1
  <2>2. CASE FindBalance(r)
    <3>1. page[r] # {} /\ cursor' = cursor /\ nextId' = nextId
      BY <2>2 DEF FindBalance, Found
    <3>2. PICK x \in page[r] : x = CHOOSE y \in page[r] : TRUE
      BY <3>1
    <3> DEFINE v == IF input[r].by = "BalanceService" THEN ShowBalance(x, tb, TbId(input[r].uuid))
                    ELSE Show(x, tb, TbId(input[r].uuid))
    <3>3. shown' = [shown EXCEPT ![r] = <<v>>]
      BY <2>2, <3>2 DEF FindBalance
    <3>4. x \in rows /\ x \in AccountRows /\ x.id \in 1 .. nextId - 1
      BY <1>3 DEF IInv, IdsApart, Shaped, AccountRows
    <3>5. v \in Views /\ v.id = x.id
      BY <3>4, ViewShape DEF Shaped
    <3> HIDE DEF v
    <3> QED
      BY <1>3, <2>0, <3>1, <3>3, <3>4, <3>5
  <2>3. CASE ShowPage(r)
    <3>1. Limit(r) \in Nat \ {0}
      BY <2>3, LimitPositive DEF ShowPage, Listing, Paging
    <3>2. PICK m, list :
             /\ m \in Nat /\ list \in [1 .. m -> page[r]] /\ Adds(r, m, list)
             /\ Finishes(r, m, list) \/ GoesOn(r, m, list)
      BY <2>3, <3>1, ShowPageEffect DEF Adds
    <3>3. nextId' = nextId /\ \A q \in Requests : q # r => shown'[q] = shown[q]
      BY <1>3, <2>3 DEF ShowPage
    <3>4. \A k \in 1 .. m : list[k].id \in 1 .. nextId - 1 /\ list[k].id \in Nat
      <4>1. \A x \in rows : x.id \in 1 .. nextId - 1 /\ x.id \in Nat
        BY <1>3 DEF IInv, IdsApart, Shaped, AccountRows
      <4> QED
        BY <1>3, <3>2, <4>1
    <3>5. cursor' \in [Requests -> Nat]
      <4>1. CASE Finishes(r, m, list)
        BY <2>0, <4>1 DEF Finishes
      <4>2. CASE GoesOn(r, m, list)
        <5>1. m \in 1 .. m /\ cursor' = [cursor EXCEPT ![r] = list[m].id]
          BY <3>2, <4>2 DEF GoesOn
        <5> QED
          BY <2>0, <3>4, <5>1
      <4> QED
        BY <3>2, <4>1, <4>2
    <3>6. ASSUME NEW k \in DOMAIN shown'[r] PROVE shown'[r][k].id \in 1 .. nextId - 1
      <4>0. shown'[r] \in Seq(Views) /\ Len(shown'[r]) = Len(shown[r]) + m
        BY <3>2, Zenon DEF Adds
      <4>1. k \in 1 .. (Len(shown[r]) + m) /\ Len(shown[r]) \in Nat
        <5>1. shown[r] \in Seq(Views) /\ DOMAIN shown'[r] = 1 .. (Len(shown[r]) + m)
          BY <2>0, <4>0
        <5> QED
          BY <3>6, <5>1
      <4>2. CASE k \in 1 .. Len(shown[r])
        <5>1. shown'[r][k] = shown[r][k]
          BY <3>2, <4>2, Zenon DEF Adds
        <5>2. k \in DOMAIN shown[r]
          BY <2>0, <4>2
        <5> QED
          BY <2>0, <5>1, <5>2
      <4>3. CASE k \notin 1 .. Len(shown[r])
        <5>1. k - Len(shown[r]) \in 1 .. m /\ k = Len(shown[r]) + (k - Len(shown[r]))
          BY <3>2, <4>1, <4>3
        <5> QED
          BY <3>2, <3>4, <5>1 DEF Adds
      <4> QED
        BY <4>2, <4>3
    <3>7. shown'[r] \in Seq(Views)
      BY <3>2 DEF Adds
    <3> QED
      BY <2>0, <3>3, <3>5, <3>6, <3>7
  <2> QED
    BY <1>1, <2>0, <2>1, <2>2, <2>3, ListingSteps
<1> QED
  BY <1>4, <1>6, <1>7, <1>8, <1>9, <1>10 DEF Shaped

\* What a request has to show of its customer does not change.
LEMMA OwnedKept ==
    ASSUME IInv, Next, NEW q \in Requests, input'[q] = input[q]
    PROVE  /\ Owned(q) \subseteq Owned(q)'
           /\ \A x \in Owned(q)' : x.id \in before[q] => x \in Owned(q)
<1>1. rows \subseteq rows' /\ \A x \in rows' : x \in rows \/ \A y \in rows : y.id # x.id
  BY Kept
<1>2. \A n \in before[q] : \E x \in rows : x.id = n
  BY DEF IInv, IdsApart
<1> QED
  BY <1>1, <1>2 DEF Owned

\* A listing that another request's step leaves alone.
LEMMA ListingStays ==
    ASSUME IInv, Next, NEW q \in Requests, Listing(q),
           pc'[q] = pc[q], reply'[q] = reply[q], input'[q] = input[q], before'[q] = before[q],
           cursor'[q] = cursor[q], page'[q] = page[q], shown'[q] = shown[q]
    PROVE  Listing(q)'
<1>1. /\ Owned(q) \subseteq Owned(q)'
      /\ \A x \in Owned(q)' : x.id \in before[q] => x \in Owned(q)
  BY OwnedKept
<1>2. ShowsOwned(q) => ShowsOwned(q)'
  BY <1>1 DEF ShowsOwned
<1>3. Ascending(shown[q]) => Ascending(shown[q])'
  BY DEF Ascending
<1>4. \A x : Shows(q, x) => Shows(q, x)'
  BY DEF Shows
<1>5. Paging(q) => Paging(q)'
  BY <1>1, <1>2, <1>3, <1>4 DEF Paging
<1>6. Limit(q)' = Limit(q)
  BY DEF Limit
<1>7. Read(q) => Read(q)'
  BY <1>1, <1>6 DEF Read
<1>8. Listed(q) => Listed(q)'
  BY <1>1, <1>2, <1>3, <1>4 DEF Listed
<1> QED
  BY <1>5, <1>7, <1>8 DEF Listing

\* A listing begins: there is nothing up to its cursor.
LEMMA SubmitListing ==
    ASSUME IInv, Shaped, NEW r \in Requests, Listing(r), Submit(r), pc'[r] = "page"
    PROVE  Paging(r)'
<1>1. PICK i \in Inputs :
         /\ input' = [input EXCEPT ![r] = i]
         /\ GoTo(r, CASE Kind(i) = "open" -> "validate"
                      [] Kind(i) = "list" -> "page"
                      [] OTHER -> "row")
  BY DEF Submit
<1>2. DOMAIN input = Requests /\ DOMAIN pc = Requests
  BY DEF IInv, Typed
<1>3. Kind(i) = "list"
  BY <1>1, <1>2 DEF GoTo, Kind
<1>4. input'[r] \in Listings
  <2>1. i \in Openings \cup Listings \cup LookUps
    BY AccountsAssumption
  <2>2. i \notin Openings
    BY <1>3 DEF Kind, Openings
  <2>3. i \notin LookUps
    BY <1>3 DEF Kind, LookUps
  <2> QED
    BY <1>1, <1>2, <2>1, <2>2, <2>3
<1>5. shown'[r] = <<>> /\ cursor'[r] = 0 /\ rows' = rows
  BY DEF Submit, readVars, Listing
<1>6. \A x \in rows : ~(x.id <= 0)
  BY DEF IInv, Typed, AccountRows, Shaped
<1> QED
  BY <1>4, <1>5, <1>6 DEF Paging, Ascending, ShowsOwned, Owned

\* A page is read.
LEMMA ReadListing ==
    ASSUME IInv, Shaped, NEW r \in Requests, Listing(r), ReadPage(r)
    PROVE  /\ pc'[r] = "balances" => Paging(r)' /\ Read(r)'
           /\ reply'[r] = "listed" => Listed(r)'
<1> DEFINE all == {x \in rows : x.owner = input[r].customer /\ x.id > cursor[r]}
<1>1. /\ UNCHANGED <<rows, cursor, shown, before, input>>
      /\ page' = [page EXCEPT ![r] = FirstOf(all, Limit(r) + 1)]
  BY DEF ReadPage, PageOf
<1>2. Paging(r) /\ pc[r] = "page"
  BY DEF ReadPage, Listing
<1>3. Paging(r)'
  BY <1>1, <1>2 DEF Paging, Ascending, ShowsOwned, Shows, Owned
<1>4. Limit(r) \in Nat \ {0}
  BY <1>2, LimitPositive DEF Paging
<1>5. Apart(all) /\ Limit(r) + 1 \in Nat
  BY <1>4, RowsApart
<1>6. page'[r] = FirstOf(all, Limit(r) + 1)
  BY <1>1 DEF IInv, Typed
<1>7. Cardinality(all) \in Nat /\ all = {x \in Owned(r) : x.id > cursor[r]}
  BY <1>5, Ranks DEF Owned
<1> HIDE DEF all
<1>8. /\ page'[r] \subseteq all
      /\ \A y \in page'[r], x \in all : x \notin page'[r] => y.id < x.id
      /\ Cardinality(all) <= Limit(r) + 1 => page'[r] = all
      /\ Cardinality(all) > Limit(r) + 1 => Cardinality(page'[r]) = Limit(r) + 1
  BY <1>5, <1>6, FirstOfShape
<1>9. \A x \in all :
         \/ x \in page'[r]
         \/ Cardinality(page'[r]) > Limit(r) /\ \A y \in page'[r] : y.id < x.id
  BY <1>4, <1>7, <1>8
<1>10. Limit(r)' = Limit(r) /\ Owned(r)' = Owned(r)
  BY <1>1 DEF Limit, Owned
<1>11. Read(r)'
  BY <1>1, <1>7, <1>8, <1>9, <1>10 DEF Read
<1>12. ASSUME reply'[r] = "listed" PROVE Listed(r)'
  <2>1. page'[r] = {}
    BY <1>2, <1>12 DEF ReadPage, GoTo, IInv, Prepared
  <2>2. ~(0 > Limit(r)) /\ Cardinality({}) = 0
    BY <1>4, FS_EmptySet
  <2>3. all = {}
    BY <1>9, <2>1, <2>2
  <2>4. \A x \in Owned(r) : x.id <= cursor[r]
    <3>1. cursor[r] \in Nat /\ \A x \in Owned(r) : x.id \in Nat
      BY DEF Shaped, IInv, Typed, AccountRows, Owned
    <3> QED
      BY <1>7, <2>3, <3>1
  <2> QED
    BY <1>1, <1>3, <1>10, <2>4 DEF Paging, Listed
<1> QED
  BY <1>3, <1>11, <1>12

\* A page is shown.
LEMMA ShowListing ==
    ASSUME IInv, Shaped, Shaped', NEW r \in Requests, Listing(r), ShowPage(r)
    PROVE  /\ pc'[r] # "balances"
           /\ pc'[r] = "page" => Paging(r)'
           /\ reply'[r] = "listed" => Listed(r)'
<1>1. Paging(r) /\ Read(r) /\ reply[r] = "none"
  BY DEF ShowPage, Listing, IInv, Prepared
<1>2. Limit(r) \in Nat \ {0}
  BY <1>1, LimitPositive DEF Paging
<1>3. PICK m, list :
         /\ m \in Nat /\ list \in [1 .. m -> page[r]] /\ Adds(r, m, list)
         /\ Finishes(r, m, list) \/ GoesOn(r, m, list)
  BY <1>2, ShowPageEffect DEF Adds
<1> DEFINE old == shown[r]
<1> DEFINE new == shown'[r]
<1> DEFINE L == Len(old)
<1>4. UNCHANGED <<rows, before, input>> /\ Owned(r)' = Owned(r)
  BY DEF ShowPage, Owned
<1>5. /\ L \in Nat /\ DOMAIN old = 1 .. L /\ DOMAIN new = 1 .. (L + m)
      /\ \A k \in 1 .. L : new[k] = old[k]
      /\ \A k \in 1 .. m : new[L + k].id = list[k].id
  BY <1>3 DEF Adds, Shaped
<1>6. /\ \A x \in Owned(r) : x.id \in Nat
      /\ cursor[r] \in Nat
      /\ \A k \in 1 .. L : old[k].id \in Nat /\ old[k].id <= cursor[r]
      /\ \A x \in page[r] : x \in Owned(r) /\ x.id > cursor[r]
  <2>1. \A k \in DOMAIN shown[r] : shown[r][k].id \in Nat /\ shown[r][k].id <= cursor[r]
    BY <1>1 DEF Paging, Shaped, IInv, Typed
  <2>2. \A x \in Owned(r) : x.id \in Nat
    BY DEF IInv, Typed, AccountRows, Owned
  <2> QED
    BY <1>1, <1>5, <2>1, <2>2 DEF Read, Shaped
<1>7. \A k \in 1 .. m : list[k] \in Owned(r) /\ list[k].id \in Nat /\ list[k].id > cursor[r]
  BY <1>3, <1>6
<1>8. \A k \in 1 .. (L + m) : k \in 1 .. L \/ \E l \in 1 .. m : k = L + l
  <2> SUFFICES ASSUME NEW k \in 1 .. (L + m), k \notin 1 .. L PROVE \E l \in 1 .. m : k = L + l
    OBVIOUS
  <2>1. k - L \in 1 .. m /\ k = L + (k - L)
    BY <1>3, <1>5
  <2> QED
    BY <2>1
<1>9. Ascending(new)
  <2> SUFFICES ASSUME NEW j \in 1 .. (L + m), NEW k \in 1 .. (L + m), j < k
               PROVE  new[j].id < new[k].id
    BY <1>5 DEF Ascending
  <2>1. CASE k \in 1 .. L
    <3>1. j \in 1 .. L
      BY <1>5, <2>1
    <3> QED
      BY <1>1, <1>5, <2>1, <3>1 DEF Paging, Ascending
  <2>2. CASE j \in 1 .. L /\ k \notin 1 .. L
    <3>1. PICK l \in 1 .. m : k = L + l
      BY <1>8, <2>2
    <3>2. new[j].id \in Nat /\ new[j].id <= cursor[r]
      BY <1>5, <1>6, <2>2
    <3>3. new[k].id \in Nat /\ new[k].id > cursor[r]
      BY <1>5, <1>7, <3>1
    <3> QED
      BY <1>6, <3>2, <3>3
  <2>3. CASE j \notin 1 .. L /\ k \notin 1 .. L
    <3>1. PICK i \in 1 .. m : j = L + i
      BY <1>8, <2>3
    <3>2. PICK l \in 1 .. m : k = L + l
      BY <1>8, <2>3
    <3>3. i < l
      BY <1>3, <1>5, <3>1, <3>2
    <3> QED
      BY <1>3, <1>5, <3>1, <3>2, <3>3 DEF Adds
  <2>4. j \notin 1 .. L => k \notin 1 .. L
    BY <1>5
  <2> QED
    BY <2>1, <2>2, <2>3, <2>4
<1>10. ShowsOwned(r)'
  <2> SUFFICES ASSUME NEW k \in 1 .. (L + m) PROVE \E x \in Owned(r) : x.id = new[k].id
    BY <1>4, <1>5 DEF ShowsOwned
  <2>1. CASE k \in 1 .. L
    BY <1>1, <1>5, <2>1 DEF Paging, ShowsOwned
  <2>2. CASE k \notin 1 .. L
    <3>1. PICK l \in 1 .. m : k = L + l
      BY <1>8, <2>2
    <3> QED
      BY <1>5, <1>7, <3>1
  <2> QED
    BY <2>1, <2>2
<1>11. \A x : Shows(r, x) => Shows(r, x)'
  <2> SUFFICES ASSUME NEW x, NEW k \in 1 .. L, old[k].id = x.id
               PROVE  \E l \in 1 .. (L + m) : new[l].id = x.id
    BY <1>5 DEF Shows
  <2>1. k \in 1 .. (L + m)
    BY <1>3, <1>5
  <2> QED
    BY <1>5, <2>1
<1>12. \A k \in 1 .. m : Shows(r, list[k])'
  <2> SUFFICES ASSUME NEW k \in 1 .. m PROVE \E l \in 1 .. (L + m) : new[l].id = list[k].id
    BY <1>5 DEF Shows
  <2>1. L + k \in 1 .. (L + m)
    BY <1>3, <1>5
  <2> QED
    BY <1>5, <2>1
<1>13. DOMAIN pc = Requests /\ DOMAIN reply = Requests /\ DOMAIN cursor = Requests
  BY DEF IInv, Typed, Shaped
<1>14. CASE Finishes(r, m, list)
  <2>1. pc'[r] = "done"
    BY <1>13, <1>14 DEF Finishes, EndWith
  <2>2. ASSUME NEW x \in Owned(r), x.id \in before[r] PROVE Shows(r, x)'
    <3>1. CASE x.id <= cursor[r]
      BY <1>1, <1>11, <2>2, <3>1 DEF Paging
    <3>2. CASE ~(x.id <= cursor[r])
      <4>1. x \in page[r]
        BY <1>1, <1>6, <1>14, <2>2, <3>2 DEF Read, Finishes
      <4>2. PICK k \in 1 .. m : list[k] = x
        BY <1>14, <4>1 DEF Finishes
      <4> QED
        BY <1>12, <4>2
    <3> QED
      BY <3>1, <3>2
  <2>3. Listed(r)'
    BY <1>4, <1>9, <1>10, <2>2 DEF Listed
  <2> QED
    BY <2>1, <2>3
<1>15. CASE GoesOn(r, m, list)
  <2>1. pc'[r] = "page" /\ reply'[r] = "none"
    BY <1>1, <1>13, <1>15 DEF GoesOn, GoTo
  <2>2. m \in 1 .. m /\ cursor'[r] = list[m].id
    BY <1>3, <1>13, <1>15 DEF GoesOn
  <2>3. \A k \in 1 .. (L + m) : new[k].id <= cursor'[r]
    <3> SUFFICES ASSUME NEW k \in 1 .. (L + m) PROVE new[k].id <= list[m].id
      BY <2>2
    <3>1. CASE k \in 1 .. L
      <4>1. new[k].id \in Nat /\ new[k].id <= cursor[r]
        BY <1>5, <1>6, <3>1
      <4>2. list[m].id \in Nat /\ list[m].id > cursor[r]
        BY <1>7, <2>2
      <4> QED
        BY <1>6, <4>1, <4>2
    <3>2. CASE k \notin 1 .. L
      <4>1. PICK l \in 1 .. m : k = L + l
        BY <1>8, <3>2
      <4>2. l = m \/ l < m
        BY <1>3
      <4>3. new[k].id = list[l].id /\ (l < m => list[l].id < list[m].id)
        BY <1>3, <1>5, <2>2, <4>1 DEF Adds
      <4> QED
        BY <1>7, <2>2, <4>2, <4>3
    <3> QED
      BY <3>1, <3>2
  <2>4. ASSUME NEW x \in Owned(r), x.id \in before[r], x.id <= list[m].id PROVE Shows(r, x)'
    <3>1. CASE x.id <= cursor[r]
      BY <1>1, <1>11, <2>4, <3>1 DEF Paging
    <3>2. CASE ~(x.id <= cursor[r])
      <4>1. list[m] \in page[r] /\ ~(list[m].id < x.id)
        BY <1>3, <1>6, <1>7, <2>2, <2>4
      <4>2. x \in page[r]
        BY <1>1, <1>6, <2>4, <3>2, <4>1 DEF Read
      <4>3. PICK k \in 1 .. m : list[k] = x
        BY <1>15, <2>4, <4>2 DEF GoesOn
      <4> QED
        BY <1>12, <4>3
    <3> QED
      BY <3>1, <3>2
  <2>5. Paging(r)'
    BY <1>1, <1>4, <1>5, <1>9, <1>10, <2>2, <2>3, <2>4 DEF Paging
  <2> QED
    BY <2>1, <2>5
<1> QED
  BY <1>3, <1>14, <1>15

LEMMA NextListing ==
    ASSUME IInv, Shaped, Shaped', \A r \in Requests : Listing(r), Next
    PROVE  \A r \in Requests : Listing(r)'
<1>1. PICK r \in Requests :
          \/ Submit(r) \/ Proceed(r) \/ CreateTbFails(r) \/ CommitFails(r)
          \/ DependencyFails(r) \/ Die(r)
  BY DEF Next
<1>2. /\ pc'[r] # "new"
      /\ \A q \in Requests : q # r => cursor'[q] = cursor[q]
      /\ pc'[r] = "page" => Submit(r) \/ ShowPage(r)
      /\ pc'[r] = "balances" => ReadPage(r)
      /\ reply'[r] = "listed" => ReadPage(r) \/ ShowPage(r)
  BY <1>1, ListingSteps DEF Shaped
<1>3. \A q \in Requests : q # r =>
         /\ pc'[q] = pc[q] /\ reply'[q] = reply[q] /\ input'[q] = input[q]
         /\ page'[q] = page[q] /\ shown'[q] = shown[q] /\ before'[q] = before[q]
  BY <1>1, Answers
<1>4. \A q \in Requests : q # r => Listing(q)'
  BY <1>2, <1>3, ListingStays
<1>5. CASE ReadPage(r)
  <2>1. /\ pc'[r] = "balances" => Paging(r)' /\ Read(r)'
        /\ reply'[r] = "listed" => Listed(r)'
    BY <1>5, ReadListing
  <2>2. pc'[r] # "page"
    BY <1>5 DEF ReadPage, GoTo, EndWith, IInv, Typed
  <2> QED
    BY <1>2, <1>4, <2>1, <2>2 DEF Listing
<1>6. CASE ShowPage(r)
  <2>1. /\ pc'[r] # "balances"
        /\ pc'[r] = "page" => Paging(r)'
        /\ reply'[r] = "listed" => Listed(r)'
    BY <1>6, ShowListing
  <2> QED
    BY <1>2, <1>4, <2>1 DEF Listing
<1>7. CASE ~ReadPage(r) /\ ~ShowPage(r)
  <2>1. pc'[r] = "page" => Paging(r)'
    BY <1>2, <1>7, SubmitListing
  <2> QED
    BY <1>2, <1>4, <1>7, <2>1 DEF Listing
<1> QED
  BY <1>5, <1>6, <1>7

ListInv == IInv /\ Found /\ Shaped /\ \A r \in Requests : Listing(r)

LEMMA ListInductive == (Init => ListInv) /\ (ListInv /\ [Next]_vars => ListInv')
<1>1. Init => ListInv
  <2>1. Init => Found
    BY DEF Init, Found
  <2> QED
    BY <2>1, InitInv, InitShaped DEF ListInv
<1>2. ASSUME ListInv, Next PROVE ListInv'
  <2>1. IInv /\ Found /\ Shaped /\ \A r \in Requests : Listing(r)
    BY <1>2 DEF ListInv
  <2>2. IInv'
    BY <1>2, <2>1, Inductive
  <2>3. Found'
    BY <1>2, <2>1, NextFound
  <2>4. Shaped'
    BY <1>2, <2>1, <2>2, NextShaped
  <2>5. \A r \in Requests : Listing(r)'
    BY <1>2, <2>1, <2>4, NextListing
  <2> QED
    BY <2>2, <2>3, <2>4, <2>5 DEF ListInv
<1>3. ASSUME ListInv, UNCHANGED vars PROVE ListInv'
  <2>1. IInv'
    BY <1>3, Inductive DEF ListInv
  <2>2. Found'
    BY <1>3 DEF ListInv, vars, readVars, Found
  <2>3. Shaped'
    BY <1>3 DEF ListInv, vars, readVars, Shaped, Inserted, Opening, ProductOf
  <2>4. \A r \in Requests : Listing(r)'
    BY <1>3 DEF ListInv, vars, readVars, Listing, Paging, Read, Listed, Ascending, ShowsOwned,
       Shows, Owned, Limit
  <2> QED
    BY <2>1, <2>2, <2>3, <2>4 DEF ListInv
<1> QED
  BY <1>1, <1>2, <1>3

\* Every variable has its type, whatever is opened, looked up and listed: identifiers and
\* ids come from what was generated and drawn, and balances from the totals of TigerBeetle.
THEOREM TypeCorrect == Spec => []TypeOK
<1>1. ListInv => TypeOK
  <2> SUFFICES ASSUME ListInv PROVE TypeOK
    OBVIOUS
  <2>1. IInv /\ Shaped /\ Typed /\ IdsApart
    BY DEF ListInv, IInv
  <2>2. made \in 0 .. Len(Uuids)
    <3>1. IsFiniteSet(Early) /\ Cardinality(Early) \in Nat /\ Cardinality(Requests) \in Nat
      BY AccountsAssumption, FS_Subset, FS_CardinalityType DEF Early
    <3>2. Len(Uuids) = Cardinality(Requests)
      BY <3>1, AccountsAssumption
    <3> QED
      BY <2>1, <3>1, <3>2 DEF Typed
  <2>3. \A r \in Requests : before[r] \subseteq 1 .. nextId - 1
    <3>1. \A x \in rows : x.id \in 1 .. nextId - 1
      BY <2>1 DEF Typed, AccountRows, IdsApart, Shaped
    <3> QED
      BY <2>1, <3>1 DEF IdsApart
  <2>4. \A r \in Requests : page[r] \subseteq rows
    BY <2>1 DEF Typed
  <2>5. /\ rows \subseteq AccountRows /\ nextId \in Nat /\ draft \in [Requests -> Drafts]
        /\ pc \in [Requests -> Phases] /\ reply \in [Requests -> Replies]
    BY <2>1 DEF Typed
  <2>6. /\ \A a \in DOMAIN tb : a \in Identifiers /\ tb[a] \in TbRecords
        /\ cursor \in [Requests -> Nat] /\ input \in [Requests -> Inputs \cup {NoInput}]
        /\ \A r \in Requests : \A k \in DOMAIN shown[r] : shown[r][k].id \in 1 .. nextId - 1
    BY <2>1 DEF Shaped
  <2> QED
    BY <2>2, <2>3, <2>4, <2>5, <2>6 DEF TypeOK
<1> QED
  BY <1>1, ListInductive, PTL DEF Spec

\* A listing that has come to its end has shown every account its customer had when it
\* began, once, in order, and no other's: list_by_customer_ref reads page by page behind
\* a cursor, while accounts are opened and committed in another order than their ids.
THEOREM ListingCompleteCorrect == Spec => []ListingComplete
<1>1. ListInv => ListingComplete
  <2> SUFFICES ASSUME ListInv, NEW r \in Requests, reply[r] = "listed"
               PROVE  /\ \A j, k \in DOMAIN shown[r] : j < k => shown[r][j].id < shown[r][k].id
                      /\ \A x \in {y \in rows : y.owner = input[r].customer /\ y.id \in before[r]} :
                            \E k \in DOMAIN shown[r] : x.id = shown[r][k].id
                      /\ \A k \in DOMAIN shown[r] :
                            \E x \in rows : x.id = shown[r][k].id /\ x.owner = input[r].customer
    BY DEF ListingComplete
  <2>1. Listed(r)
    BY DEF ListInv, Listing
  <2>2. \A j, k \in DOMAIN shown[r] : j < k => shown[r][j].id < shown[r][k].id
    BY <2>1 DEF Listed, Ascending
  <2>3. \A x \in Owned(r) : x.id \in before[r] => \E k \in DOMAIN shown[r] : x.id = shown[r][k].id
    BY <2>1 DEF Listed, Shows
  <2>4. \A k \in DOMAIN shown[r] : \E x \in Owned(r) : x.id = shown[r][k].id
    BY <2>1 DEF Listed, ShowsOwned
  <2> QED
    BY <2>2, <2>3, <2>4 DEF Owned
<1> QED
  BY <1>1, ListInductive, PTL DEF Spec
=============================================================================
