--------------------------- MODULE Ledger_proofs ---------------------------
(***************************************************************************)
(* What the four movements of the ledger do to the totals of each account. *)
(* And the laws of the sums that explain those totals, from the laws of    *)
(* cardinality: a sum over nothing, over one element more and over one     *)
(* element less, and that it depends on nothing but its terms.             *)
(***************************************************************************)
EXTENDS Ledger, Totals, FiniteSetTheorems, TLAPS

-----------------------------------------------------------------------------
(* Movements. *)

\* Book `after` differs from book `before` by the given amounts: posted on the
\* debit of d and on the credit of c, and pending on the same two sides.
Moves(before, after, d, c, posted, pending) ==
    \A a \in TbAccounts :
        /\ after[a].dp = before[a].dp + (IF a = d THEN posted ELSE 0)
        /\ after[a].cp = before[a].cp + (IF a = c THEN posted ELSE 0)
        /\ after[a].dpnd = before[a].dpnd + (IF a = d THEN pending ELSE 0)
        /\ after[a].cpnd = before[a].cpnd + (IF a = c THEN pending ELSE 0)

LEMMA PostEffect ==
    ASSUME NEW book \in Books, NEW d \in TbAccounts, NEW c \in TbAccounts, NEW n \in Int
    PROVE  /\ Post(book, d, c, n) \in Books
           /\ Moves(book, Post(book, d, c, n), d, c, n, 0)
  BY DEF Post, Books, Totals4, Moves

LEMMA ReserveEffect ==
    ASSUME NEW book \in Books, NEW d \in TbAccounts, NEW c \in TbAccounts, NEW n \in Int
    PROVE  /\ Reserve(book, d, c, n) \in Books
           /\ Moves(book, Reserve(book, d, c, n), d, c, 0, n)
  BY DEF Reserve, Books, Totals4, Moves

LEMMA ReleaseEffect ==
    ASSUME NEW book \in Books, NEW d \in TbAccounts, NEW c \in TbAccounts, NEW n \in Int
    PROVE  /\ Release(book, d, c, n) \in Books
           /\ Moves(book, Release(book, d, c, n), d, c, 0, 0 - n)
  BY DEF Release, Books, Totals4, Moves

LEMMA PostPendingEffect ==
    ASSUME NEW book \in Books, NEW d \in TbAccounts, NEW c \in TbAccounts,
           NEW held \in Int, NEW n \in Int
    PROVE  /\ PostPending(book, d, c, held, n) \in Books
           /\ Moves(book, PostPending(book, d, c, held, n), d, c, n, 0 - held)
<1> DEFINE mid == Release(book, d, c, held)
<1> DEFINE after == Post(mid, d, c, n)
<1>1. mid \in Books /\ Moves(book, mid, d, c, 0, 0 - held)
  BY ReleaseEffect
<1>2. PostPending(book, d, c, held, n) = after
  BY DEF PostPending
<1> HIDE DEF mid
<1>3. after \in Books /\ Moves(mid, after, d, c, n, 0)
  BY <1>1, PostEffect
<1> HIDE DEF after
<1>4. \A a \in TbAccounts : book[a] \in Totals4
  BY DEF Books
<1> QED
  BY <1>1, <1>2, <1>3, <1>4 DEF Moves, Totals4

-----------------------------------------------------------------------------
(* Sums. *)

\* The units of one element are as many as its value says.
LEMMA UnitsOfOne ==
    ASSUME NEW s, NEW n \in Nat
    PROVE  IsFiniteSet({s} \X (1 .. n)) /\ Cardinality({s} \X (1 .. n)) = n
<1>1. IsFiniteSet({s}) /\ Cardinality({s}) = 1
  BY FS_Singleton
<1>2. IsFiniteSet(1 .. n) /\ Cardinality(1 .. n) = n
  BY FS_Interval
<1>3. \A A, B : IsFiniteSet(A) /\ IsFiniteSet(B) =>
          IsFiniteSet(A \X B) /\ Cardinality(A \X B) = Cardinality(A) * Cardinality(B)
  BY FS_Product
<1>4. /\ IsFiniteSet({s} \X (1 .. n))
      /\ Cardinality({s} \X (1 .. n)) = Cardinality({s}) * Cardinality(1 .. n)
  BY <1>1, <1>2, <1>3
<1> QED
  BY <1>1, <1>2, <1>4

\* There are finitely many units to count.
LEMMA UnitsFinite ==
    ASSUME NEW S, IsFiniteSet(S), NEW f, \A s \in S : f[s] \in Nat
    PROVE  IsFiniteSet(Units(S, f))
<1> DEFINE Of(s) == {s} \X (1 .. f[s])
<1> DEFINE Parts == {Of(s) : s \in S}
<1> DEFINE part == [s \in S |-> Of(s)]
<1>1. \A P \in Parts : IsFiniteSet(P)
  <2> SUFFICES ASSUME NEW s \in S PROVE IsFiniteSet(Of(s))
    OBVIOUS
  <2>1. f[s] \in Nat
    OBVIOUS
  <2> QED
    BY <2>1, UnitsOfOne
<1>2. part \in Surjection(S, Parts)
  BY DEF Surjection
<1>3. IsFiniteSet(Parts)
  BY <1>2, FS_Surjection
<1>4. IsFiniteSet(UNION Parts)
  BY <1>1, <1>3, FS_UNION
<1> QED
  BY <1>4 DEF Units

\* A sum of natural numbers is one.
LEMMA TotalType ==
    ASSUME NEW S, IsFiniteSet(S), NEW f, \A s \in S : f[s] \in Nat
    PROVE  Total(S, f) \in Nat
  BY UnitsFinite, FS_CardinalityType DEF Total

\* The empty sum.
LEMMA TotalEmpty == ASSUME NEW f PROVE Total({}, f) = 0
<1>1. Units({}, f) = {}
  BY DEF Units
<1> QED
  BY <1>1, FS_EmptySet DEF Total

\* Only the terms of a sum count.
LEMMA TotalSame ==
    ASSUME NEW S, NEW f, NEW g, \A s \in S : f[s] = g[s]
    PROVE  Total(S, f) = Total(S, g)
<1>1. Units(S, f) = Units(S, g)
  BY DEF Units
<1> QED
  BY <1>1 DEF Total

\* One term more.
LEMMA TotalAdd ==
    ASSUME NEW S, IsFiniteSet(S), NEW f, \A s \in S : f[s] \in Nat,
           NEW t, t \notin S, f[t] \in Nat
    PROVE  Total(S \cup {t}, f) = Total(S, f) + f[t]
<1> DEFINE U == Units(S, f)
<1> DEFINE V == {t} \X (1 .. f[t])
<1>1. Units(S \cup {t}, f) = U \cup V
  BY DEF Units
<1>2. U \cap V = {}
  BY DEF Units
<1>3. IsFiniteSet(U) /\ IsFiniteSet(V) /\ Cardinality(V) = f[t]
  BY UnitsFinite, UnitsOfOne
<1>4. Cardinality(U \cup V) = Cardinality(U) + Cardinality(V) - Cardinality(U \cap V)
  BY <1>3, FS_Union
<1>5. Cardinality(U \cap V) = 0 /\ Cardinality(U) \in Nat
  BY <1>2, <1>3, FS_EmptySet, FS_CardinalityType
<1>6. Total(S \cup {t}, f) = Cardinality(U \cup V) /\ Total(S, f) = Cardinality(U)
  BY <1>1 DEF Total
<1> HIDE DEF U, V
<1> QED
  BY <1>3, <1>4, <1>5, <1>6

\* One term less.
LEMMA TotalRemove ==
    ASSUME NEW S, IsFiniteSet(S), NEW f, \A s \in S : f[s] \in Nat, NEW t \in S
    PROVE  Total(S \ {t}, f) = Total(S, f) - f[t]
<1> DEFINE rest == S \ {t}
<1>1. IsFiniteSet(rest) /\ t \notin rest /\ S = rest \cup {t}
  BY FS_RemoveElement
<1>2. Total(rest \cup {t}, f) = Total(rest, f) + f[t]
  BY <1>1, TotalAdd
<1>3. Total(rest, f) \in Nat /\ f[t] \in Nat
  BY <1>1, TotalType
<1>4. Total(S, f) = Total(rest, f) + f[t]
  BY <1>1, <1>2
<1> HIDE DEF rest
<1>5. Total(rest, f) = Total(S, f) - f[t]
  BY <1>3, <1>4
<1> QED
  BY <1>5 DEF rest
=============================================================================
