--------------------------- MODULE Exchange_proofs ---------------------------
(***************************************************************************)
(* What Exchange guarantees of the cached rates, and of its answers, for   *)
(* any number of requests, pairs and rates, and any bounds on time.        *)
(***************************************************************************)
EXTENDS Exchange, Ledger_proofs, WellFoundedInduction, TLAPS

-----------------------------------------------------------------------------
(* The invariant. *)

\* TypeOK but for the totals of accounts: which amounts they are made of comes later.
Typed ==
    /\ now \in Time
    /\ since \in [Rows -> Time \cup {NoRow}]
    /\ cache \in [Pairs -> Entries \cup {NoEntry}]
    /\ lock \in [Pairs -> Requests \cup {NoRequest}]
    /\ load \in [Requests -> Loads]
    /\ loads \in [Pairs -> Nat]
    /\ quote \in [Requests -> Quotes \cup {NoQuote}]
    /\ posted \in [Requests -> SUBSET Legs]
    /\ metadata \subseteq Requests \X Legs
    /\ input \in [Requests -> Inputs \cup {NoInput}]
    /\ pc \in [Requests -> Phases]
    /\ noted \in [Requests -> SUBSET Legs]
    /\ reply \in [Requests -> Replies]
    /\ \A r \in Requests : pc[r] # "new" => input[r] \in Inputs

\* The lock of a pair is held by its one loader, who finds the cache empty.
Locked ==
    /\ \A r \in Requests : Loading(r) => lock[Pair(r)] = r
    /\ \A p \in Pairs : lock[p] # NoRequest =>
          Loading(lock[p]) /\ Pair(lock[p]) = p /\ cache[p] = NoEntry

\* Every load but the last is paid for by a rate that has expired since.
Counted ==
    \A p \in Pairs :
        /\ cache[p] = NoEntry => loads[p] * (TTL + 1) <= now
        /\ cache[p] # NoEntry => /\ loads[p] * (TTL + 1) <= cache[p].expires + 1
                                 /\ cache[p].expires <= now + TTL

\* No loader is kept waiting.
Timed == \A r \in Requests : Loading(r) => load[r].began <= now /\ now <= load[r].began + MaxLoad

\* A row of the bank, not older than any that somebody goes by.
OfBank(q) == quote[q] # NoQuote /\ quote[q].row # NoRow
Best(p, row) ==
    /\ row \in Published /\ row.pair = p
    /\ \A q \in Requests : OfBank(q) /\ quote[q].row.pair = p => quote[q].row.effective <= row.effective

\* Rows that replace this one were all published at time t or later.
Since(p, row, t) ==
    \A x \in Published : x.pair = p /\ x.effective > row.effective => t <= since[x]

Ordered ==
    /\ \A p \in Pairs : cache[p] # NoEntry =>
          Best(p, cache[p].row) /\ Since(p, cache[p].row, cache[p].expires - TTL - MaxLoad)
    /\ \A r \in Requests : pc[r] = "loaded" /\ load[r].row # NoRow =>
          Best(Pair(r), load[r].row) /\ Since(Pair(r), load[r].row, load[r].began)
    /\ \A q \in Requests : OfBank(q) => quote[q].row \in Published /\ quote[q].row.pair = Pair(q)
    /\ \A q \in Requests : pc[q] = "new" => quote[q] = NoQuote

RateInv == Typed /\ Locked /\ Counted /\ Timed /\ Ordered

-----------------------------------------------------------------------------
(* What a step does to the rates. *)

\* A request passes validate(), or goes on with what it asked for.
Asks(r) == /\ input' \in [Requests -> Inputs \cup {NoInput}] /\ input'[r] \in Inputs
           /\ \A q \in Requests : q # r => input'[q] = input[q]
           /\ pc[r] = "new" \/ (pc[r] = "lock" /\ input'[r] = input[r])

Goes(r, phase) == phase \in Phases /\ pc' = [pc EXCEPT ![r] = phase]

NamedStep(r) ==
    /\ Asks(r) /\ pc[r] = "new" /\ Goes(r, "validate")
    /\ quote' = [quote EXCEPT ![r] = [rate |-> input'[r].rate, row |-> NoRow]]
    /\ UNCHANGED <<now, since, cache, lock, load, loads>>
HitStep(r) ==
    /\ Asks(r) /\ Goes(r, "validate") /\ Hit(input'[r].pair)
    /\ quote' = [quote EXCEPT ![r] = [rate |-> cache[input'[r].pair].row.rate,
                                      row |-> cache[input'[r].pair].row]]
    /\ UNCHANGED <<now, since, cache, lock, load, loads>>
MissStep(r) ==
    /\ Asks(r) /\ ~Hit(input'[r].pair) /\ cache' = [cache EXCEPT ![input'[r].pair] = NoEntry]
    /\ \/ Goes(r, "lock") /\ UNCHANGED <<lock, load>>
       \/ /\ lock[input'[r].pair] = NoRequest /\ Goes(r, "load")
          /\ lock' = [lock EXCEPT ![input'[r].pair] = r]
          /\ load' = [load EXCEPT ![r] = [row |-> NoRow, began |-> now]]
    /\ UNCHANGED <<now, since, loads, quote>>
ReadStep(r) ==
    /\ pc[r] = "load" /\ Goes(r, "loaded")
    /\ \E row \in Rows \cup {NoRow} :
          /\ row = NoRow \/ IsLatest(Pair(r), row)
          /\ load' = [load EXCEPT ![r].row = row]
    /\ UNCHANGED <<now, since, cache, lock, loads, quote, input>>
FillStep(r) ==
    /\ pc[r] = "loaded" /\ load[r].row # NoRow /\ Goes(r, "validate") /\ EndLoad(r)
    /\ cache' = [cache EXCEPT ![Pair(r)] = [row |-> load[r].row, expires |-> now + TTL]]
    /\ loads' = [loads EXCEPT ![Pair(r)] = @ + 1]
    /\ quote' = [quote EXCEPT ![r] = [rate |-> load[r].row.rate, row |-> load[r].row]]
    /\ UNCHANGED <<now, since, input>>
\* r takes no rate, and leaves its lock if it holds one.
OtherStep(r) ==
    /\ pc[r] # "new"
    /\ \E phase \in Phases \ {"new", "lock", "load", "loaded", "validate"} : Goes(r, phase)
    /\ EndLoad(r) \/ (~Loading(r) /\ UNCHANGED <<lock, load>>)
    /\ UNCHANGED <<now, since, cache, loads, quote, input>>

RateStep(r) ==
    \/ NamedStep(r) \/ HitStep(r) \/ MissStep(r) \/ ReadStep(r) \/ FillStep(r) \/ OtherStep(r)

LEMMA RateSteps ==
    ASSUME Typed, NEW r \in Requests,
           Submit(r) \/ Proceed(r) \/ LoadFails(r) \/ CommitFails(r) \/ DependencyFails(r) \/ Die(r)
    PROVE  RateStep(r)
<1>1. input \in [Requests -> Inputs \cup {NoInput}] /\ (pc[r] # "new" => input[r] \in Inputs)
  BY DEF Typed
<1>2. \A p : Missed(p) /\ Hit(p) => cache' = cache
  BY DEF Missed, Typed
<1>3. \A p : Missed(p) /\ ~Hit(p) => cache' = [cache EXCEPT ![p] = NoEntry]
  BY DEF Missed
<1>4. CASE Submit(r)
  <2>1. PICK i \in Inputs :
          /\ input' = [input EXCEPT ![r] = i]
          /\ IF i.rate > 0
             THEN Take(r, i.rate, NoRow) /\ GoTo(r, "validate") /\ UNCHANGED <<cache, lock, load>>
             ELSE /\ Missed(i.pair)
                  /\ IF Hit(i.pair)
                     THEN TakeCached(r, i.pair) /\ GoTo(r, "validate") /\ UNCHANGED <<lock, load>>
                     ELSE /\ IF MustWait(i.pair)
                             THEN GoTo(r, "lock") /\ UNCHANGED <<lock, load>>
                             ELSE BeginLoad(r, i.pair)
                          /\ UNCHANGED quote
    BY <1>4 DEF Submit
  <2>2. input'[r] = i /\ pc[r] = "new" /\ Asks(r) /\ UNCHANGED <<now, since, loads>>
    BY <1>1, <1>4, <2>1 DEF Submit, Asks
  <2>3. CASE i.rate > 0
    BY <2>1, <2>2, <2>3 DEF Take, GoTo, NamedStep, RateStep, Goes, Phases
  <2>4. CASE ~(i.rate > 0) /\ Hit(i.pair)
    BY <1>2, <2>1, <2>2, <2>4 DEF TakeCached, Take, GoTo, HitStep, RateStep, Goes, Phases
  <2>5. CASE ~(i.rate > 0) /\ ~Hit(i.pair)
    BY <1>3, <2>1, <2>2, <2>5 DEF MustWait, BeginLoad, GoTo, MissStep, RateStep, Goes, Phases
  <2> QED
    BY <2>3, <2>4, <2>5
<1>5. CASE AcquireLock(r)
  <2>1. Asks(r) /\ input'[r] = input[r] /\ UNCHANGED <<now, since, loads>>
    BY <1>1, <1>5 DEF AcquireLock, Asks
  <2>2. CASE Hit(Pair(r))
    BY <1>2, <1>5, <2>1, <2>2
       DEF AcquireLock, TakeCached, Take, GoTo, HitStep, RateStep, Goes, Phases, Pair
  <2>3. CASE ~Hit(Pair(r))
    BY <1>3, <1>5, <2>1, <2>3 DEF AcquireLock, BeginLoad, GoTo, MissStep, RateStep, Goes, Phases, Pair
  <2> QED
    BY <2>2, <2>3
<1>6. CASE ReadLatest(r)
  BY <1>6 DEF ReadLatest, GoTo, ReadStep, RateStep, Goes, Phases
<1>7. CASE FinishLoad(r)
  BY <1>7 DEF FinishLoad, Take, GoTo, EndWith, FillStep, OtherStep, RateStep, Goes, Phases
<1>8. CASE LoadFails(r) \/ Die(r)
  BY <1>8 DEF LoadFails, Die, Loading, Live, EndWith, OtherStep, RateStep, Goes, Phases
<1>9. CASE Validate(r) \/ ExecuteTb(r) \/ WriteMetadata(r) \/ Commit(r) \/ CommitFails(r) \/ DependencyFails(r)
  BY <1>9 DEF Validate, ExecuteTb, WriteMetadata, Commit, CommitFails, DependencyFails, cacheVars, bankVars, tbVars,
     Loading, GoTo, EndWith, OtherStep, RateStep, Goes, Phases
<1> QED
  BY <1>4, <1>5, <1>6, <1>7, <1>8, <1>9 DEF Proceed

-----------------------------------------------------------------------------
(* Types. *)

LEMMA InitTyped == Init => Typed
<1> SUFFICES ASSUME Init PROVE Typed
  OBVIOUS
<1>1. 0 \in Time
  BY ExchangeAssumption DEF Time
<1> QED
  BY <1>1 DEF Init, Typed, Loads, Idle, Phases, Replies

\* What is known of an input.
LEMMA InputShape ==
    ASSUME NEW i \in Inputs
    PROVE  i.pair \in Pairs /\ i.rate \in Nat
  BY ExchangeAssumption DEF InputRecords

LEMMA RatesTyped ==
    ASSUME Typed, NEW r \in Requests, RateStep(r)
    PROVE  /\ now' \in Time /\ since' \in [Rows -> Time \cup {NoRow}]
           /\ cache' \in [Pairs -> Entries \cup {NoEntry}]
           /\ lock' \in [Pairs -> Requests \cup {NoRequest}]
           /\ load' \in [Requests -> Loads] /\ loads' \in [Pairs -> Nat]
           /\ quote' \in [Requests -> Quotes \cup {NoQuote}]
           /\ input' \in [Requests -> Inputs \cup {NoInput}]
           /\ pc' \in [Requests -> Phases]
           /\ \A q \in Requests : pc'[q] # "new" => input'[q] \in Inputs
<1> USE DEF Typed
<1>1. /\ now' = now /\ since' = since /\ now \in Nat
  BY ExchangeAssumption DEF RateStep, NamedStep, HitStep, MissStep, ReadStep, FillStep, OtherStep, Time
<1>2. /\ input' \in [Requests -> Inputs \cup {NoInput}] /\ pc' \in [Requests -> Phases]
      /\ input'[r] \in Inputs /\ \A q \in Requests : pc'[q] # "new" => input'[q] \in Inputs
  <2>1. pc' \in [Requests -> Phases] /\ \A q \in Requests : q # r => pc'[q] = pc[q]
    BY DEF RateStep, NamedStep, HitStep, MissStep, ReadStep, FillStep, OtherStep, Goes
  <2>2. Asks(r) \/ (input' = input /\ pc[r] # "new")
    BY DEF RateStep, NamedStep, HitStep, MissStep, ReadStep, FillStep, OtherStep
  <2> QED
    BY <2>1, <2>2 DEF Asks
<1>3. input'[r].pair \in Pairs /\ input'[r].rate \in Nat
  BY <1>2, InputShape
<1>4. \A row \in Rows : [rate |-> row.rate, row |-> row] \in Quotes
  BY RatesAssumption DEF Quotes, RateRows
<1>5. lock' \in [Pairs -> Requests \cup {NoRequest}] /\ load' \in [Requests -> Loads]
  <2>1. [row |-> NoRow, began |-> now] \in Loads /\ Idle \in Loads
    BY <1>1, ExchangeAssumption DEF Loads, Idle, Time
  <2>2. \A d \in Loads, row \in Rows \cup {NoRow} : [d EXCEPT !.row = row] \in Loads
    BY DEF Loads
  <2>3. EndLoad(r) => lock' \in [Pairs -> Requests \cup {NoRequest}] /\ load' \in [Requests -> Loads]
    BY <2>1 DEF EndLoad
  <2>4. ReadStep(r) => lock' \in [Pairs -> Requests \cup {NoRequest}] /\ load' \in [Requests -> Loads]
    <3> SUFFICES ASSUME ReadStep(r) PROVE load' \in [Requests -> Loads]
      BY DEF ReadStep
    <3>1. PICK row \in Rows \cup {NoRow} : load' = [load EXCEPT ![r].row = row]
      BY DEF ReadStep
    <3>2. [load[r] EXCEPT !.row = row] \in Loads
      BY <2>2
    <3> QED
      BY <3>1, <3>2
  <2>5. MissStep(r) => lock' \in [Pairs -> Requests \cup {NoRequest}] /\ load' \in [Requests -> Loads]
    BY <2>1 DEF MissStep
  <2> QED
    BY <2>3, <2>4, <2>5 DEF RateStep, NamedStep, HitStep, FillStep, OtherStep
<1>6. CASE NamedStep(r)
  BY <1>1, <1>2, <1>3, <1>5, <1>6 DEF NamedStep, Quotes
<1>7. CASE HitStep(r)
  <2>1. cache[input'[r].pair] \in Entries
    BY <1>3, <1>7 DEF HitStep, Hit
  <2> QED
    BY <1>1, <1>2, <1>4, <1>5, <1>7, <2>1 DEF HitStep, Entries
<1>8. CASE MissStep(r)
  BY <1>1, <1>2, <1>5, <1>8 DEF MissStep
<1>9. CASE ReadStep(r) \/ OtherStep(r)
  BY <1>1, <1>2, <1>5, <1>9 DEF ReadStep, OtherStep
<1>10. CASE FillStep(r)
  <2>1. load[r].row \in Rows
    BY <1>10 DEF FillStep, Loads
  <2>2. [row |-> load[r].row, expires |-> now + TTL] \in Entries
    BY <1>1, <2>1, ExchangeAssumption DEF Entries
  <2>3. cache' \in [Pairs -> Entries \cup {NoEntry}] /\ loads' \in [Pairs -> Nat]
    <3>1. loads[Pair(r)] + 1 \in Nat \/ Pair(r) \notin Pairs
      OBVIOUS
    <3> QED
      BY <1>10, <2>2, <3>1 DEF FillStep
  <2> QED
    BY <1>1, <1>2, <1>4, <1>5, <1>10, <2>1, <2>3 DEF FillStep
<1> QED
  BY <1>6, <1>7, <1>8, <1>9, <1>10 DEF RateStep

\* The answers and the legs.
LEMMA BankTyped ==
    ASSUME Typed, NEW r \in Requests,
           Submit(r) \/ Proceed(r) \/ LoadFails(r) \/ CommitFails(r) \/ DependencyFails(r) \/ Die(r)
    PROVE  /\ posted' \in [Requests -> SUBSET Legs] /\ metadata' \subseteq Requests \X Legs
           /\ noted' \in [Requests -> SUBSET Legs] /\ reply' \in [Requests -> Replies]
<1> USE DEF Typed
<1>1. Outcome(r) \subseteq Legs /\ MetadataOf(r) \subseteq Requests \X Legs
  BY DEF Outcome, MetadataOf
<1>2. Refusal(input[r]) = "none" \/ Refusal(input[r]) \in Replies
  BY DEF Refusal, StatusRefusal, Replies, Refusals
<1>3. \A answer \in Replies : EndWith(r, answer) => reply' \in [Requests -> Replies]
  BY DEF EndWith
<1>4. CASE Submit(r) \/ AcquireLock(r) \/ ReadLatest(r) \/ FinishLoad(r) \/ LoadFails(r)
  BY <1>3, <1>4 DEF Submit, AcquireLock, ReadLatest, FinishLoad, LoadFails, BeginLoad, GoTo, bankVars, tbVars, Replies, Refusals
<1>5. CASE Validate(r) \/ DependencyFails(r)
  BY <1>2, <1>3, <1>5 DEF Validate, DependencyFails, GoTo, bankVars, tbVars, Replies, Refusals
<1>6. CASE ExecuteTb(r)
  BY <1>1, <1>3, <1>6 DEF ExecuteTb, TbApply, GoTo, Replies, Refusals
<1>7. CASE WriteMetadata(r)
  BY <1>7 DEF WriteMetadata, GoTo, tbVars
<1>8. CASE Commit(r) \/ CommitFails(r)
  BY <1>1, <1>3, <1>8 DEF Commit, CommitFails, Forget, Replies, Refusals, tbVars
<1>9. CASE Die(r)
  BY <1>1, <1>9 DEF Die, TbApply, Forget, tbVars
<1> QED
  BY <1>4, <1>5, <1>6, <1>7, <1>8, <1>9 DEF Proceed

LEMMA NextTyped == Typed /\ [Next]_vars => Typed'
<1> SUFFICES ASSUME Typed, [Next]_vars PROVE Typed'
  OBVIOUS
<1>1. CASE Tick
  BY <1>1, ExchangeAssumption DEF Tick, cacheVars, bankVars, tbVars, Typed, Time
<1>2. ASSUME NEW x \in Rows, Publish(x) PROVE Typed'
  BY <1>2 DEF Publish, cacheVars, bankVars, tbVars, Typed
<1>3. ASSUME NEW r \in Requests,
             Submit(r) \/ Proceed(r) \/ LoadFails(r) \/ CommitFails(r) \/ DependencyFails(r) \/ Die(r)
      PROVE  Typed'
  BY <1>3, RateSteps, RatesTyped, BankTyped DEF Typed
<1>4. CASE UNCHANGED vars
  BY <1>4 DEF vars, cacheVars, bankVars, tbVars, Typed
<1> QED
  BY <1>1, <1>2, <1>3, <1>4 DEF Next

-----------------------------------------------------------------------------
(* Locks, counts and times. *)

\* The others stay as they are.
LEMMA OnlyOne ==
    ASSUME RateInv, NEW r \in Requests, RateStep(r)
    PROVE  /\ now' = now /\ since' = since /\ Published' = Published /\ now \in Nat
           /\ \A q \in Requests : q # r => /\ pc'[q] = pc[q] /\ Pair(q)' = Pair(q)
                                           /\ input'[q] = input[q] /\ quote'[q] = quote[q]
                                           /\ load'[q] = load[q] /\ Loading(q)' = Loading(q)
<1> USE DEF RateInv, Typed
<1>1. now' = now /\ since' = since /\ now \in Nat
  BY ExchangeAssumption DEF RateStep, NamedStep, HitStep, MissStep, ReadStep, FillStep, OtherStep, Time
<1>2. \A q \in Requests : q # r => pc'[q] = pc[q] /\ input'[q] = input[q]
  BY DEF RateStep, NamedStep, HitStep, MissStep, ReadStep, FillStep, OtherStep, Goes, Asks
<1>3. \A q \in Requests : q # r => quote'[q] = quote[q] /\ load'[q] = load[q]
  BY DEF RateStep, NamedStep, HitStep, MissStep, ReadStep, FillStep, OtherStep, EndLoad
<1> QED
  BY <1>1, <1>2, <1>3 DEF Published, Pair, Loading

LEMMA LockedKept ==
    ASSUME RateInv, NEW r \in Requests, RateStep(r)
    PROVE  Locked'
<1> USE DEF RateInv
<1>1. /\ \A q \in Requests : q # r => /\ pc'[q] = pc[q] /\ Pair(q)' = Pair(q) /\ Loading(q)' = Loading(q)
      /\ DOMAIN pc = Requests /\ DOMAIN lock = Pairs /\ DOMAIN cache = Pairs
      /\ lock \in [Pairs -> Requests \cup {NoRequest}] /\ NoRequest \notin Requests
  BY OnlyOne, ExchangeAssumption DEF Typed
<1>2. Asks(r) => ~Loading(r) /\ input'[r].pair \in Pairs /\ Pair(r)' = input'[r].pair
  BY InputShape DEF Asks, Loading, Pair
<1>3. \A p \in Pairs : lock[p] \in Requests => Loading(lock[p]) /\ Pair(lock[p]) = p /\ cache[p] = NoEntry
  BY <1>1 DEF Locked
<1>4. CASE NamedStep(r) \/ HitStep(r)
  <2>1. Loading(r)' = FALSE /\ ~Loading(r) /\ lock' = lock /\ cache' = cache
    BY <1>1, <1>2, <1>4 DEF NamedStep, HitStep, Goes, Loading
  <2> QED
    BY <1>1, <1>3, <2>1 DEF Locked
<1>5. CASE MissStep(r)
  <2> DEFINE p == input'[r].pair
  <2>1. /\ ~Loading(r) /\ p \in Pairs /\ Pair(r)' = p /\ cache'[p] = NoEntry
        /\ \A o \in Pairs : o # p => cache'[o] = cache[o]
    BY <1>1, <1>2, <1>5 DEF MissStep
  <2>2. CASE Goes(r, "lock") /\ lock' = lock
    <3>1. Loading(r)' = FALSE
      BY <1>1, <2>2 DEF Goes, Loading
    <3>2. \A o \in Pairs : lock[o] # NoRequest => cache'[o] = NoEntry
      BY <2>1 DEF Locked
    <3> QED
      BY <1>1, <1>3, <2>1, <2>2, <3>1, <3>2 DEF Locked
  <2>3. CASE lock[p] = NoRequest /\ Goes(r, "load") /\ lock' = [lock EXCEPT ![p] = r]
    <3>1. Loading(r)' = TRUE /\ lock'[p] = r /\ \A o \in Pairs : o # p => lock'[o] = lock[o] /\ lock[o] # r
      BY <1>1, <1>3, <2>1, <2>3 DEF Goes, Loading
    <3>2. \A q \in Requests : Loading(q)' => lock'[Pair(q)'] = q
      <4> SUFFICES ASSUME NEW q \in Requests, Loading(q)', q # r PROVE lock'[Pair(q)'] = q
        BY <2>1, <3>1
      <4>1. Loading(q) /\ Pair(q)' = Pair(q) /\ lock[Pair(q)] = q
        BY <1>1 DEF Locked
      <4>2. Pair(q) # p
        BY <1>1, <2>3, <4>1
      <4> QED
        BY <2>3, <4>1, <4>2
    <3>3. \A o \in Pairs : lock'[o] # NoRequest => pc'[lock'[o]] \in {"load", "loaded"} /\ cache'[o] = NoEntry
      BY <1>1, <1>3, <2>1, <3>1 DEF Locked, Loading
    <3>4. \A o \in Pairs : lock'[o] # NoRequest => (Pair(lock[o]) = o /\ o # p) \/ (lock'[o] = r /\ o = p)
      BY <1>1, <1>3, <2>1, <3>1
    <3>5. \A o \in Pairs : lock'[o] # NoRequest => input'[lock'[o]].pair = o
      BY <1>1, <1>3, <2>1, <3>1, <3>4 DEF Pair
    <3> QED
      BY <3>2, <3>3, <3>5 DEF Locked, Pair, Loading
  <2> QED
    BY <1>5, <2>2, <2>3 DEF MissStep
<1>6. CASE ReadStep(r)
  <2>1. Loading(r) /\ Loading(r)' /\ lock' = lock /\ cache' = cache /\ Pair(r)' = Pair(r)
    BY <1>1, <1>6 DEF ReadStep, Goes, Loading, Pair
  <2> QED
    BY <1>1, <1>3, <2>1 DEF Locked
<1>7. CASE FillStep(r) \/ OtherStep(r)
  <2>1. Loading(r)' = FALSE
    BY <1>1, <1>7 DEF FillStep, OtherStep, Goes, Loading
  <2>2. \A p \in Pairs : lock'[p] = IF lock[p] = r THEN NoRequest ELSE lock[p]
    BY <1>1, <1>3, <1>7 DEF FillStep, OtherStep, EndLoad
  <2>3. \A p \in Pairs : lock'[p] # NoRequest => lock[p] = lock'[p] /\ lock[p] # r /\ lock[p] \in Requests
    BY <1>1, <2>2
  <2>4. \A p \in Pairs : lock'[p] # NoRequest => cache'[p] = NoEntry
    <3> SUFFICES ASSUME NEW p \in Pairs, lock'[p] # NoRequest PROVE cache'[p] = NoEntry
      OBVIOUS
    <3>1. cache[p] = NoEntry
      BY <1>3, <2>3
    <3>2. CASE FillStep(r)
      <4>1. lock[Pair(r)] = r
        BY <3>2 DEF FillStep, Locked, Loading
      <4>2. p # Pair(r)
        BY <2>3, <4>1
      <4> QED
        BY <1>1, <3>1, <3>2, <4>2 DEF FillStep
    <3>3. CASE OtherStep(r)
      BY <3>1, <3>3 DEF OtherStep
    <3> QED
      BY <1>7, <3>2, <3>3
  <2>5. \A q \in Requests : Loading(q)' => lock'[Pair(q)'] = q
    <3> SUFFICES ASSUME NEW q \in Requests, Loading(q)' PROVE lock'[Pair(q)'] = q
      OBVIOUS
    <3>1. q # r /\ Loading(q) /\ Pair(q)' = Pair(q) /\ lock[Pair(q)] = q
      BY <1>1, <2>1 DEF Locked
    <3>2. Pair(q) \in Pairs
      BY <3>1, InputShape DEF Typed, Loading, Pair
    <3> QED
      BY <2>2, <3>1, <3>2
  <2>6. \A p \in Pairs : lock'[p] # NoRequest => pc'[lock'[p]] \in {"load", "loaded"} /\ input'[lock'[p]].pair = p
    BY <1>1, <1>3, <2>3 DEF Loading, Pair
  <2> QED
    BY <2>4, <2>5, <2>6 DEF Locked, Pair, Loading
<1> QED
  BY <1>4, <1>5, <1>6, <1>7 DEF RateStep

LEMMA TimedKept ==
    ASSUME RateInv, NEW r \in Requests, RateStep(r)
    PROVE  Timed'
<1>1. /\ now' = now /\ now \in Nat /\ MaxLoad \in Nat /\ DOMAIN pc = Requests /\ DOMAIN load = Requests
      /\ \A q \in Requests : q # r => load'[q] = load[q] /\ Loading(q)' = Loading(q)
  BY OnlyOne, ExchangeAssumption DEF RateInv, Typed
<1>2. \A q \in Requests : q # r /\ Loading(q)' => load'[q].began <= now /\ now <= load'[q].began + MaxLoad
  BY <1>1 DEF RateInv, Timed
<1>3. Loading(r)' => load'[r].began <= now /\ now <= load'[r].began + MaxLoad
  <2>1. CASE ReadStep(r)
    <3>1. Loading(r)
      BY <2>1 DEF ReadStep, Loading
    <3>2. load'[r].began = load[r].began
      BY <1>1, <2>1 DEF ReadStep, RateInv, Typed, Loads
    <3> QED
      BY <3>1, <3>2 DEF RateInv, Timed
  <2>2. CASE MissStep(r)
    BY <1>1, <2>2 DEF MissStep, Goes, Loading
  <2>3. CASE NamedStep(r) \/ HitStep(r) \/ FillStep(r) \/ OtherStep(r)
    BY <1>1, <2>3 DEF NamedStep, HitStep, FillStep, OtherStep, Goes, Loading
  <2> QED
    BY <2>1, <2>2, <2>3 DEF RateStep
<1> QED
  BY <1>1, <1>2, <1>3 DEF Timed

\* What is multiplied grows with it, and a quotient is what is left of it.
LEMMA Quotient ==
    ASSUME NEW n \in Nat, NEW k \in Nat, NEW d \in Nat \ {0}, k * d <= n + d
    PROVE  k <= 1 + n \div d
<1>1. n \div d \in Nat /\ n < (n \div d) * d + d
  OBVIOUS
<1>2. SUFFICES ASSUME k >= 2 + n \div d PROVE FALSE
  BY <1>1
<1>3. k * d >= (2 + n \div d) * d
  BY <1>1, <1>2
<1> QED
  BY <1>1, <1>3

LEMMA CountedKept ==
    ASSUME RateInv, NEW r \in Requests, RateStep(r)
    PROVE  Counted'
<1>1. /\ now' = now /\ now \in Nat /\ TTL \in Nat /\ loads \in [Pairs -> Nat]
      /\ cache \in [Pairs -> Entries \cup {NoEntry}]
  BY OnlyOne, ExchangeAssumption DEF RateInv, Typed
<1>2. \A p \in Pairs : cache[p] # NoEntry => cache[p].expires \in Nat
  BY <1>1 DEF Entries
<1>3. CASE NamedStep(r) \/ HitStep(r) \/ ReadStep(r) \/ OtherStep(r)
  BY <1>1, <1>3 DEF NamedStep, HitStep, ReadStep, OtherStep, RateInv, Counted
<1>4. CASE MissStep(r)
  <2> DEFINE p == input'[r].pair
  <2>1. /\ loads' = loads /\ \A o \in Pairs : o # p => cache'[o] = cache[o]
        /\ p \in Pairs => cache'[p] = NoEntry
    BY <1>1, <1>4 DEF MissStep
  <2>2. p \in Pairs => loads[p] * (TTL + 1) <= now
    <3> SUFFICES ASSUME p \in Pairs, cache[p] # NoEntry PROVE loads[p] * (TTL + 1) <= now
      BY DEF RateInv, Counted
    <3>1. now > cache[p].expires
      BY <1>1, <1>2, <1>4 DEF MissStep, Hit
    <3>2. loads[p] * (TTL + 1) <= cache[p].expires + 1 /\ loads[p] * (TTL + 1) \in Nat
      BY <1>1 DEF RateInv, Counted
    <3> QED
      BY <1>1, <1>2, <3>1, <3>2
  <2> QED
    BY <1>1, <2>1, <2>2 DEF RateInv, Counted
<1>5. CASE FillStep(r)
  <2> DEFINE p == Pair(r)
  <2>1. p \in Pairs /\ cache[p] = NoEntry
    BY <1>5, InputShape, ExchangeAssumption DEF FillStep, RateInv, Typed, Locked, Loading, Pair
  <2>2. /\ cache'[p] = [row |-> load[r].row, expires |-> now + TTL] /\ loads'[p] = loads[p] + 1
        /\ \A o \in Pairs : o # p => cache'[o] = cache[o] /\ loads'[o] = loads[o]
    BY <1>1, <1>5, <2>1 DEF FillStep
  <2>3. loads[p] * (TTL + 1) <= now /\ loads[p] \in Nat
    BY <1>1, <2>1 DEF RateInv, Counted
  <2>4. (loads[p] + 1) * (TTL + 1) = loads[p] * (TTL + 1) + TTL + 1
    BY <1>1, <2>3
  <2>5. loads'[p] * (TTL + 1) <= cache'[p].expires + 1 /\ cache'[p].expires <= now + TTL
    BY <1>1, <2>2, <2>3, <2>4
  <2>6. cache'[p] # NoEntry
    BY <2>1, <2>2, <1>1, <1>5, RatesAssumption DEF FillStep, Entries, RateInv, Typed, Loads
  <2> QED
    BY <1>1, <2>2, <2>5, <2>6 DEF RateInv, Counted
<1> QED
  BY <1>3, <1>4, <1>5 DEF RateStep

-----------------------------------------------------------------------------
(* The order of rates. *)

\* Best, after a step.
BestNext(p, row) ==
    /\ row \in Published /\ row.pair = p
    /\ \A q \in Requests :
          quote'[q] # NoQuote /\ quote'[q].row # NoRow /\ quote'[q].row.pair = p =>
              quote'[q].row.effective <= row.effective

LEMMA OrderedNext ==
    ASSUME Published' = Published, since' = since,
           \A p \in Pairs : cache'[p] # NoEntry =>
              /\ BestNext(p, cache'[p].row)
              /\ Since(p, cache'[p].row, cache'[p].expires - TTL - MaxLoad),
           \A q \in Requests : pc'[q] = "loaded" /\ load'[q].row # NoRow =>
              /\ BestNext(input'[q].pair, load'[q].row)
              /\ Since(input'[q].pair, load'[q].row, load'[q].began),
           \A q \in Requests : quote'[q] # NoQuote /\ quote'[q].row # NoRow =>
              quote'[q].row \in Published /\ quote'[q].row.pair = input'[q].pair,
           \A q \in Requests : pc'[q] = "new" => quote'[q] = NoQuote
    PROVE  Ordered'
  BY DEF Ordered, BestNext, Best, Since, OfBank, Pair

\* Nobody's rate changes, or r takes one that is no older than the rates it meets.
LEMMA BestKept ==
    ASSUME NEW r \in Requests, NEW p, NEW row, Best(p, row),
           \A q \in Requests : q # r => quote'[q] = quote[q],
           quote'[r] = quote[r] \/ quote'[r].row.pair # p \/ quote'[r].row = NoRow
           \/ quote'[r].row.effective <= row.effective
    PROVE  BestNext(p, row)
  BY DEF Best, BestNext, OfBank

LEMMA OrderedKept ==
    ASSUME RateInv, NEW r \in Requests, RateStep(r)
    PROVE  Ordered'
<1> USE DEF RateInv
<1>1. /\ now' = now /\ since' = since /\ Published' = Published /\ now \in Nat
      /\ \A q \in Requests : q # r =>
            /\ pc'[q] = pc[q] /\ input'[q] = input[q] /\ quote'[q] = quote[q] /\ load'[q] = load[q]
  BY OnlyOne
<1>2. /\ DOMAIN pc = Requests /\ DOMAIN input = Requests /\ DOMAIN quote = Requests
      /\ DOMAIN load = Requests /\ DOMAIN cache = Pairs
      /\ \A q \in Requests : pc[q] # "new" => Pair(q) \in Pairs
  BY InputShape DEF Typed, Pair
<1>3. \A p \in Pairs : cache[p] # NoEntry =>
         Best(p, cache[p].row) /\ Since(p, cache[p].row, cache[p].expires - TTL - MaxLoad)
  BY DEF Ordered
<1>4. \A q \in Requests : pc[q] = "loaded" /\ load[q].row # NoRow =>
         Best(input[q].pair, load[q].row) /\ Since(input[q].pair, load[q].row, load[q].began)
  BY DEF Ordered, Pair
<1>5. \A q \in Requests : quote[q] # NoQuote /\ quote[q].row # NoRow =>
         quote[q].row \in Published /\ quote[q].row.pair = input[q].pair
  BY DEF Ordered, OfBank, Pair
<1>6. \A q \in Requests : pc[q] = "new" => quote[q] = NoQuote
  BY DEF Ordered
<1>7. Asks(r) => ~Loading(r) /\ input'[r].pair \in Pairs
  BY InputShape DEF Asks, Loading
<1>8. CASE NamedStep(r)
  <2>1. /\ quote'[r].row = NoRow /\ cache' = cache /\ load' = load /\ pc'[r] = "validate"
    BY <1>2, <1>8 DEF NamedStep, Goes
  <2>2. \A p, row : Best(p, row) => BestNext(p, row)
    BY <1>1, <2>1, BestKept
  <2> QED
    BY <1>1, <1>3, <1>4, <1>5, <1>6, <2>1, <2>2, OrderedNext
<1>9. CASE HitStep(r)
  <2> DEFINE p == input'[r].pair
  <2>1. /\ quote'[r].row = cache[p].row /\ cache' = cache /\ load' = load /\ pc'[r] = "validate"
        /\ p \in Pairs /\ cache[p] # NoEntry
    BY <1>2, <1>7, <1>9 DEF HitStep, Goes, Hit
  <2>2. Best(p, cache[p].row)
    BY <1>3, <2>1
  <2>3. /\ cache[p].row \in Published /\ cache[p].row.pair = p /\ cache[p].row.effective \in Nat
    BY <2>2, RatesAssumption DEF Best, Published, RateRows
  <2>4. \A o \in Pairs : cache[o] # NoEntry => BestNext(o, cache[o].row)
    <3> SUFFICES ASSUME NEW o \in Pairs, cache[o] # NoEntry PROVE BestNext(o, cache[o].row)
      OBVIOUS
    <3>1. quote'[r].row.pair # o \/ quote'[r].row.effective <= cache[o].row.effective
      BY <2>1, <2>3
    <3> QED
      BY <1>1, <1>3, <3>1, BestKept
  <2>5. \A q \in Requests : pc'[q] = "loaded" /\ load[q].row # NoRow =>
           BestNext(input'[q].pair, load[q].row)
    <3> SUFFICES ASSUME NEW q \in Requests, pc'[q] = "loaded", load[q].row # NoRow
                 PROVE  BestNext(input'[q].pair, load[q].row)
      OBVIOUS
    <3>1. q # r /\ pc[q] = "loaded" /\ input'[q] = input[q]
      BY <1>1, <2>1
    <3>2. cache[input[q].pair] = NoEntry
      BY <1>2, <3>1, ExchangeAssumption DEF Locked, Loading, Pair
    <3>3. input[q].pair # p
      BY <2>1, <3>2
    <3> QED
      BY <1>1, <1>4, <2>1, <2>3, <3>1, <3>3, BestKept
  <2> QED
    BY <1>1, <1>3, <1>4, <1>5, <1>6, <2>1, <2>3, <2>4, <2>5, OrderedNext
<1>10. CASE MissStep(r)
  <2>1. /\ quote' = quote /\ pc'[r] # "loaded" /\ pc'[r] # "new"
        /\ \A o \in Pairs : cache'[o] # NoEntry => cache'[o] = cache[o]
    BY <1>2, <1>7, <1>10 DEF MissStep, Goes
  <2>2. \A p, row : Best(p, row) => BestNext(p, row)
    BY <1>1, <2>1, BestKept
  <2>3. quote[r] # NoQuote => pc[r] = "lock" /\ input'[r] = input[r]
    BY <1>6, <1>10 DEF MissStep, Asks
  <2> QED
    BY <1>1, <1>3, <1>4, <1>5, <1>6, <2>1, <2>2, <2>3, OrderedNext
<1>11. CASE ReadStep(r)
  <2>1. quote' = quote /\ cache' = cache /\ input' = input /\ pc'[r] = "loaded" /\ pc[r] = "load"
    BY <1>2, <1>11 DEF ReadStep, Goes
  <2>2. \A p, row : Best(p, row) => BestNext(p, row)
    BY <1>1, <2>1, BestKept
  <2>3. load'[r].row # NoRow => IsLatest(Pair(r), load'[r].row)
    BY <1>2, <1>11 DEF ReadStep, Typed, Loads
  <2>4. load'[r].row # NoRow => BestNext(input[r].pair, load'[r].row)
    BY <1>5, <2>1, <2>3 DEF IsLatest, BestNext, Pair
  <2>5. load'[r].row # NoRow => Since(input[r].pair, load'[r].row, load'[r].began)
    <3> SUFFICES ASSUME load'[r].row # NoRow, NEW x \in Published, x.pair = input[r].pair,
                        x.effective > load'[r].row.effective
                 PROVE  FALSE
      BY DEF Since
    <3>1. x.effective <= load'[r].row.effective /\ load'[r].row \in Published
      BY <2>3 DEF IsLatest, Pair
    <3>2. x.effective \in Nat /\ load'[r].row.effective \in Nat
      BY <3>1, RatesAssumption DEF Published, RateRows
    <3> QED
      BY <3>1, <3>2
  <2> QED
    BY <1>1, <1>3, <1>4, <1>5, <1>6, <2>1, <2>2, <2>4, <2>5, OrderedNext
<1>12. CASE FillStep(r)
  <2> DEFINE p == Pair(r)
             row == load[r].row
  <2>1. /\ pc[r] = "loaded" /\ row # NoRow /\ input' = input /\ pc'[r] = "validate" /\ p \in Pairs
        /\ quote'[r].row = row /\ cache'[p].row = row /\ cache'[p].expires = now + TTL
        /\ \A o \in Pairs : o # p => cache'[o] = cache[o]
    BY <1>2, <1>12 DEF FillStep, Goes
  <2>2. Best(p, row) /\ Since(p, row, load[r].began)
    BY <1>4, <2>1 DEF Pair
  <2>3. row \in Published /\ row.pair = p /\ row.effective \in Nat
    BY <2>2, RatesAssumption DEF Best, Published, RateRows
  <2>4. BestNext(p, row)
    BY <1>1, <2>1, <2>2, <2>3, BestKept
  <2>5. Since(p, row, cache'[p].expires - TTL - MaxLoad)
    <3>1. /\ now <= load[r].began + MaxLoad /\ load[r].began \in Nat /\ TTL \in Nat /\ MaxLoad \in Nat
      BY <2>1, ExchangeAssumption DEF Timed, Loading, Typed, Loads, Time
    <3>2. \A x \in Published : since[x] \in Nat
      BY ExchangeAssumption DEF Published, Typed, Time
    <3> QED
      BY <1>1, <2>1, <2>2, <3>1, <3>2 DEF Since
  <2>6. \A o \in Pairs : o # p /\ cache[o] # NoEntry => BestNext(o, cache[o].row)
    BY <1>1, <1>3, <2>1, <2>3, BestKept
  <2>7. \A q \in Requests : pc'[q] = "loaded" /\ load'[q].row # NoRow =>
           /\ BestNext(input[q].pair, load'[q].row)
           /\ Since(input[q].pair, load'[q].row, load'[q].began)
    <3> SUFFICES ASSUME NEW q \in Requests, pc'[q] = "loaded", load'[q].row # NoRow
                 PROVE  /\ BestNext(input[q].pair, load'[q].row)
                        /\ Since(input[q].pair, load'[q].row, load'[q].began)
      OBVIOUS
    <3>1. q # r /\ pc[q] = "loaded" /\ load'[q] = load[q]
      BY <1>1, <2>1
    <3>2. lock[Pair(q)] = q /\ lock[p] = r
      BY <2>1, <3>1 DEF Locked, Loading
    <3>3. input[q].pair # p
      BY <3>1, <3>2 DEF Pair
    <3>4. Best(input[q].pair, load[q].row) /\ Since(input[q].pair, load[q].row, load[q].began)
      BY <1>4, <3>1
    <3> QED
      BY <1>1, <2>1, <2>3, <3>1, <3>3, <3>4, BestKept
  <2>8. \A q \in Requests : quote'[q] # NoQuote /\ quote'[q].row # NoRow =>
           quote'[q].row \in Published /\ quote'[q].row.pair = input'[q].pair
    BY <1>1, <1>5, <2>1, <2>3 DEF Pair
  <2> QED
    BY <1>1, <1>3, <1>6, <2>1, <2>4, <2>5, <2>6, <2>7, <2>8, OrderedNext
<1>13. CASE OtherStep(r)
  <2>1. quote' = quote /\ cache' = cache /\ input' = input /\ pc'[r] \notin {"new", "loaded"}
    BY <1>2, <1>13 DEF OtherStep, Goes
  <2>2. \A p, row : Best(p, row) => BestNext(p, row)
    BY <1>1, <2>1, BestKept
  <2> QED
    BY <1>1, <1>3, <1>4, <1>5, <1>6, <2>1, <2>2, OrderedNext
<1> QED
  BY <1>8, <1>9, <1>10, <1>11, <1>12, <1>13 DEF RateStep

-----------------------------------------------------------------------------
(* The theorems about rates. *)

LEMMA InitRates == Init => RateInv
<1> SUFFICES ASSUME Init PROVE RateInv
  OBVIOUS
<1>1. Typed
  BY InitTyped
<1>2. Locked /\ Timed /\ Ordered
  BY DEF Init, Locked, Timed, Ordered, Loading, OfBank
<1>3. Counted
  <2>1. 0 * (TTL + 1) <= 0
    BY ExchangeAssumption
  <2> QED
    BY <2>1 DEF Init, Counted
<1> QED
  BY <1>1, <1>2, <1>3 DEF RateInv

LEMMA TickRates == ASSUME RateInv, Typed', Tick PROVE RateInv'
<1>1. /\ now' = now + 1 /\ now \in Nat /\ TTL \in Nat /\ MaxLoad \in Nat /\ MaxTime \in Nat
      /\ \A r \in Requests : Loading(r) => now < load[r].began + MaxLoad
      /\ cache' = cache /\ lock' = lock /\ load' = load /\ loads' = loads /\ since' = since
      /\ quote' = quote /\ input' = input /\ pc' = pc
  BY ExchangeAssumption DEF Tick, cacheVars, RateInv, Typed, Time
<1>2. Locked' /\ Ordered'
  BY <1>1 DEF RateInv, Locked, Ordered, Loading, Pair, Best, Since, OfBank, Published
<1>3. Timed'
  <2>1. \A r \in Requests : load[r].began \in Nat
    BY ExchangeAssumption DEF RateInv, Typed, Loads, Time
  <2> QED
    BY <1>1, <2>1 DEF RateInv, Timed, Loading
<1>4. Counted'
  <2>1. \A p \in Pairs : /\ loads[p] \in Nat /\ loads[p] * (TTL + 1) \in Nat
                         /\ cache[p] # NoEntry => cache[p].expires \in Nat
    BY <1>1 DEF RateInv, Typed, Entries
  <2> QED
    BY <1>1, <2>1 DEF RateInv, Counted
<1> QED
  BY <1>2, <1>3, <1>4 DEF RateInv

LEMMA PublishRates ==
    ASSUME RateInv, Typed', NEW x \in Rows, Publish(x)
    PROVE  RateInv'
<1>1. /\ now' = now /\ cache' = cache /\ lock' = lock /\ load' = load /\ loads' = loads
      /\ quote' = quote /\ input' = input /\ pc' = pc /\ now \in Nat
      /\ since' = [since EXCEPT ![x] = now] /\ x \notin Published /\ DOMAIN since = Rows
  BY ExchangeAssumption DEF Publish, cacheVars, RateInv, Typed, Time
<1>2. Locked' /\ Counted' /\ Timed'
  BY <1>1 DEF RateInv, Locked, Counted, Timed, Loading, Pair
<1>3. Published' = Published \cup {x} /\ \A y \in Published : since'[y] = since[y]
  BY <1>1, RatesAssumption DEF Published
<1>4. \A p, row, t : Since(p, row, t) /\ t <= now =>
         \A y \in Published' : y.pair = p /\ y.effective > row.effective => t <= since'[y]
  BY <1>1, <1>3 DEF Since
<1>5. \A p \in Pairs : cache[p] # NoEntry => cache[p].expires - TTL - MaxLoad <= now
  <2> SUFFICES ASSUME NEW p \in Pairs, cache[p] # NoEntry
               PROVE  cache[p].expires - TTL - MaxLoad <= now
    OBVIOUS
  <2>1. cache[p].expires <= now + TTL /\ cache[p].expires \in Nat /\ TTL \in Nat /\ MaxLoad \in Nat
    BY ExchangeAssumption DEF RateInv, Counted, Typed, Entries
  <2> QED
    BY <1>1, <2>1
<1>6. \A r \in Requests : pc[r] = "loaded" => load[r].began <= now
  BY DEF RateInv, Timed, Loading
<1>7. \A p \in Pairs : cache[p] # NoEntry =>
         Best(p, cache[p].row)
         /\ \A y \in Published' : y.pair = p /\ y.effective > cache[p].row.effective =>
               cache[p].expires - TTL - MaxLoad <= since'[y]
  BY <1>4, <1>5 DEF RateInv, Ordered
<1>8. \A r \in Requests : pc[r] = "loaded" /\ load[r].row # NoRow =>
         Best(Pair(r), load[r].row)
         /\ \A y \in Published' : y.pair = Pair(r) /\ y.effective > load[r].row.effective =>
               load[r].began <= since'[y]
  BY <1>4, <1>6 DEF RateInv, Ordered
<1>9. \A q \in Requests : /\ OfBank(q) => quote[q].row \in Published /\ quote[q].row.pair = Pair(q)
                          /\ pc[q] = "new" => quote[q] = NoQuote
  BY DEF RateInv, Ordered
<1>10. Ordered'
  BY <1>1, <1>3, <1>7, <1>8, <1>9 DEF Ordered, Best, Since, OfBank, Pair
<1> QED
  BY <1>2, <1>10 DEF RateInv

LEMMA RatesInductive == RateInv /\ [Next]_vars => RateInv'
<1> SUFFICES ASSUME RateInv, [Next]_vars PROVE RateInv'
  OBVIOUS
<1>1. Typed'
  BY NextTyped DEF RateInv
<1>2. CASE Tick
  BY <1>1, <1>2, TickRates
<1>3. ASSUME NEW x \in Rows, Publish(x) PROVE RateInv'
  BY <1>1, <1>3, PublishRates
<1>4. ASSUME NEW r \in Requests,
             Submit(r) \/ Proceed(r) \/ LoadFails(r) \/ CommitFails(r) \/ DependencyFails(r) \/ Die(r)
      PROVE  RateInv'
  <2>1. RateStep(r)
    BY <1>4, RateSteps DEF RateInv
  <2> QED
    BY <1>1, <2>1, LockedKept, CountedKept, TimedKept, OrderedKept DEF RateInv
<1>5. CASE UNCHANGED vars
  <2> USE <1>5 DEF vars, cacheVars
  <2>1. Locked' /\ Counted' /\ Timed'
    BY DEF RateInv, Locked, Counted, Timed, Loading, Pair
  <2>2. Ordered'
    BY DEF RateInv, Ordered, Best, Since, OfBank, Pair, Published
  <2> QED
    BY <1>1, <2>1, <2>2 DEF RateInv
<1> QED
  BY <1>2, <1>3, <1>4, <1>5 DEF Next

\* However many requests miss the cache of a pair together, however slow or mortal its
\* loaders are, it is filled once in TTL.
THEOREM StampedeProtectedCorrect == Spec => []StampedeProtected
<1>1. RateInv => StampedeProtected
  <2> SUFFICES ASSUME RateInv, NEW p \in Pairs PROVE loads[p] <= 1 + now \div (TTL + 1)
    BY DEF StampedeProtected
  <2>1. now \in Nat /\ TTL + 1 \in Nat \ {0} /\ loads[p] \in Nat /\ loads[p] * (TTL + 1) \in Nat
    BY ExchangeAssumption DEF RateInv, Typed, Time
  <2>2. cache[p] # NoEntry => cache[p].expires \in Nat
    BY DEF RateInv, Typed, Entries
  <2>3. loads[p] * (TTL + 1) <= now + (TTL + 1)
    BY <2>1, <2>2, ExchangeAssumption DEF RateInv, Counted
  <2> QED
    BY <2>1, <2>3, Quotient
<1> QED
  BY <1>1, InitRates, RatesInductive, PTL DEF Spec

\* Who takes a rate of the bank takes it from the cache, or has just loaded it.
LEMMA TakesBest ==
    ASSUME RateInv, [Next]_vars, NEW r \in Requests, Takes(r)
    PROVE  /\ \A q \in Requests : OfBank(q) /\ quote[q].row.pair = quote'[r].row.pair =>
                  quote[q].row.effective <= quote'[r].row.effective
           /\ quote'[r].row \in Published
           /\ \A x \in Published :
                  x.pair = quote'[r].row.pair /\ x.effective > quote'[r].row.effective =>
                      now <= since[x] + TTL + MaxLoad
<1> DEFINE row == quote'[r].row
<1>0. /\ now \in Nat /\ TTL \in Nat /\ MaxLoad \in Nat /\ \A x \in Published : since[x] \in Nat
  BY ExchangeAssumption DEF RateInv, Typed, Time, Published
<1>1. quote'[r] # quote[r] /\ row # NoRow
  BY DEF Takes
<1>2. PICK s \in Requests : RateStep(s)
  BY <1>1, RateSteps DEF RateInv, Next, Tick, Publish, cacheVars, vars
<1>3. s = r
  BY <1>1, <1>2, OnlyOne
<1>4. CASE HitStep(r)
  <2> DEFINE p == input'[r].pair
  <2>1. p \in Pairs /\ row = cache[p].row /\ cache[p] # NoEntry /\ now <= cache[p].expires
    BY <1>4, InputShape DEF HitStep, Asks, Hit, RateInv, Typed
  <2>2. Best(p, row) /\ Since(p, row, cache[p].expires - TTL - MaxLoad) /\ cache[p].expires \in Nat
    BY <2>1 DEF RateInv, Ordered, Typed, Entries
  <2>3. \A x \in Published : x.pair = p /\ x.effective > row.effective => now <= since[x] + TTL + MaxLoad
    BY <1>0, <2>1, <2>2 DEF Since
  <2> QED
    BY <2>2, <2>3 DEF Best
<1>5. CASE FillStep(r)
  <2>1. pc[r] = "loaded" /\ row = load[r].row
    BY <1>5 DEF FillStep, RateInv, Typed
  <2>2. Best(Pair(r), row) /\ Since(Pair(r), row, load[r].began)
    BY <1>1, <2>1 DEF RateInv, Ordered
  <2>3. now <= load[r].began + MaxLoad /\ load[r].began \in Nat
    BY <2>1, ExchangeAssumption DEF RateInv, Timed, Loading, Typed, Loads, Time
  <2>4. \A x \in Published : x.pair = Pair(r) /\ x.effective > row.effective =>
           now <= since[x] + TTL + MaxLoad
    BY <1>0, <2>2, <2>3 DEF Since
  <2> QED
    BY <2>2, <2>4 DEF Best
<1>6. CASE NamedStep(r)
  BY <1>1, <1>6 DEF NamedStep, RateInv, Typed
<1>7. CASE MissStep(r) \/ ReadStep(r) \/ OtherStep(r)
  BY <1>1, <1>7 DEF MissStep, ReadStep, OtherStep
<1> QED
  BY <1>2, <1>3, <1>4, <1>5, <1>6, <1>7 DEF RateStep

\* No rate is taken that was replaced longer ago than TTL and the time of a load.
THEOREM RatesFreshCorrect == Spec => RatesFresh
<1>1. RateInv /\ [Next]_vars =>
        [\A r \in Requests : Takes(r) =>
            \A x \in Published :
                x.pair = quote'[r].row.pair /\ x.effective > quote'[r].row.effective =>
                    now <= since[x] + TTL + MaxLoad]_vars
  BY TakesBest
<1> QED
  BY <1>1, InitRates, RatesInductive, PTL DEF Spec, RatesFresh

\* No rate is taken that is older than one taken before, whoever loads when.
THEOREM RatesInOrderCorrect == Spec => RatesInOrder
<1>1. RateInv /\ [Next]_vars =>
        [\A q, r \in Requests :
           /\ quote[q] # NoQuote /\ quote[q].row # NoRow
           /\ Takes(r) /\ quote'[r].row.pair = quote[q].row.pair
           => quote'[r].row.effective >= quote[q].row.effective]_vars
  <2> SUFFICES ASSUME RateInv, [Next]_vars, NEW q \in Requests, NEW r \in Requests,
                      OfBank(q), Takes(r), quote'[r].row.pair = quote[q].row.pair
               PROVE  quote'[r].row.effective >= quote[q].row.effective
    BY DEF OfBank
  <2>1. quote[q].row.effective <= quote'[r].row.effective
    BY TakesBest
  <2>2. quote[q].row \in Published /\ quote'[r].row \in Published
    BY TakesBest DEF RateInv, Ordered
  <2>3. quote[q].row.effective \in Nat /\ quote'[r].row.effective \in Nat
    BY <2>2, RatesAssumption DEF Published, RateRows
  <2> QED
    BY <2>1, <2>3
<1> QED
  BY <1>1, InitRates, RatesInductive, PTL DEF Spec, RatesInOrder

-----------------------------------------------------------------------------
(* What clients are told. *)

\* Both legs are executed by the time they are recorded, and none before they are sent.
AnswerInv ==
    /\ \A r \in Requests :
          /\ pc[r] \in {"new", "lock", "load", "loaded", "validate", "execute"} => posted[r] = {}
          /\ pc[r] \in {"record", "commit"} => posted[r] = Legs
          /\ pc[r] # "commit" => noted[r] = {}
          /\ pc[r] # "done" => reply[r] = "none"
          /\ pc[r] \in {"validate", "execute", "record", "commit"} \/ reply[r] = "posted" =>
                quote[r] # NoQuote /\ (quote[r].row # NoRow \/ quote[r].rate = input[r].rate)
    /\ \A m \in metadata : m[2] \in posted[m[1]]
    /\ \A r \in Requests :
          /\ reply[r] = "posted" => posted[r] = Legs
          /\ reply[r] \in Refusals => posted[r] = {}
          /\ reply[r] = "ValueError" => posted[r] # Legs

LEMMA AnswersKept ==
    ASSUME RateInv, AnswerInv, NEW r \in Requests,
           Submit(r) \/ Proceed(r) \/ LoadFails(r) \/ CommitFails(r) \/ DependencyFails(r) \/ Die(r)
    PROVE  AnswerInv'
<1>0. /\ pc \in [Requests -> Phases] /\ reply \in [Requests -> Replies]
      /\ posted \in [Requests -> SUBSET Legs] /\ noted \in [Requests -> SUBSET Legs]
      /\ DOMAIN quote = Requests /\ DOMAIN input = Requests
      /\ metadata \subseteq Requests \X Legs
      /\ \A q \in Quotes : q # NoQuote
  BY RatesAssumption DEF RateInv, Typed
<1>1. RateStep(r)
  BY RateSteps DEF RateInv
<1>2. \A q \in Requests : q # r => /\ pc'[q] = pc[q] /\ input'[q] = input[q] /\ quote'[q] = quote[q]
  BY <1>1, OnlyOne
<1>3. CASE Submit(r) \/ AcquireLock(r) \/ ReadLatest(r) \/ FinishLoad(r) \/ LoadFails(r)
  <2>1. pc[r] \in {"new", "lock", "load", "loaded"}
    BY <1>3 DEF Submit, AcquireLock, ReadLatest, FinishLoad, LoadFails, Loading
  <2>2. posted' = posted /\ noted' = noted /\ metadata' = metadata /\ posted[r] = {} /\ noted[r] = {}
    BY <1>3, <2>1 DEF Submit, AcquireLock, ReadLatest, FinishLoad, LoadFails, bankVars, tbVars, AnswerInv
  <2>3. \/ pc'[r] \in {"lock", "load", "loaded", "validate"} /\ reply' = reply
        \/ pc'[r] = "done" /\ reply' = [reply EXCEPT ![r] = "ErrNotFound"]
    BY <1>0, <1>3 DEF Submit, AcquireLock, ReadLatest, FinishLoad, LoadFails, GoTo, EndWith, BeginLoad
  <2>4. pc'[r] = "validate" =>
           quote'[r] # NoQuote /\ (quote'[r].row # NoRow \/ quote'[r].rate = input'[r].rate)
    <3>1. NamedStep(r) => quote'[r] \in Quotes /\ quote'[r].rate = input'[r].rate
      BY <1>0, InputShape DEF NamedStep, Asks, Quotes
    <3>2. HitStep(r) => cache[input'[r].pair] \in Entries /\ NoRow \notin Rows
      BY InputShape, RatesAssumption DEF HitStep, Hit, Asks, RateInv, Typed
    <3>3. HitStep(r) => quote'[r] \in Quotes /\ quote'[r].row # NoRow
      BY <1>0, <3>2, RatesAssumption DEF HitStep, Quotes, Entries, RateRows
    <3>4. FillStep(r) => load[r].row \in Rows /\ NoRow \notin Rows
      BY RatesAssumption DEF FillStep, RateInv, Typed, Loads
    <3>5. FillStep(r) => quote'[r] \in Quotes /\ quote'[r].row # NoRow
      BY <1>0, <3>4, RatesAssumption DEF FillStep, Quotes, RateRows
    <3>6. MissStep(r) \/ ReadStep(r) \/ OtherStep(r) => pc'[r] # "validate"
      BY <1>0 DEF MissStep, ReadStep, OtherStep, Goes
    <3> QED
      BY <1>0, <1>1, <3>1, <3>3, <3>5, <3>6 DEF RateStep
  <2> QED
    BY <1>0, <1>2, <2>1, <2>2, <2>3, <2>4 DEF AnswerInv
<1>4. CASE Validate(r) \/ DependencyFails(r)
  <2>1. Refusal(input[r]) = "none" \/ Refusal(input[r]) \in Refusals
    BY DEF Refusal, StatusRefusal, Refusals
  <2>2. /\ pc[r] = "validate" /\ posted' = posted /\ noted' = noted /\ metadata' = metadata
        /\ quote' = quote /\ input' = input
    BY <1>4 DEF Validate, DependencyFails, bankVars, tbVars
  <2>3. \/ pc'[r] = "execute" /\ reply' = reply
        \/ pc'[r] = "done" /\ \E a \in Refusals : reply' = [reply EXCEPT ![r] = a]
    BY <1>0, <1>4, <2>1 DEF Validate, DependencyFails, GoTo, EndWith, Refusals
  <2>4. "posted" \notin Refusals /\ "ValueError" \notin Refusals
    BY DEF Refusals
  <2> QED
    BY <1>0, <1>2, <2>2, <2>3, <2>4 DEF AnswerInv
<1>5. CASE ExecuteTb(r)
  <2>1. /\ pc[r] = "execute" /\ posted' = [posted EXCEPT ![r] = Outcome(r)]
        /\ noted' = noted /\ metadata' = metadata /\ quote' = quote /\ input' = input
    BY <1>5 DEF ExecuteTb, TbApply
  <2>2. \/ pc'[r] = "record" /\ reply' = reply /\ Outcome(r) = Legs
        \/ pc'[r] = "done" /\ reply' = [reply EXCEPT ![r] = "ValueError"] /\ Outcome(r) # Legs
    BY <1>0, <1>5, <2>1 DEF ExecuteTb, GoTo, EndWith
  <2>3. \A m \in metadata : m[2] \in posted'[m[1]]
    BY <1>0, <2>1 DEF AnswerInv
  <2> QED
    BY <1>0, <1>2, <2>1, <2>2, <2>3 DEF AnswerInv, Refusals
<1>6. CASE WriteMetadata(r)
  <2>1. /\ pc[r] = "record" /\ pc'[r] = "commit" /\ reply' = reply /\ posted' = posted
        /\ metadata' = metadata /\ quote' = quote /\ input' = input
        /\ \A q \in Requests : q # r => noted'[q] = noted[q]
    BY <1>0, <1>6 DEF WriteMetadata, GoTo, tbVars
  <2> QED
    BY <1>0, <1>2, <2>1 DEF AnswerInv
<1>7. CASE Commit(r) \/ CommitFails(r)
  <2>1. /\ pc[r] = "commit" /\ pc'[r] = "done" /\ posted' = posted /\ quote' = quote /\ input' = input
        /\ metadata' \subseteq metadata \cup MetadataOf(r) /\ noted' = [noted EXCEPT ![r] = {}]
    BY <1>0, <1>7 DEF Commit, CommitFails, EndWith, Forget, tbVars
  <2>2. \E a \in {"posted", "CommitError"} : reply' = [reply EXCEPT ![r] = a]
    BY <1>7 DEF Commit, CommitFails, EndWith
  <2>3. \A m \in MetadataOf(r) : m[2] \in posted[m[1]]
    BY <1>0, <2>1 DEF MetadataOf, AnswerInv
  <2> QED
    BY <1>0, <1>2, <2>1, <2>2, <2>3 DEF AnswerInv, Refusals
<1>8. CASE Die(r)
  <2>1. /\ pc[r] \notin {"new", "done"} /\ pc'[r] = "done" /\ reply' = reply /\ metadata' = metadata
        /\ quote' = quote /\ input' = input /\ noted' = [noted EXCEPT ![r] = {}]
        /\ posted' = posted \/ (pc[r] = "execute" /\ posted' = [posted EXCEPT ![r] = Outcome(r)])
    BY <1>0, <1>8 DEF Die, Live, Forget, TbApply, tbVars
  <2>2. \A m \in metadata : m[2] \in posted'[m[1]]
    BY <1>0, <2>1 DEF AnswerInv
  <2> QED
    BY <1>0, <1>2, <2>1, <2>2 DEF AnswerInv, Refusals
<1> QED
  BY <1>3, <1>4, <1>5, <1>6, <1>7, <1>8 DEF Proceed

LEMMA AnswersInductive == RateInv /\ AnswerInv /\ [Next]_vars => AnswerInv'
<1> SUFFICES ASSUME RateInv, AnswerInv, [Next]_vars PROVE AnswerInv'
  OBVIOUS
<1>1. CASE Tick \/ (\E x \in Rows : Publish(x)) \/ UNCHANGED vars
  BY <1>1 DEF Tick, Publish, vars, bankVars, tbVars, AnswerInv
<1>2. ASSUME NEW r \in Requests,
             Submit(r) \/ Proceed(r) \/ LoadFails(r) \/ CommitFails(r) \/ DependencyFails(r) \/ Die(r)
      PROVE  AnswerInv'
  BY <1>2, AnswersKept
<1> QED
  BY <1>1, <1>2 DEF Next

\* "posted" means both legs, at a rate that was named or published; a refusal by name
\* means none, and a TigerBeetle error not both; and what transfer_metadata has was
\* executed (FXService.exchange).
THEOREM AnswersTruthfulCorrect == Spec => []AnswersTruthful
<1>1. Init => AnswerInv
  BY DEF Init, AnswerInv, Refusals
<1>2. RateInv /\ AnswerInv => AnswersTruthful
  BY DEF RateInv, Ordered, OfBank, AnswerInv, AnswersTruthful
<1> QED
  BY <1>1, <1>2, InitRates, RatesInductive, AnswersInductive, PTL DEF Spec

-----------------------------------------------------------------------------
(* Powers of ten. *)

\* Induction, for a set of numbers.
LEMMA SetInduction ==
    ASSUME NEW S, 0 \in S, \A k \in Nat : k \in S => k + 1 \in S
    PROVE  Nat \subseteq S
<1> DEFINE R == {pair \in Nat \X Nat : pair[1] < pair[2]}
<1> DEFINE T == Nat \ S
<1> SUFFICES ASSUME T # {} PROVE FALSE
  OBVIOUS
<1>1. IsWellFoundedOn(R, Nat)
  BY NatLessThanWellFounded DEF OpToRel
<1>2. T \subseteq Nat
  OBVIOUS
<1>3. PICK n \in T : \A m \in T : <<m, n>> \notin R
  <2> HIDE DEF R, T
  <2> QED
    BY <1>1, <1>2, WFMin
<1>4. n \in Nat /\ n # 0 /\ n - 1 \in Nat /\ n - 1 + 1 = n
  OBVIOUS
<1>5. n - 1 \in T
  BY <1>4
<1>6. <<n - 1, n>> \in R
  BY <1>4
<1> QED
  BY <1>3, <1>5, <1>6

\* The powers up to 10^k.
Powers(k) == {f \in [0 .. k -> Nat \ {0}] : f[0] = 1 /\ \A n \in 1 .. k : f[n] = 10 * f[n - 1]}

LEMMA PowersExist == \A k \in Nat : Powers(k) # {}
<1> DEFINE S == {k \in Nat : Powers(k) # {}}
<1>1. 0 \in S
  <2>1. [n \in 0 .. 0 |-> 1] \in Powers(0)
    BY DEF Powers
  <2> QED
    BY <2>1
<1>2. ASSUME NEW k \in Nat, k \in S PROVE k + 1 \in S
  <2>1. PICK f : f \in Powers(k)
    BY <1>2
  <2> DEFINE g == [n \in 0 .. k + 1 |-> IF n = k + 1 THEN 10 * f[k] ELSE f[n]]
  <2>2. f[k] \in Nat \ {0} /\ \A n \in 0 .. k + 1 : n # k + 1 => n \in 0 .. k
    BY <2>1 DEF Powers
  <2>3. g \in [0 .. k + 1 -> Nat \ {0}] /\ g[0] = 1
    BY <2>1, <2>2 DEF Powers
  <2>4. ASSUME NEW n \in 1 .. k + 1 PROVE g[n] = 10 * g[n - 1]
    <3>1. n - 1 \in 0 .. k /\ g[n - 1] = f[n - 1]
      OBVIOUS
    <3> QED
      BY <2>1, <3>1 DEF Powers
  <2>5. g \in Powers(k + 1)
    BY <2>3, <2>4 DEF Powers
  <2> QED
    BY <2>5
<1> HIDE DEF S
<1>3. Nat \subseteq S
  BY <1>1, <1>2, SetInduction
<1> QED
  BY <1>3 DEF S

LEMMA PowersAgree ==
    ASSUME NEW k \in Nat, NEW m \in Nat, NEW f \in Powers(k), NEW g \in Powers(m)
    PROVE  \A n \in Nat : n <= k /\ n <= m => f[n] = g[n]
<1> DEFINE S == {n \in Nat : n <= k /\ n <= m => f[n] = g[n]}
<1>1. 0 \in S
  BY DEF Powers
<1>2. ASSUME NEW n \in Nat, n \in S PROVE n + 1 \in S
  <2> SUFFICES ASSUME n + 1 <= k, n + 1 <= m PROVE f[n + 1] = g[n + 1]
    OBVIOUS
  <2>1. n + 1 \in 1 .. k /\ n + 1 \in 1 .. m /\ n + 1 - 1 = n /\ f[n] = g[n]
    BY <1>2
  <2>2. f[n + 1] = 10 * f[n + 1 - 1] /\ g[n + 1] = 10 * g[n + 1 - 1]
    BY <2>1 DEF Powers
  <2> QED
    BY <2>1, <2>2
<1> HIDE DEF S
<1>3. Nat \subseteq S
  BY <1>1, <1>2, SetInduction
<1> QED
  BY <1>3 DEF S

LEMMA TensDefined ==
    /\ Tens \in [Nat -> Nat \ {0}] /\ Tens[0] = 1
    /\ \A k \in Nat : Tens[k + 1] = 10 * Tens[k]
<1> DEFINE best(k) == CHOOSE f : f \in Powers(k)
<1> DEFINE g == [k \in Nat |-> best(k)[k]]
<1>1. \A k \in Nat : best(k) \in Powers(k)
  BY PowersExist
<1> HIDE DEF best
<1>2. ASSUME NEW k \in Nat PROVE g[k] \in Nat \ {0} /\ g[k] = IF k = 0 THEN 1 ELSE 10 * g[k - 1]
  <2>1. best(k)[k] \in Nat \ {0} /\ (k = 0 => best(k)[k] = 1)
    BY <1>1 DEF Powers
  <2>2. ASSUME k # 0 PROVE best(k)[k] = 10 * best(k - 1)[k - 1]
    <3>1. k - 1 \in Nat /\ k \in 1 .. k /\ k - 1 <= k
      BY <2>2
    <3>2. best(k)[k] = 10 * best(k)[k - 1]
      BY <1>1, <3>1 DEF Powers
    <3>3. best(k)[k - 1] = best(k - 1)[k - 1]
      BY <1>1, <3>1, PowersAgree
    <3> QED
      BY <3>2, <3>3
  <2> QED
    BY <2>1, <2>2
<1>3. g = [k \in Nat |-> IF k = 0 THEN 1 ELSE 10 * g[k - 1]]
  <2>1. \A k \in Nat : g[k] = IF k = 0 THEN 1 ELSE 10 * g[k - 1]
    BY <1>2
  <2> HIDE DEF g
  <2>2. g = [k \in Nat |-> g[k]]
    BY DEF g
  <2> QED
    BY <2>1, <2>2
<1> HIDE DEF g
<1>4. Tens = [k \in Nat |-> IF k = 0 THEN 1 ELSE 10 * Tens[k - 1]]
  BY <1>3 DEF Tens
<1>5. Tens[0] = 1 /\ \A k \in Nat : Tens[k + 1] = 10 * Tens[k]
  <2>1. \A k \in Nat : Tens[k] = IF k = 0 THEN 1 ELSE 10 * Tens[k - 1]
    BY <1>4, Zenon
  <2> QED
    BY <2>1
<1> DEFINE S == {k \in Nat : Tens[k] \in Nat \ {0}}
<1>6. 0 \in S /\ \A k \in Nat : k \in S => k + 1 \in S
  BY <1>5
<1> HIDE DEF S
<1>7. Nat \subseteq S
  BY <1>6, SetInduction
<1> QED
  BY <1>4, <1>5, <1>7 DEF S

\* 10^(m + n) = 10^m * 10^n.
LEMMA TensAdd == \A m, n \in Nat : Tens[m + n] = Tens[m] * Tens[n]
<1> SUFFICES ASSUME NEW m \in Nat PROVE \A n \in Nat : Tens[m + n] = Tens[m] * Tens[n]
  OBVIOUS
<1> DEFINE S == {n \in Nat : Tens[m + n] = Tens[m] * Tens[n]}
<1>1. 0 \in S
  BY TensDefined
<1>2. ASSUME NEW n \in Nat, n \in S PROVE n + 1 \in S
  <2>1. Tens[m + (n + 1)] = 10 * Tens[m + n] /\ Tens[n + 1] = 10 * Tens[n]
    <3>1. m + (n + 1) = (m + n) + 1 /\ m + n \in Nat
      OBVIOUS
    <3> QED
      BY <3>1, TensDefined
  <2>2. \A x, y \in Nat : 10 * (x * y) = x * (10 * y)
    OBVIOUS
  <2> QED
    BY <1>2, <2>1, <2>2, TensDefined
<1> HIDE DEF S
<1>3. Nat \subseteq S
  BY <1>1, <1>2, SetInduction
<1> QED
  BY <1>3 DEF S

-----------------------------------------------------------------------------
(* Amounts. *)

\* Half up: x is divided by T to within half of T.
LEMMA HalfUp ==
    ASSUME NEW x \in Nat, NEW T \in Nat \ {0}
    PROVE  LET q == (x + T \div 2) \div T
           IN q \in Nat /\ -T <= 2 * (x - q * T) /\ 2 * (x - q * T) <= T
<1> DEFINE h == T \div 2
<1> DEFINE q == (x + h) \div T
<1>1. h \in Nat /\ 2 * h <= T /\ T <= 2 * h + 1
  OBVIOUS
<1> HIDE DEF h
<1>2. q \in Nat /\ q * T <= x + h /\ x + h < q * T + T
  BY <1>1
<1> HIDE DEF q
<1> DEFINE z == q * T
<1>3. z \in Nat
  BY <1>2
<1> HIDE DEF z
<1>4. z <= x + h /\ x + h < z + T
  BY <1>2 DEF z
<1>5. -T <= 2 * (x - z) /\ 2 * (x - z) <= T
  BY <1>1, <1>3, <1>4
<1> QED
  BY <1>2, <1>5 DEF h, q, z

\* The same in units B times as small.
LEMMA HalfUpScaled ==
    ASSUME NEW x \in Nat, NEW q \in Nat, NEW T \in Nat \ {0}, NEW B \in Nat \ {0},
           -T <= 2 * (x - q * T), 2 * (x - q * T) <= T
    PROVE  -(T * B) <= 2 * (x * B - q * (T * B)) /\ 2 * (x * B - q * (T * B)) <= T * B
<1> DEFINE z == 2 * (x - q * T)
<1>1. z \in Int /\ -T <= z /\ z <= T
  OBVIOUS
<1>2. 2 * (x * B - q * (T * B)) = z * B
  OBVIOUS
<1> HIDE DEF z
<1>3. z * B <= T * B
  BY <1>1
<1>4. (-T) * B <= z * B
  BY <1>1
<1>5. (-T) * B = -(T * B)
  OBVIOUS
<1> QED
  BY <1>2, <1>3, <1>4, <1>5

\* What is bought for n units at an integer rate is a number of units, and worth what is
\* sold to within half a unit.
LEMMA BuyAmountFair ==
    ASSUME NEW p \in Pairs, NEW n \in Nat, NEW rate \in Nat
    PROVE  LET unit == Tens[Scale[p[1]] + RateScale]
               owed == n * rate * Tens[Scale[p[2]]]
               paid == BuyAmount(p, n, rate) * unit
           IN /\ BuyAmount(p, n, rate) \in Nat
              /\ -unit <= 2 * (owed - paid) /\ 2 * (owed - paid) <= unit
<1> DEFINE s == Scale[p[1]] + RateScale
<1> DEFINE b == Scale[p[2]]
<1> DEFINE x == n * rate
<1>1. s \in Nat /\ b \in Nat /\ x \in Nat /\ Scale[p[1]] + RateScale - Scale[p[2]] = s - b
  BY ExchangeAssumption DEF Pairs
<1> DEFINE Bought(k) == IF k > 0 THEN (x + Tens[k] \div 2) \div Tens[k] ELSE x * Tens[-k]
<1>0. BuyAmount(p, n, rate) = Bought(s - b)
  <2>1. BuyAmount(p, n, rate) = Bought(Scale[p[1]] + RateScale - Scale[p[2]])
    BY Zenon DEF BuyAmount
  <2> QED
    BY <1>1, <2>1, Zenon
<1>2. \A k \in Nat : Tens[k] \in Nat \ {0}
  BY TensDefined
<1>3. CASE s - b > 0
  <2> DEFINE T == Tens[s - b]
  <2> DEFINE q == (x + T \div 2) \div T
  <2>1. s - b \in Nat /\ T \in Nat \ {0} /\ Tens[b] \in Nat \ {0}
    BY <1>1, <1>2, <1>3
  <2>2. BuyAmount(p, n, rate) = q
    BY <1>0, <1>3
  <2>3. Tens[s] = T * Tens[b]
    <3>1. s = (s - b) + b
      BY <1>1
    <3> HIDE DEF s, b
    <3> QED
      BY <1>1, <2>1, <3>1, TensAdd
  <2> HIDE DEF T, s, b, x
  <2>4. q \in Nat /\ -T <= 2 * (x - q * T) /\ 2 * (x - q * T) <= T
    BY <1>1, <2>1, HalfUp
  <2> HIDE DEF q
  <2>5. /\ -(T * Tens[b]) <= 2 * (x * Tens[b] - q * (T * Tens[b]))
        /\ 2 * (x * Tens[b] - q * (T * Tens[b])) <= T * Tens[b]
    BY <1>1, <2>1, <2>4, HalfUpScaled
  <2> QED
    BY <2>2, <2>3, <2>4, <2>5 DEF s, b, x
<1>4. CASE ~(s - b > 0)
  <2> DEFINE T == Tens[-(s - b)]
  <2>1. -(s - b) \in Nat /\ T \in Nat \ {0} /\ Tens[s] \in Nat \ {0}
    BY <1>1, <1>2, <1>4
  <2>2. BuyAmount(p, n, rate) = x * T
    BY <1>0, <1>4
  <2>3. Tens[b] = Tens[s] * T
    <3>1. b = s + (-(s - b))
      BY <1>1
    <3> HIDE DEF s, b
    <3> QED
      BY <1>1, <2>1, <3>1, TensAdd
  <2> HIDE DEF T, s, b, x
  <2>4. x * T \in Nat /\ x * (Tens[s] * T) = x * T * Tens[s]
    BY <1>1, <2>1
  <2>5. x * Tens[b] - x * T * Tens[s] = 0
    BY <1>1, <2>1, <2>3, <2>4
  <2>6. -Tens[s] <= 2 * 0 /\ 2 * 0 <= Tens[s]
    BY <2>1
  <2> QED
    BY <2>2, <2>4, <2>5, <2>6 DEF s, b, x
<1> QED
  BY <1>3, <1>4

LEMMA AmountNatural ==
    ASSUME Typed, NEW r \in Requests, input[r] \in Inputs, quote[r] # NoQuote, NEW leg
    PROVE  Amount(r, leg) \in Nat
<1>1. Pair(r) \in Pairs /\ input[r].amount \in Nat
  BY ExchangeAssumption DEF InputRecords, Pair
<1>2. quote[r].rate \in Nat
  BY DEF Typed, Quotes
<1>3. BuyAmount(Pair(r), input[r].amount, quote[r].rate) \in Nat
  BY <1>1, <1>2, BuyAmountFair
<1> QED
  BY <1>1, <1>3 DEF Amount

-----------------------------------------------------------------------------
(* The book. *)

\* Who has sent its legs has a rate, and is paid what they amount to at that rate.
Settled ==
    /\ book \in Books
    /\ moved \in [Requests -> [Legs -> Nat]]
    /\ \A r \in Requests : posted[r] # {} => quote[r] # NoQuote /\ input[r] \in Inputs
    /\ \A r \in Requests : "buy" \in posted[r] => moved[r]["buy"] = Amount(r, "buy")

\* Nothing is executed, and who has sent its legs keeps its input and its rate.
Quiet ==
    /\ UNCHANGED <<book, posted, moved>>
    /\ \A q \in Requests : posted[q] # {} => input'[q] = input[q] /\ quote'[q] = quote[q]

\* TigerBeetle takes the batch of r.
Settles(r) ==
    /\ quote[r] # NoQuote /\ input[r] \in Inputs
    /\ TbApply(r)
    /\ UNCHANGED <<input, quote>>

LEMMA Settlement ==
    ASSUME RateInv, AnswerInv, [Next]_vars
    PROVE  Quiet \/ \E r \in Requests : Settles(r)
<1>1. CASE Tick \/ (\E x \in Rows : Publish(x)) \/ UNCHANGED vars
  BY <1>1 DEF Tick, Publish, vars, bankVars, tbVars, Quiet
<1>2. ASSUME NEW r \in Requests,
             Submit(r) \/ Proceed(r) \/ LoadFails(r) \/ CommitFails(r) \/ DependencyFails(r) \/ Die(r)
      PROVE  Quiet \/ Settles(r)
  <2>1. \A q \in Requests : q # r => input'[q] = input[q] /\ quote'[q] = quote[q]
    BY <1>2, RateSteps, OnlyOne DEF RateInv
  <2>2. pc[r] = "execute" => quote[r] # NoQuote /\ input[r] \in Inputs
    BY DEF AnswerInv, RateInv, Typed
  <2>3. CASE Submit(r) \/ AcquireLock(r) \/ ReadLatest(r) \/ FinishLoad(r) \/ LoadFails(r)
    <3>1. posted[r] = {} /\ UNCHANGED <<book, posted, moved>>
      BY <2>3 DEF Submit, AcquireLock, ReadLatest, FinishLoad, LoadFails, Loading, bankVars, tbVars,
          AnswerInv
    <3> QED
      BY <2>1, <3>1 DEF Quiet
  <2>4. CASE Validate(r) \/ DependencyFails(r) \/ WriteMetadata(r) \/ Commit(r) \/ CommitFails(r)
    BY <2>4 DEF Validate, DependencyFails, WriteMetadata, Commit, CommitFails, bankVars, tbVars, Quiet
  <2>5. CASE ExecuteTb(r)
    BY <2>2, <2>5 DEF ExecuteTb, Settles
  <2>6. CASE Die(r)
    <3>1. CASE UNCHANGED tbVars
      BY <2>6, <3>1 DEF Die, Quiet, tbVars
    <3>2. CASE pc[r] = "execute" /\ TbApply(r)
      BY <2>2, <2>6, <3>2 DEF Die, Settles
    <3> QED
      BY <2>6, <3>1, <3>2 DEF Die
  <2> QED
    BY <1>2, <2>3, <2>4, <2>5, <2>6 DEF Proceed
<1> QED
  BY <1>1, <1>2 DEF Next

\* What a leg that is executed moves is an amount, and the second leg moves all of it.
LEMMA TakenType ==
    ASSUME RateInv, book \in Books, NEW r \in Requests, quote[r] # NoQuote, input[r] \in Inputs,
           NEW leg \in Legs, leg \in Outcome(r)
    PROVE  /\ Taken(r, leg) \in Nat
           /\ leg = "buy" => Taken(r, leg) = Amount(r, leg)
           /\ Debit(r, leg) \in TbAccounts /\ Credit(r, leg) \in TbAccounts
<1>1. Amount(r, leg) \in Nat
  BY AmountNatural DEF RateInv
<1>2. Debit(r, leg) \in TbAccounts /\ Credit(r, leg) \in TbAccounts
  BY DEF Outcome, LegFits, Accepts
<1>3. Left(r, leg) \in Int
  BY <1>2 DEF Left, Books, Totals4
<1> QED
  BY <1>1, <1>2, <1>3 DEF Taken, Balancing

LEMMA SettledKept == RateInv /\ AnswerInv /\ Settled /\ [Next]_vars => Settled'
<1> SUFFICES ASSUME RateInv, AnswerInv, Settled, [Next]_vars PROVE Settled'
  OBVIOUS
<1>1. CASE Quiet
  BY <1>1 DEF Quiet, Settled, Amount, Pair
<1>2. ASSUME NEW r \in Requests, Settles(r) PROVE Settled'
  <2>1. /\ quote[r] # NoQuote /\ input[r] \in Inputs /\ input' = input /\ quote' = quote
        /\ book \in Books /\ moved \in [Requests -> [Legs -> Nat]]
    BY <1>2 DEF Settles, Settled
  <2>2. \A leg \in Legs : leg \in Outcome(r) =>
            /\ Taken(r, leg) \in Nat /\ (leg = "buy" => Taken(r, leg) = Amount(r, leg))
            /\ Debit(r, leg) \in TbAccounts /\ Credit(r, leg) \in TbAccounts
    BY <2>1, TakenType
  <2>3. \A b \in Books, leg \in Legs : Applied(b, r, leg) \in Books
    BY <2>2, PostEffect DEF Applied
  <2>4. book' \in Books
    <3>1. book' = Applied(Applied(book, r, "sell"), r, "buy")
      BY <1>2 DEF Settles, TbApply
    <3> QED
      BY <2>1, <2>3, <3>1 DEF Legs
  <2> DEFINE took == [leg \in Legs |-> IF leg \in Outcome(r) THEN Taken(r, leg) ELSE 0]
  <2>5. took \in [Legs -> Nat] /\ ("buy" \in Outcome(r) => took["buy"] = Amount(r, "buy"))
    BY <2>2 DEF Legs
  <2>6. posted' = [posted EXCEPT ![r] = Outcome(r)] /\ moved' = [moved EXCEPT ![r] = took]
    BY <1>2 DEF Settles, TbApply
  <2> HIDE DEF took
  <2>7. /\ DOMAIN posted = Requests /\ posted'[r] = Outcome(r)
        /\ \A q \in Requests \ {r} : posted'[q] = posted[q]
    BY <2>6 DEF RateInv, Typed
  <2>8. /\ moved' \in [Requests -> [Legs -> Nat]] /\ moved'[r] = took
        /\ \A q \in Requests \ {r} : moved'[q] = moved[q]
    BY <2>1, <2>5, <2>6
  <2>9. \A q \in Requests : posted'[q] # {} => quote'[q] # NoQuote /\ input'[q] \in Inputs
    BY <2>1, <2>7 DEF Settled
  <2>10. \A q \in Requests : Amount(q, "buy")' = Amount(q, "buy")
    BY <2>1 DEF Amount, Pair
  <2>11. \A q \in Requests : "buy" \in posted'[q] => moved'[q]["buy"] = Amount(q, "buy")
    BY <2>5, <2>7, <2>8 DEF Settled
  <2> QED
    BY <2>4, <2>8, <2>9, <2>10, <2>11 DEF Settled
<1> QED
  BY <1>1, <1>2, Settlement

LEMMA InitSettled == Init => Settled
  BY ExchangeAssumption DEF Init, Settled

\* Every variable has its type, whatever the amounts and rates.
THEOREM TypeCorrect == Spec => []TypeOK
<1>1. Init => AnswerInv
  BY DEF Init, AnswerInv, Refusals
<1>2. RateInv /\ Settled => TypeOK
  BY DEF RateInv, Typed, Settled, TypeOK
<1> QED
  BY <1>1, <1>2, InitRates, RatesInductive, AnswersInductive, InitSettled, SettledKept, PTL DEF Spec

\* What is bought is worth what the client offers, to within half a unit, at any scales
\* and any rate (_compute_buy_amount).
THEOREM FairPriceCorrect == Spec => []FairPrice
<1>1. Init => AnswerInv
  BY DEF Init, AnswerInv, Refusals
<1>2. RateInv /\ Settled => FairPrice
  <2> SUFFICES ASSUME RateInv, Settled, NEW r \in Requests, "buy" \in posted[r]
               PROVE  LET unit == Tens[Scale[Pair(r)[1]] + RateScale]
                          owed == input[r].amount * quote[r].rate * Tens[Scale[Pair(r)[2]]]
                          paid == moved[r]["buy"] * unit
                      IN -unit <= 2 * (owed - paid) /\ 2 * (owed - paid) <= unit
    BY DEF FairPrice
  <2>1. input[r] \in Inputs /\ quote[r] \in Quotes
    BY DEF Settled, RateInv, Typed
  <2>2. Pair(r) \in Pairs /\ input[r].amount \in Nat /\ quote[r].rate \in Nat
    BY <2>1, ExchangeAssumption DEF InputRecords, Pair, Quotes
  <2>3. moved[r]["buy"] = BuyAmount(Pair(r), input[r].amount, quote[r].rate)
    BY DEF Settled, Amount
  <2> QED
    BY <2>2, <2>3, BuyAmountFair
<1> QED
  BY <1>1, <1>2, InitRates, RatesInductive, AnswersInductive, InitSettled, SettledKept, PTL DEF Spec
=============================================================================
