------------------------ MODULE PriceService_proofs ------------------------
(***************************************************************************)
(* Theorems about PriceService, for any number of callers and symbols, any *)
(* time to live, number of attempts, back-off and latency.                 *)
(***************************************************************************)
EXTENDS PriceService, FiniteSetTheorems, TLAPS

LEMMA TtlNat == Ttl \in Nat
<1> DEFINE ms == TtlInMins * 1000
<1>1. ms \in Nat BY PriceAssumption
<1>2. TickMs \in Nat /\ TickMs > 0 BY PriceAssumption
<1>3. ms \div TickMs \in Nat
  <2> HIDE DEF ms
  <2> QED BY <1>1, <1>2
<1> QED BY <1>3 DEF Ttl

LEMMA NewQuote ==
  ASSUME NEW age \in Nat, NEW zero \in BOOLEAN
  PROVE  [stored |-> 0, age |-> age, zero |-> zero] \in Quote
BY TtlNat DEF Quote

LEMMA OlderQuote ==
  ASSUME NEW q \in Quote \union {NoQuote}
  PROVE  Older(q) \in Quote \union {NoQuote}
<1>1. CASE Live(q)
  <2>1. q \in Quote /\ q.stored \in 0 .. Ttl
    BY <1>1, TtlNat DEF Live, Quote
  <2>2. Older(q) = [q EXCEPT !.stored = q.stored + 1, !.age = q.age + 1]
    BY <1>1 DEF Older
  <2>3. q.stored + 1 \in 0 .. Ttl + 1 /\ q.age + 1 \in Nat
    BY <2>1, TtlNat DEF Quote
  <2> QED BY <2>1, <2>2, <2>3 DEF Quote
<1>2. CASE ~Live(q)
  BY <1>2 DEF Older
<1> QED BY <1>1, <1>2

\* No price is cached that was older than a request when it was stored, ...
CacheFresh ==
  \A s \in Symbol : cache[s] # NoQuote => cache[s].age <= cache[s].stored + MaxLatency

\* ... so that a live one is as fresh as AnswersAreFresh says.
FreshInv == TypeOK /\ CacheFresh /\ AnswersAreFresh

LEMMA SettleTypes ==
  ASSUME TypeOK, NEW c \in Caller, NEW r \in Nat \union {NoPrice}, Settle(c, r)
  PROVE  /\ pc' \in [Caller -> {"idle", "fetch", "sleep"}]
         /\ symbol' \in [Caller -> Symbol \union {NoSymbol}]
         /\ retries' \in [Caller -> 0 .. RetryCount]
         /\ backoff' \in [Caller -> Nat]
         /\ timer' \in [Caller -> Nat]
         /\ waited' \in [Caller -> Nat]
         /\ answer' \in Nat \union {NoPrice}
         /\ (\A d \in Caller :
               /\ pc[d] = "idle" <=> symbol[d] = NoSymbol
               /\ pc[d] = "idle" => timer[d] = 0 /\ waited[d] = 0 /\ backoff[d] = Backoff
               /\ pc[d] # "idle" => retries[d] > 0
               /\ pc[d] = "fetch" => timer[d] <= MaxLatency
               /\ pc[d] = "sleep" => timer[d] <= backoff[d])'
BY PriceAssumption DEF TypeOK, Settle

LEMMA TypeInit == Init => TypeOK
  BY PriceAssumption DEF Init, TypeOK

LEMMA TypeStep == TypeOK /\ [Next]_vars => TypeOK'
<1> SUFFICES ASSUME TypeOK, [Next]_vars PROVE TypeOK'
  OBVIOUS
<1> USE PriceAssumption, QuoteAssumption, TtlNat
<1>1. CASE Tick
  <2>1. ASSUME NEW s \in Symbol PROVE Older(cache[s]) \in Quote \union {NoQuote}
    BY OlderQuote DEF TypeOK
  <2> QED BY <1>1, <2>1 DEF Tick, TypeOK
<1>2. CASE Restart
  BY <1>2 DEF Restart, TypeOK
<1>3. ASSUME NEW c \in Caller, NEW s \in Symbol, AskCached(c, s) PROVE TypeOK'
  BY <1>3 DEF AskCached, Hit, Live, ask, TypeOK, Quote
<1>4. ASSUME NEW c \in Caller, NEW s \in Symbol, AskAnew(c, s) PROVE TypeOK'
  <2>1. CASE RetryCount = 0
    <3>1. Settle(c, NoPrice) /\ UNCHANGED cache
      BY <1>4, <2>1 DEF AskAnew
    <3> QED BY <3>1, SettleTypes DEF TypeOK
  <2>2. CASE RetryCount # 0
    BY <1>4, <2>2 DEF AskAnew, TypeOK
  <2> QED BY <2>1, <2>2
<1>5. ASSUME NEW c \in Caller, Fetched(c) PROVE TypeOK'
  <2>1. PICK age \in 0 .. timer[c], zero \in BOOLEAN :
          /\ cache' = [cache EXCEPT ![symbol[c]] = [stored |-> 0, age |-> age, zero |-> zero]]
          /\ Settle(c, age)
    BY <1>5 DEF Fetched
  <2>2. age \in Nat
    BY DEF TypeOK
  <2>3. cache' \in [Symbol -> Quote \union {NoQuote}]
    BY <2>1, <2>2, NewQuote DEF TypeOK
  <2> QED BY <2>1, <2>2, <2>3, SettleTypes DEF TypeOK
<1>6. ASSUME NEW c \in Caller, Unusable(c) PROVE TypeOK'
  BY <1>6, SettleTypes DEF Unusable, TypeOK
<1>7. ASSUME NEW c \in Caller, Fails(c) PROVE TypeOK'
  BY <1>7 DEF Fails, TypeOK
<1>8. ASSUME NEW c \in Caller, Retry(c) PROVE TypeOK'
  BY <1>8 DEF Retry, TypeOK
<1>9. ASSUME NEW c \in Caller, GiveUp(c) PROVE TypeOK'
  BY <1>9, SettleTypes DEF GiveUp, TypeOK
<1>10. CASE UNCHANGED vars
  BY <1>10 DEF vars, ask, TypeOK
<1> QED BY <1>1, <1>2, <1>3, <1>4, <1>5, <1>6, <1>7, <1>8, <1>9, <1>10 DEF Next, Ask, Go

\* Type correctness; callers that are idle have no request, no sleep and no ask.
THEOREM TypeCorrect == Spec => []TypeOK
BY TypeInit, TypeStep, PTL DEF Spec

\* AnswersAreFresh is kept because no price was older than a request when it was
\* stored, and both its ages grow together.
LEMMA FreshInit == Init => FreshInv
  BY TypeInit DEF Init, FreshInv, CacheFresh, AnswersAreFresh

LEMMA FreshStep == FreshInv /\ [Next]_vars => FreshInv'
<1> SUFFICES ASSUME FreshInv, [Next]_vars PROVE CacheFresh' /\ AnswersAreFresh'
  BY TypeStep DEF FreshInv
<1> USE PriceAssumption, QuoteAssumption, TtlNat DEF FreshInv
<1>1. CASE Tick
  <2>1. ASSUME NEW s \in Symbol, cache'[s] # NoQuote
        PROVE  cache'[s].age <= cache'[s].stored + MaxLatency
    <3>1. cache'[s] = Older(cache[s])
      BY <1>1 DEF Tick
    <3>2. cache[s] \in Quote /\ cache[s].age <= cache[s].stored + MaxLatency
      BY <2>1, <3>1 DEF Older, Live, CacheFresh, TypeOK
    <3> QED BY <3>1, <3>2 DEF Older, Quote
  <2> QED BY <1>1, <2>1 DEF Tick, CacheFresh, AnswersAreFresh
<1>2. CASE Restart
  BY <1>2 DEF Restart, CacheFresh, AnswersAreFresh
<1>3. ASSUME NEW c \in Caller, NEW s \in Symbol, AskCached(c, s)
      PROVE CacheFresh' /\ AnswersAreFresh'
  <2>1. cache[s] \in Quote /\ cache[s].stored <= Ttl /\ cache[s].age <= cache[s].stored + MaxLatency
    BY <1>3 DEF AskCached, Hit, Live, CacheFresh, TypeOK
  <2>2. answer' <= Ttl + MaxLatency
    BY <1>3, <2>1 DEF AskCached, Quote
  <2> QED BY <1>3, <2>2 DEF AskCached, CacheFresh, AnswersAreFresh
<1>4. ASSUME NEW c \in Caller, NEW s \in Symbol, AskAnew(c, s)
      PROVE CacheFresh' /\ AnswersAreFresh'
  BY <1>4 DEF AskAnew, Settle, CacheFresh, AnswersAreFresh
<1>5. ASSUME NEW c \in Caller, Fetched(c) PROVE CacheFresh' /\ AnswersAreFresh'
  <2>1. PICK age \in 0 .. timer[c], zero \in BOOLEAN :
          /\ cache' = [cache EXCEPT ![symbol[c]] = [stored |-> 0, age |-> age, zero |-> zero]]
          /\ Settle(c, age)
    BY <1>5 DEF Fetched
  <2>2. age \in Nat /\ age <= MaxLatency
    BY <1>5 DEF Fetched, TypeOK
  <2>3. CacheFresh'
    BY <2>1, <2>2 DEF CacheFresh, TypeOK
  <2>4. AnswersAreFresh'
    BY <2>1, <2>2 DEF Settle, AnswersAreFresh
  <2> QED BY <2>3, <2>4
<1>6. ASSUME NEW c \in Caller, Unusable(c) \/ GiveUp(c) PROVE CacheFresh' /\ AnswersAreFresh'
  BY <1>6 DEF Unusable, GiveUp, Settle, CacheFresh, AnswersAreFresh
<1>7. ASSUME NEW c \in Caller, Fails(c) \/ Retry(c) PROVE CacheFresh' /\ AnswersAreFresh'
  BY <1>7 DEF Fails, Retry, CacheFresh, AnswersAreFresh
<1>8. CASE UNCHANGED vars
  BY <1>8 DEF vars, CacheFresh, AnswersAreFresh
<1> QED BY <1>1, <1>2, <1>3, <1>4, <1>5, <1>6, <1>7, <1>8 DEF Next, Ask, Go

\* No deposit is valued with a price older than the time to live and a request.
THEOREM FreshAnswers == Spec => []AnswersAreFresh
<1>1. FreshInv => AnswersAreFresh
  BY DEF FreshInv
<1> QED BY FreshInit, FreshStep, <1>1, PTL DEF Spec

-----------------------------------------------------------------------------
(* PricesSpareRequests is inductive with the types. *)

LEMMA SpareInit == Init => PricesSpareRequests
  BY DEF Init, PricesSpareRequests

LEMMA SpareStep == TypeOK /\ PricesSpareRequests /\ [Next]_vars => PricesSpareRequests'
<1> SUFFICES ASSUME TypeOK, PricesSpareRequests, [Next]_vars PROVE PricesSpareRequests'
  OBVIOUS
<1> USE PriceAssumption, QuoteAssumption, TtlNat
<1>1. CASE Tick
  <2> SUFFICES ASSUME NEW c \in Caller, pc'[c] # "idle", Hit(symbol[c])'
               PROVE  waited'[c] >= cache'[symbol'[c]].stored
    BY DEF PricesSpareRequests
  <2> DEFINE q == cache[symbol[c]]
  <2>1. pc[c] # "idle" /\ symbol'[c] = symbol[c] /\ symbol[c] \in Symbol /\ waited'[c] = waited[c] + 1
    BY <1>1 DEF Tick, TypeOK
  <2>2. cache'[symbol[c]] = Older(q) /\ q \in Quote \union {NoQuote}
    BY <1>1, <2>1 DEF Tick, TypeOK
  <2>3. Live(Older(q)) /\ ~Older(q).zero
    BY <2>1, <2>2 DEF Hit, Live
  <2>4. Live(q) /\ q \in Quote
    <3>1. ~Live(q) => Older(q) = q
      BY DEF Older
    <3>2. Live(q)
      BY <2>3, <3>1
    <3> QED BY <2>2, <3>2 DEF Live
  <2>5. Older(q).stored = q.stored + 1 /\ Older(q).zero = q.zero
    BY <2>4 DEF Older, Quote, Live
  <2>6. Hit(symbol[c])
    BY <2>3, <2>4, <2>5 DEF Hit
  <2>7. waited[c] >= q.stored
    BY <2>1, <2>6 DEF PricesSpareRequests
  <2>8. waited[c] \in Nat /\ q.stored \in Nat
    BY <2>4 DEF TypeOK, Quote
  <2> QED BY <2>1, <2>2, <2>5, <2>7, <2>8
<1>2. CASE Restart
  BY <1>2 DEF Restart, PricesSpareRequests
<1>3. ASSUME NEW c \in Caller, NEW s \in Symbol, AskCached(c, s) PROVE PricesSpareRequests'
  BY <1>3 DEF AskCached, ask, PricesSpareRequests, Hit, Live
<1>4. ASSUME NEW c \in Caller, NEW s \in Symbol, AskAnew(c, s) PROVE PricesSpareRequests'
  BY <1>4 DEF AskAnew, Settle, PricesSpareRequests, Hit, Live, TypeOK
<1>5. ASSUME NEW c \in Caller, Fetched(c) PROVE PricesSpareRequests'
  <2>1. PICK age \in 0 .. timer[c], zero \in BOOLEAN :
          /\ cache' = [cache EXCEPT ![symbol[c]] = [stored |-> 0, age |-> age, zero |-> zero]]
          /\ Settle(c, age)
    BY <1>5 DEF Fetched
  <2> SUFFICES ASSUME NEW d \in Caller, pc'[d] # "idle", Hit(symbol[d])'
               PROVE  waited'[d] >= cache'[symbol'[d]].stored
    BY DEF PricesSpareRequests
  <2>2. d # c /\ pc[d] # "idle" /\ symbol'[d] = symbol[d] /\ symbol[d] \in Symbol /\ waited'[d] = waited[d]
    BY <2>1 DEF Settle, TypeOK
  <2>3. CASE symbol[d] = symbol[c]
    <3>1. cache'[symbol[d]].stored = 0
      BY <2>1, <2>2, <2>3 DEF TypeOK
    <3> QED BY <2>2, <3>1 DEF TypeOK
  <2>4. CASE symbol[d] # symbol[c]
    <3>1. cache'[symbol[d]] = cache[symbol[d]]
      BY <2>1, <2>2, <2>4 DEF TypeOK
    <3>2. Hit(symbol[d])
      BY <2>2, <3>1 DEF Hit, Live
    <3> QED BY <2>2, <3>1, <3>2 DEF PricesSpareRequests
  <2> QED BY <2>3, <2>4
<1>6. ASSUME NEW c \in Caller, Unusable(c) \/ GiveUp(c) PROVE PricesSpareRequests'
  BY <1>6 DEF Unusable, GiveUp, Settle, PricesSpareRequests, Hit, Live, TypeOK
<1>7. ASSUME NEW c \in Caller, Fails(c) \/ Retry(c) PROVE PricesSpareRequests'
  BY <1>7 DEF Fails, Retry, PricesSpareRequests, Hit, Live, TypeOK
<1>8. CASE UNCHANGED vars
  BY <1>8 DEF vars, ask, PricesSpareRequests, Hit, Live
<1> QED BY <1>1, <1>2, <1>3, <1>4, <1>5, <1>6, <1>7, <1>8 DEF Next, Ask, Go

\* Whoever is still after a symbol with a live price asked before it was stored.
THEOREM RequestsSpared == Spec => []PricesSpareRequests
BY TypeInit, TypeStep, SpareInit, SpareStep, PTL DEF Spec

-----------------------------------------------------------------------------
(* How long an ask waits.  The provers know nothing of powers; but 2 ^ n is   *)
(* the number of subsets of 1 .. n, and of those of 1 .. n + 1 half have the  *)
(* element that is new.                                                       *)

LEMMA PowerIsCount ==
  ASSUME NEW n \in Nat
  PROVE  IsFiniteSet(SUBSET (1 .. n)) /\ Cardinality(SUBSET (1 .. n)) = 2 ^ n /\ 2 ^ n \in Nat
<1>1. IsFiniteSet(1 .. n) /\ Cardinality(1 .. n) = n
  BY FS_Interval
<1>2. IsFiniteSet(SUBSET (1 .. n)) /\ Cardinality(SUBSET (1 .. n)) = 2 ^ n
  BY <1>1, FS_SUBSET
<1> QED
  BY <1>2, FS_CardinalityType

LEMMA PowersDouble ==
  ASSUME NEW n \in Nat
  PROVE  2 ^ (n + 1) = 2 * (2 ^ n)
<1> DEFINE A == SUBSET (1 .. n)
           B == {s \union {n + 1} : s \in A}
           f == [s \in A |-> s \union {n + 1}]
<1>1. \A s \in A : n + 1 \notin s
  OBVIOUS
<1>2. f \in Bijection(A, B)
  <2>1. f \in [A -> B]
    OBVIOUS
  <2>2. ASSUME NEW s \in A, NEW t \in A, f[s] = f[t] PROVE s = t
    <3>1. s = f[s] \ {n + 1} /\ t = f[t] \ {n + 1}
      BY <1>1
    <3> QED BY <2>2, <3>1
  <2>3. \A b \in B : \E s \in A : f[s] = b
    OBVIOUS
  <2> HIDE DEF A, B, f
  <2> QED BY <2>1, <2>2, <2>3 DEF Bijection, Injection, IsInjective, Surjection
<1>3. IsFiniteSet(A) /\ Cardinality(A) = 2 ^ n /\ 2 ^ n \in Nat
  BY PowerIsCount
<1>4. IsFiniteSet(B) /\ Cardinality(B) = 2 ^ n
  BY <1>2, <1>3, FS_Bijection DEF ExistsBijection
<1>5. A \intersect B = {}
  BY <1>1
<1>6. SUBSET (1 .. n + 1) = A \union B
  <2>1. ASSUME NEW s \in SUBSET (1 .. n + 1) PROVE s \in A \union B
    <3>1. CASE n + 1 \in s
      <4>1. s \ {n + 1} \in A /\ s = (s \ {n + 1}) \union {n + 1}
        BY <3>1
      <4> QED BY <4>1
    <3>2. CASE n + 1 \notin s
      <4>1. s \in A
        BY <3>2
      <4> QED BY <4>1
    <3> QED BY <3>1, <3>2
  <2>2. ASSUME NEW s \in A
        PROVE  s \in SUBSET (1 .. n + 1) /\ s \union {n + 1} \in SUBSET (1 .. n + 1)
    OBVIOUS
  <2>3. B \subseteq SUBSET (1 .. n + 1)
    BY <2>2
  <2> DEFINE C == SUBSET (1 .. n + 1)
  <2>4. (\A s \in C : s \in A \union B) /\ (\A s \in A : s \in C) /\ B \subseteq C
    BY <2>1, <2>2, <2>3
  <2> HIDE DEF A, B, C
  <2>5. C = A \union B
    BY <2>4
  <2> QED BY <2>5 DEF C
<1>7. Cardinality(SUBSET (1 .. n + 1)) = 2 ^ (n + 1)
  BY PowerIsCount
<1>8. Cardinality(A \union B) = Cardinality(A) + Cardinality(B) - Cardinality(A \intersect B)
  BY <1>3, <1>4, FS_Union
<1>9. Cardinality(A \intersect B) = 0
  BY <1>5, FS_EmptySet
<1> DEFINE p == 2 ^ n
           q == 2 ^ (n + 1)
<1>10. q = p + p - 0 /\ p \in Nat
  <2> HIDE DEF A, B
  <2> QED BY <1>3, <1>4, <1>6, <1>7, <1>8, <1>9
<1> HIDE DEF p, q
<1>11. q = 2 * p
  BY <1>10
<1> QED
  BY <1>11 DEF p, q

LEMMA PowersGrow ==
  ASSUME NEW n \in Nat, NEW m \in Nat, n <= m
  PROVE  2 ^ n <= 2 ^ m
<1> DEFINE A == SUBSET (1 .. n)
           B == SUBSET (1 .. m)
<1>1. A \in SUBSET B
  OBVIOUS
<1>2. IsFiniteSet(B) /\ Cardinality(A) = 2 ^ n /\ Cardinality(B) = 2 ^ m
  BY PowerIsCount
<1> HIDE DEF A, B
<1>3. Cardinality(A) <= Cardinality(B)
  BY <1>1, <1>2, FS_Subset
<1> QED
  BY <1>2, <1>3

\* The back-off of an ask when so many of its attempts are gone, and the time as many
\* requests may take.
Nap(gone) == Backoff * 2 ^ gone
Tries(gone) == gone * MaxLatency

LEMMA NapsDouble ==
  ASSUME NEW n \in Nat
  PROVE  Nap(n) \in Nat /\ Nap(n + 1) = 2 * Nap(n)
<1>1. \A p \in Nat : Backoff * p \in Nat /\ Backoff * (2 * p) = 2 * (Backoff * p)
  BY PriceAssumption
<1> QED
  BY <1>1, PowerIsCount, PowersDouble DEF Nap

LEMMA NapsGrow ==
  ASSUME NEW n \in Nat, NEW m \in Nat, n <= m
  PROVE  Nap(n) <= Nap(m)
<1>1. \A p, q \in Nat : p <= q => Backoff * p <= Backoff * q
  BY PriceAssumption
<1> QED
  BY <1>1, PowerIsCount, PowersGrow DEF Nap

LEMMA TriesAdd ==
  ASSUME NEW n \in Nat
  PROVE  Tries(n) \in Nat /\ Tries(n + 1) = Tries(n) + MaxLatency
BY PriceAssumption DEF Tries

LEMMA TriesGrow ==
  ASSUME NEW n \in Nat, NEW m \in Nat, n <= m
  PROVE  Tries(n) <= Tries(m)
BY PriceAssumption DEF Tries

LEMMA Zeroth == Nap(0) = Backoff /\ Tries(0) = 0
<1>1. Cardinality(SUBSET (1 .. 0)) = 1
  <2>1. SUBSET (1 .. 0) = {{}}
    OBVIOUS
  <2> QED BY <2>1, FS_Singleton
<1>2. 2 ^ 0 = 1
  BY <1>1, PowerIsCount
<1> QED
  BY <1>2, PriceAssumption DEF Nap, Tries

LEMMA BoundInParts == MaxWait = Tries(RetryCount) + Nap(RetryCount) - Backoff
<1>1. \A p \in Nat : Backoff * (p - 1) = Backoff * p - Backoff
  BY PriceAssumption
<1>2. 2 ^ RetryCount \in Nat /\ Tries(RetryCount) \in Nat /\ Nap(RetryCount) \in Nat
  BY PowerIsCount, TriesAdd, NapsDouble, PriceAssumption
<1> QED
  BY <1>1, <1>2, PriceAssumption DEF MaxWait, Tries, Nap

\* The attempts of an ask that are behind it.
Gone(c) == RetryCount - retries[c]

\* So far an ask has waited for the requests behind it, for the sleeps after all but
\* the last of them, and for what its timer says.
Waits ==
  \A c \in Caller :
    /\ pc[c] # "idle" => backoff[c] = Nap(Gone(c))
    /\ pc[c] = "fetch" => waited[c] <= Tries(Gone(c)) + Nap(Gone(c)) - Backoff + timer[c]
    /\ pc[c] = "sleep" => waited[c] <= Tries(Gone(c) + 1) + Nap(Gone(c)) - Backoff + timer[c]

LEMMA GoneTypes ==
  ASSUME TypeOK, NEW c \in Caller
  PROVE  /\ Gone(c) \in Nat /\ Gone(c) + 1 \in Nat
         /\ pc[c] # "idle" => Gone(c) + 1 <= RetryCount
         /\ Nap(Gone(c)) \in Nat /\ Nap(Gone(c) + 1) \in Nat /\ Nap(Gone(c) + 1) = 2 * Nap(Gone(c))
         /\ Tries(Gone(c)) \in Nat /\ Tries(Gone(c) + 1) = Tries(Gone(c)) + MaxLatency
<1>1. Gone(c) \in Nat /\ (pc[c] # "idle" => Gone(c) + 1 <= RetryCount)
  BY PriceAssumption DEF TypeOK, Gone
<1> QED
  BY <1>1, NapsDouble, TriesAdd

LEMMA WaitsAreBounded == TypeOK /\ Waits => ListenersAreNotHeldUp
<1> SUFFICES ASSUME TypeOK, Waits, NEW c \in Caller PROVE waited[c] <= MaxWait
  BY DEF ListenersAreNotHeldUp
<1> DEFINE g == Gone(c)
<1>1. /\ waited[c] \in Nat /\ timer[c] \in Nat /\ Backoff \in Nat /\ MaxLatency \in Nat
      /\ RetryCount \in Nat /\ backoff[c] \in Nat
  BY PriceAssumption DEF TypeOK
<1>2. MaxWait = Tries(RetryCount) + Nap(RetryCount) - Backoff
  BY BoundInParts
<1>3. /\ g \in Nat /\ g + 1 \in Nat /\ Nap(g) \in Nat /\ Nap(g + 1) = 2 * Nap(g)
      /\ Tries(g) \in Nat /\ Tries(g + 1) = Tries(g) + MaxLatency
  BY GoneTypes
<1>4. Tries(RetryCount) \in Nat /\ Nap(RetryCount) \in Nat
  BY <1>1, NapsDouble, TriesAdd
<1>5. CASE pc[c] = "idle"
  <2>1. Nap(0) <= Nap(RetryCount) /\ Nap(0) = Backoff
    BY <1>1, NapsGrow, Zeroth
  <2>2. waited[c] = 0
    BY <1>5 DEF TypeOK
  <2> QED BY <1>1, <1>2, <1>4, <2>1, <2>2
<1>6. ASSUME pc[c] # "idle"
      PROVE  Tries(g + 1) <= Tries(RetryCount) /\ Nap(g + 1) <= Nap(RetryCount)
  <2>1. g + 1 <= RetryCount
    BY <1>6, GoneTypes
  <2> QED BY <1>1, <1>3, <2>1, NapsGrow, TriesGrow
<1>7. CASE pc[c] = "fetch"
  <2>1. waited[c] <= Tries(g) + Nap(g) - Backoff + timer[c] /\ timer[c] <= MaxLatency
    BY <1>7 DEF Waits, TypeOK
  <2> HIDE DEF g
  <2> QED BY <1>1, <1>2, <1>3, <1>4, <1>6, <1>7, <2>1
<1>8. CASE pc[c] = "sleep"
  <2>1. /\ waited[c] <= Tries(g + 1) + Nap(g) - Backoff + timer[c]
        /\ timer[c] <= backoff[c] /\ backoff[c] = Nap(g)
    BY <1>8 DEF Waits, TypeOK
  <2> HIDE DEF g
  <2> QED BY <1>1, <1>2, <1>3, <1>4, <1>6, <1>8, <2>1
<1> QED
  BY <1>5, <1>7, <1>8 DEF TypeOK

LEMMA WaitsInit == Init => Waits
  BY DEF Init, Waits

\* An ask that is not touched, but for being over, waits as it did.
LEMMA WaitsKept ==
  ASSUME TypeOK, Waits,
         \A c \in Caller :
           \/ pc'[c] = "idle"
           \/ /\ pc'[c] = pc[c] /\ retries'[c] = retries[c] /\ backoff'[c] = backoff[c]
              /\ timer'[c] = timer[c] /\ waited'[c] = waited[c]
  PROVE  Waits'
BY DEF Waits, Gone

LEMMA SettleWaits ==
  ASSUME TypeOK, Waits, NEW c \in Caller, NEW result, Settle(c, result)
  PROVE  Waits'
<1>1. \A d \in Caller :
        \/ pc'[d] = "idle"
        \/ /\ pc'[d] = pc[d] /\ retries'[d] = retries[d] /\ backoff'[d] = backoff[d]
           /\ timer'[d] = timer[d] /\ waited'[d] = waited[d]
  BY DEF Settle, TypeOK
<1> QED BY <1>1, WaitsKept

LEMMA WaitsStep == TypeOK /\ Waits /\ [Next]_vars => Waits'
<1> SUFFICES ASSUME TypeOK, Waits, [Next]_vars PROVE Waits'
  OBVIOUS
<1> USE PriceAssumption
<1>1. CASE Tick
  <2> SUFFICES ASSUME NEW c \in Caller
               PROVE  /\ pc'[c] # "idle" => backoff'[c] = Nap(Gone(c)')
                      /\ pc'[c] = "fetch" =>
                           waited'[c] <= Tries(Gone(c)') + Nap(Gone(c)') - Backoff + timer'[c]
                      /\ pc'[c] = "sleep" =>
                           waited'[c] <= Tries(Gone(c)' + 1) + Nap(Gone(c)') - Backoff + timer'[c]
    BY DEF Waits, Nap, Tries
  <2> DEFINE g == Gone(c)
  <2>1. /\ Gone(c)' = g /\ pc' = pc /\ backoff' = backoff
        /\ pc[c] # "idle" => timer'[c] = timer[c] + 1 /\ waited'[c] = waited[c] + 1
    BY <1>1 DEF Tick, Gone
  <2>2. timer[c] \in Nat /\ waited[c] \in Nat
    BY DEF TypeOK
  <2>3. g \in Nat /\ Nap(g) \in Nat /\ Tries(g) \in Nat /\ Tries(g + 1) = Tries(g) + MaxLatency
    BY GoneTypes
  <2>4. /\ pc[c] # "idle" => backoff[c] = Nap(g)
        /\ pc[c] = "fetch" => waited[c] <= Tries(g) + Nap(g) - Backoff + timer[c]
        /\ pc[c] = "sleep" => waited[c] <= Tries(g + 1) + Nap(g) - Backoff + timer[c]
    BY DEF Waits
  <2> HIDE DEF g
  <2> QED BY <2>1, <2>2, <2>3, <2>4
<1>2. CASE Restart
  BY <1>2, WaitsKept DEF Restart
<1>3. ASSUME NEW c \in Caller, NEW s \in Symbol, AskCached(c, s) PROVE Waits'
  BY <1>3, WaitsKept DEF AskCached, ask
<1>4. ASSUME NEW c \in Caller, NEW s \in Symbol, AskAnew(c, s) PROVE Waits'
  <2>1. CASE RetryCount = 0
    BY <1>4, <2>1, SettleWaits DEF AskAnew
  <2>2. CASE RetryCount # 0
    <3>1. /\ pc' = [pc EXCEPT ![c] = "fetch"] /\ retries' = [retries EXCEPT ![c] = RetryCount]
          /\ UNCHANGED <<backoff, timer, waited>> /\ pc[c] = "idle"
      BY <1>4, <2>2 DEF AskAnew
    <3>2. pc'[c] = "fetch" /\ Gone(c)' = 0 /\ backoff'[c] = Backoff /\ waited'[c] = 0 /\ timer'[c] = 0
      BY <3>1 DEF TypeOK, Gone
    <3>3. ASSUME NEW d \in Caller, d # c
          PROVE  pc'[d] = pc[d] /\ Gone(d)' = Gone(d) /\ UNCHANGED <<backoff, timer, waited>>
      BY <3>1, <3>3 DEF TypeOK, Gone
    <3>4. /\ backoff'[c] = Nap(Gone(c)')
          /\ waited'[c] <= Tries(Gone(c)') + Nap(Gone(c)') - Backoff + timer'[c]
      BY <3>2, Zeroth
    <3> QED BY <3>2, <3>3, <3>4 DEF Waits, Nap, Tries
  <2> QED BY <2>1, <2>2
<1>5. ASSUME NEW c \in Caller, Fetched(c) \/ Unusable(c) \/ GiveUp(c) PROVE Waits'
  BY <1>5, SettleWaits DEF Fetched, Unusable, GiveUp
<1>6. ASSUME NEW c \in Caller, Fails(c) PROVE Waits'
  <2>1. /\ pc' = [pc EXCEPT ![c] = "sleep"] /\ timer' = [timer EXCEPT ![c] = 0]
        /\ UNCHANGED <<retries, backoff, waited>> /\ pc[c] = "fetch"
    BY <1>6 DEF Fails
  <2> DEFINE g == Gone(c)
  <2>2. /\ backoff[c] = Nap(g)
        /\ waited[c] <= Tries(g) + Nap(g) - Backoff + timer[c]
        /\ timer[c] <= MaxLatency /\ timer[c] \in Nat /\ waited[c] \in Nat
    BY <2>1 DEF Waits, TypeOK
  <2>3. g \in Nat /\ Nap(g) \in Nat /\ Tries(g) \in Nat /\ Tries(g + 1) = Tries(g) + MaxLatency
    BY GoneTypes
  <2>4. pc'[c] = "sleep" /\ Gone(c)' = g /\ timer'[c] = 0
    BY <2>1 DEF TypeOK, Gone
  <2>5. waited[c] <= Tries(g + 1) + Nap(g) - Backoff + 0
    <3> HIDE DEF g
    <3> QED BY <2>2, <2>3
  <2>6. ASSUME NEW d \in Caller, d # c
        PROVE  pc'[d] = pc[d] /\ Gone(d)' = Gone(d) /\ timer'[d] = timer[d] /\ UNCHANGED <<backoff, waited>>
    BY <2>1, <2>6 DEF TypeOK, Gone
  <2> QED BY <2>1, <2>2, <2>4, <2>5, <2>6 DEF Waits, Nap, Tries
<1>7. ASSUME NEW c \in Caller, Retry(c) PROVE Waits'
  <2>1. /\ pc[c] = "sleep" /\ timer[c] >= backoff[c] /\ retries[c] > 1
        /\ pc' = [pc EXCEPT ![c] = "fetch"] /\ retries' = [retries EXCEPT ![c] = @ - 1]
        /\ backoff' = [backoff EXCEPT ![c] = @ * 2] /\ timer' = [timer EXCEPT ![c] = 0]
        /\ waited' = waited
    BY <1>7 DEF Retry
  <2> DEFINE g == Gone(c)
  <2>2. /\ backoff[c] = Nap(g)
        /\ waited[c] <= Tries(g + 1) + Nap(g) - Backoff + timer[c]
        /\ timer[c] <= backoff[c] /\ timer[c] \in Nat /\ waited[c] \in Nat
    BY <2>1 DEF Waits, TypeOK
  <2>3. g \in Nat /\ Nap(g) \in Nat /\ Tries(g) \in Nat /\ Tries(g + 1) = Tries(g) + MaxLatency
        /\ Nap(g + 1) = 2 * Nap(g)
    BY GoneTypes
  <2>4. pc'[c] = "fetch" /\ Gone(c)' = g + 1 /\ timer'[c] = 0 /\ backoff'[c] = backoff[c] * 2
    BY <2>1 DEF TypeOK, Gone
  <2>5. waited[c] <= Tries(g + 1) + Nap(g + 1) - Backoff + 0 /\ backoff[c] * 2 = Nap(g + 1)
    <3> HIDE DEF g
    <3> QED BY <2>2, <2>3
  <2>6. ASSUME NEW d \in Caller, d # c
        PROVE  /\ pc'[d] = pc[d] /\ Gone(d)' = Gone(d) /\ timer'[d] = timer[d]
               /\ backoff'[d] = backoff[d] /\ waited' = waited
    BY <2>1, <2>6 DEF TypeOK, Gone
  <2> QED BY <2>1, <2>4, <2>5, <2>6 DEF Waits, Nap, Tries
<1>8. CASE UNCHANGED vars
  BY <1>8, WaitsKept DEF vars, ask
<1> QED BY <1>1, <1>2, <1>3, <1>4, <1>5, <1>6, <1>7, <1>8 DEF Next, Ask, Go

\* A listener that waits for a price does so for a limited time, whatever fails.
THEOREM WaitsEnd == Spec => []ListenersAreNotHeldUp
BY TypeInit, TypeStep, WaitsInit, WaitsStep, WaitsAreBounded, PTL DEF Spec
=============================================================================
