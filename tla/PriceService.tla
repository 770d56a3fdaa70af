---------------------------- MODULE PriceService ----------------------------
(***************************************************************************)
(* CoinMarketCapService: what an amount of a token is worth in USD.  All   *)
(* listeners of the process share one instance and its memory cache.  An   *)
(* ask that finds no live price in the cache fetches one, with retries and *)
(* a back-off that doubles; asks do not wait for each other, so several    *)
(* fetches of one symbol may be on their way and come back in any order,   *)
(* an older price last.                                                    *)
(*                                                                         *)
(* Time passes in ticks of TickMs milliseconds and is kept as ages and     *)
(* timers, so that no behaviour is cut off by a last moment.  Prices are   *)
(* told apart by their age, and by whether they are zero.                  *)
(***************************************************************************)
EXTENDS Naturals

CONSTANTS
  Caller,      \* the listeners; each has at most one ask at a time
  Symbol,      \* token symbols
  TtlInMins,   \* CACHE_TTL_IN_MINS
  TickMs,      \* the milliseconds of a tick
  RetryCount,  \* RETRY_COUNT
  Backoff,     \* BACKOFF, in ticks
  MaxLatency,  \* bound: the ticks within which a request is settled
  NoSymbol,    \* nothing is asked for
  NoQuote,     \* nothing is cached
  NoPrice      \* an ask ended with an error, or there was none

ASSUME PriceAssumption ==
  /\ TtlInMins \in Nat \ {0}
  /\ TickMs \in Nat \ {0}
  /\ RetryCount \in Nat
  /\ Backoff \in Nat \ {0}
  /\ MaxLatency \in Nat
  /\ NoSymbol \notin Symbol

\* The minutes are multiplied by a thousand, and the cache takes milliseconds:
\* a price lives for a second where a minute was configured.
Ttl == (TtlInMins * 1000) \div TickMs

\* A cached price: the ticks since it was stored and, longer, since it was the
\* market's.  The cache keeps both no further than past the time to live.
Quote == [stored : 0 .. Ttl + 1, age : Nat, zero : BOOLEAN]

ASSUME QuoteAssumption == NoQuote \notin Quote /\ NoPrice \notin Nat

VARIABLES
  cache,    \* memoryCache
  pc,       \* each caller: no ask, a request under way, or between two
  symbol,   \* what it asks for
  retries,  \* retryCount of its fetchRetry
  backoff,  \* backoff of its fetchRetry
  timer,    \* ticks since it sent its request, or fell asleep
  waited,   \* history: ticks since it asked
  answer    \* history: the age of the price last handed out, or NoPrice

ask == <<pc, symbol, retries, backoff, timer, waited>>
vars == <<cache, ask, answer>>

\* Every variable holds a value of its kind; who waits has a symbol, attempts left
\* and a timer that has not run past its end.
TypeOK ==
  /\ cache \in [Symbol -> Quote \union {NoQuote}]
  /\ pc \in [Caller -> {"idle", "fetch", "sleep"}]
  /\ symbol \in [Caller -> Symbol \union {NoSymbol}]
  /\ retries \in [Caller -> 0 .. RetryCount]
  /\ backoff \in [Caller -> Nat]
  /\ timer \in [Caller -> Nat]
  /\ waited \in [Caller -> Nat]
  /\ answer \in Nat \union {NoPrice}
  /\ \A c \in Caller :
       /\ pc[c] = "idle" <=> symbol[c] = NoSymbol
       /\ pc[c] = "idle" => timer[c] = 0 /\ waited[c] = 0 /\ backoff[c] = Backoff
       /\ pc[c] # "idle" => retries[c] > 0
       /\ pc[c] = "fetch" => timer[c] <= MaxLatency
       /\ pc[c] = "sleep" => timer[c] <= backoff[c]

Init ==
  /\ cache = [s \in Symbol |-> NoQuote]
  /\ pc = [c \in Caller |-> "idle"]
  /\ symbol = [c \in Caller |-> NoSymbol]
  /\ retries = [c \in Caller |-> 0]
  /\ backoff = [c \in Caller |-> Backoff]
  /\ timer = [c \in Caller |-> 0]
  /\ waited = [c \in Caller |-> 0]
  /\ answer = NoPrice

-----------------------------------------------------------------------------
(* getValueConvertion. *)

\* A mutation: the entry is not looked at for its age.
LiveForEver(q) == q # NoQuote

\* memoryCache.get answers with a price: lru-cache calls an entry stale when its
\* age exceeds the time to live.
Live(q) == q # NoQuote /\ q.stored <= Ttl

\* `if (tokenValue)`: a price of zero in the cache is taken for none.
Hit(s) == Live(cache[s]) /\ ~cache[s].zero

\* The ask is over, with a price of this age or with an error.
Settle(c, result) ==
  /\ pc' = [pc EXCEPT ![c] = "idle"]
  /\ symbol' = [symbol EXCEPT ![c] = NoSymbol]
  /\ retries' = [retries EXCEPT ![c] = 0]
  /\ backoff' = [backoff EXCEPT ![c] = Backoff]
  /\ timer' = [timer EXCEPT ![c] = 0]
  /\ waited' = [waited EXCEPT ![c] = 0]
  /\ answer' = result

\* A deposit of a fungible resource is saved, and its listener asks: the price is
\* in the cache.
AskCached(c, s) ==
  /\ pc[c] = "idle"
  /\ Hit(s)
  /\ answer' = cache[s].age
  /\ UNCHANGED <<cache, ask>>

\* A mutation: the cached price is looked at, and fetched all the same.
AskAnewAlways(c, s) ==
  /\ pc[c] = "idle"
  /\ pc' = [pc EXCEPT ![c] = "fetch"]
  /\ symbol' = [symbol EXCEPT ![c] = s]
  /\ retries' = [retries EXCEPT ![c] = RetryCount]
  /\ UNCHANGED <<backoff, timer, waited, answer, cache>>

\* It is not: fetchRetry sends a first request.  With a RETRY_COUNT of zero it
\* throws without one.
AskAnew(c, s) ==
  /\ pc[c] = "idle"
  /\ ~Hit(s)
  /\ IF RetryCount = 0
       THEN Settle(c, NoPrice)
       ELSE /\ pc' = [pc EXCEPT ![c] = "fetch"]
            /\ symbol' = [symbol EXCEPT ![c] = s]
            /\ retries' = [retries EXCEPT ![c] = RetryCount]
            /\ UNCHANGED <<backoff, timer, waited, answer>>
  /\ UNCHANGED cache

\* The answer has status 200 and a price, which was the market's at some moment
\* since the request was sent.  It replaces what is cached, newer or not.
Fetched(c) ==
  /\ pc[c] = "fetch"
  /\ \E age \in 0 .. timer[c], zero \in BOOLEAN :
       /\ cache' = [cache EXCEPT ![symbol[c]] = [stored |-> 0, age |-> age, zero |-> zero]]
       /\ Settle(c, age)

\* Status 200 and no price in the body: caught outside fetchRetry, no retry.
Unusable(c) ==
  /\ pc[c] = "fetch"
  /\ Settle(c, NoPrice)
  /\ UNCHANGED cache

-----------------------------------------------------------------------------
(* fetchRetry. *)

\* The request fails, or its status is not 200.
Fails(c) ==
  /\ pc[c] = "fetch"
  /\ pc' = [pc EXCEPT ![c] = "sleep"]
  /\ timer' = [timer EXCEPT ![c] = 0]
  /\ UNCHANGED <<cache, symbol, retries, backoff, waited, answer>>

\* A mutation: the count is compared before `finally`, one attempt too many.
RetryOnceMore(c) ==
  /\ pc[c] = "sleep"
  /\ timer[c] >= backoff[c]
  /\ retries[c] > 0
  /\ pc' = [pc EXCEPT ![c] = "fetch"]
  /\ retries' = [retries EXCEPT ![c] = @ - 1]
  /\ backoff' = [backoff EXCEPT ![c] = @ * 2]
  /\ timer' = [timer EXCEPT ![c] = 0]
  /\ UNCHANGED <<cache, symbol, waited, answer>>

\* The sleep is over, `finally` has counted the attempt, and another is left.
Retry(c) ==
  /\ pc[c] = "sleep"
  /\ timer[c] >= backoff[c]
  /\ retries[c] > 1
  /\ pc' = [pc EXCEPT ![c] = "fetch"]
  /\ retries' = [retries EXCEPT ![c] = @ - 1]
  /\ backoff' = [backoff EXCEPT ![c] = @ * 2]
  /\ timer' = [timer EXCEPT ![c] = 0]
  /\ UNCHANGED <<cache, symbol, waited, answer>>

\* A mutation: the loop is left at a count the last attempt does not reach.
GiveUpAtZero(c) ==
  /\ pc[c] = "sleep"
  /\ timer[c] >= backoff[c]
  /\ retries[c] = 0
  /\ Settle(c, NoPrice)
  /\ UNCHANGED cache

\* It was the last attempt; the sleep after it was in vain.
GiveUp(c) ==
  /\ pc[c] = "sleep"
  /\ timer[c] >= backoff[c]
  /\ retries[c] = 1
  /\ Settle(c, NoPrice)
  /\ UNCHANGED cache

-----------------------------------------------------------------------------
(* Time, and the process. *)

Older(q) ==
  IF Live(q) THEN [q EXCEPT !.stored = @ + 1, !.age = @ + 1] ELSE q

\* Requests settle within MaxLatency, and timers go off on time.
Tick ==
  /\ \A c \in Caller :
       /\ pc[c] = "fetch" => timer[c] < MaxLatency
       /\ pc[c] = "sleep" => timer[c] < backoff[c]
  /\ cache' = [s \in Symbol |-> Older(cache[s])]
  /\ timer' = [c \in Caller |-> IF pc[c] = "idle" THEN 0 ELSE timer[c] + 1]
  /\ waited' = [c \in Caller |-> IF pc[c] = "idle" THEN 0 ELSE waited[c] + 1]
  /\ UNCHANGED <<pc, symbol, retries, backoff, answer>>

\* The process ends and is started again: the cache is memory, as are the asks.
Restart ==
  /\ cache' = [s \in Symbol |-> NoQuote]
  /\ pc' = [c \in Caller |-> "idle"]
  /\ symbol' = [c \in Caller |-> NoSymbol]
  /\ retries' = [c \in Caller |-> 0]
  /\ backoff' = [c \in Caller |-> Backoff]
  /\ timer' = [c \in Caller |-> 0]
  /\ waited' = [c \in Caller |-> 0]
  /\ answer' = NoPrice

Ask(c) == \E s \in Symbol : AskCached(c, s) \/ AskAnew(c, s)
Go(c) == Fetched(c) \/ Unusable(c) \/ Fails(c) \/ Retry(c) \/ GiveUp(c)

Next == Tick \/ Restart \/ \E c \in Caller : Ask(c) \/ Go(c)

\* Time passes, requests settle and sleepers wake; nobody has to ask.
Fairness == WF_vars(Tick) /\ \A c \in Caller : WF_vars(Go(c))

Spec == Init /\ [][Next]_vars
FairSpec == Spec /\ Fairness

-----------------------------------------------------------------------------
(* Properties. *)

\* No deposit is valued with a price older than the time to live and one request,
\* though fetches of a symbol overtake each other and an older price may replace
\* a newer one and start to live anew.
AnswersAreFresh == answer # NoPrice => answer <= Ttl + MaxLatency

\* A price in the cache spares the request: whoever is still after a symbol with
\* a live price asked before it was stored.  Unless it is zero.
PricesSpareRequests ==
  \A c \in Caller :
    pc[c] # "idle" /\ Hit(symbol[c]) => waited[c] >= cache[symbol[c]].stored

\* A listener that waits for a price does so for a limited time: all requests and
\* all sleeps, each twice the one before, the one after the last request included.
MaxWait == RetryCount * MaxLatency + Backoff * (2 ^ RetryCount - 1)
ListenersAreNotHeldUp == \A c \in Caller : waited[c] <= MaxWait

\* Every ask is settled in the end.
AsksAreSettled == \A c \in Caller : pc[c] # "idle" ~> pc[c] = "idle"
=============================================================================
