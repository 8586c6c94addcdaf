----------------------------- MODULE MarketData -----------------------------
(***************************************************************************)
(* Market data as the hooks and the gates get it: ProviderGatewayService.  *)
(* getOhlcv and getQuote with the two in-memory caches of                  *)
(* OhlcvCacheService (apps/api/src/providers).  Callers run concurrently;  *)
(* a miss of one does not wait for the fetch of another.  An answer is the *)
(* moment it is true of; prices, time frames and URLs are left out, and    *)
(* any provider may be asked (a named one, or the first with credentials). *)
(***************************************************************************)
EXTENDS Integers, FiniteSets, FiniteSetsExt, Selection

CONSTANTS
  Providers, Yahoo,    \* provider plugins, and those of format "generic"
  Readers,
  Instruments,         \* [bars, quotes]: the symbols asked for
  TTL,                 \* [bars, quotes, empty]: lifetimes of what is cached
  MAX_ENTRIES,         \* [bars, quotes]: MAX_OHLCV_ENTRIES, MAX_QUOTE_ENTRIES
  YAHOO_MAX_RETRIES,
  TIMEOUT,             \* the abort signal of one request
  MaxNow               \* bound on the clock

ASSUME MarketAssumption ==
  /\ TTL \in [bars : Nat, quotes : Nat, empty : Nat]
  /\ MAX_ENTRIES \in [bars : Nat \ {0}, quotes : Nat \ {0}]
  /\ {YAHOO_MAX_RETRIES, TIMEOUT, MaxNow} \subseteq Nat

VARIABLES
  now,
  cached,              \* [bars, quotes]: sequences of entries, oldest first
  reading              \* the call of each reader

marketVars == <<now, cached, reading>>

CacheKinds == {"bars", "quotes"}
NotReading == [kind |-> "none", key |-> <<>>, since |-> 0, attempt |-> 0]
Generic(key) == key[1] \in Yahoo

MarketInit ==
  /\ now = 0
  /\ cached = [kind \in CacheKinds |-> <<>>]
  /\ reading = [r \in Readers |-> NotReading]

MarketTypeOK ==
  /\ now \in 0..MaxNow
  /\ reading \in [Readers -> [kind : CacheKinds \cup {"none"}, key : {<<>>} \cup (Providers \X UNION {Instruments[k] : k \in CacheKinds}),
                              since : 0..MaxNow, attempt : 0..YAHOO_MAX_RETRIES]]
  /\ \A kind \in CacheKinds : \A e \in ToSet(cached[kind]) : e.asOf <= now
-----------------------------------------------------------------------------
Expired(e) == now > e.until
Lookup(kind, key) == {e \in ToSet(cached[kind]) : e.key = key}
Without(entries, key) == Only(entries, {e \in ToSet(entries) : e.key # key})

\* evictExpired drops the oldest entries of a cache that is still nine
\* tenths of the OHLCV limit full -- also of the quote cache, whose own
\* limit is lower -- until it has dropped half of what is left by then: a
\* third of the entries, where the comment says a half.
Oldest(n) == Min({i \in 1..n : i >= (n - i) \div 2})
Evict(entries) ==
  LET fresh == Only(entries, {e \in ToSet(entries) : ~Expired(e)})
      n == Len(fresh)
  IN  IF 10 * n >= 9 * MAX_ENTRIES.bars
      THEN SubSeq(fresh, Oldest(n) + 1, n) ELSE fresh

\* How long what is stored may be served.
\* Mutant: an empty answer lives as long as a full one.
LifetimeOfAny(kind, empty) == TTL[kind]

Lifetime(kind, empty) == IF kind = "bars" /\ empty THEN TTL.empty ELSE TTL[kind]

\* A Map keeps the place of a key that is set again.
Put(kind, e) ==
  LET entries == IF Len(cached[kind]) >= MAX_ENTRIES[kind] THEN Evict(cached[kind]) ELSE cached[kind]
  IN  IF \E i \in DOMAIN entries : entries[i].key = e.key
      THEN [i \in DOMAIN entries |-> IF entries[i].key = e.key THEN e ELSE entries[i]]
      ELSE Append(entries, e)
-----------------------------------------------------------------------------
\* getOhlcv and getQuote up to the request: a hit is served from the cache;
\* an entry that has expired is deleted, and any miss is a fetch of its own.
Ask(r, kind, p, i) ==
  /\ reading[r] = NotReading
  /\ IF \E e \in Lookup(kind, <<p, i>>) : ~Expired(e)
     THEN UNCHANGED <<cached, reading>>
     ELSE /\ cached' = [cached EXCEPT ![kind] = Without(@, <<p, i>>)]
          /\ reading' = [reading EXCEPT ![r] = [kind |-> kind, key |-> <<p, i>>,
                                                since |-> now, attempt |-> 0]]
  /\ UNCHANGED now

\* What arrives is stored and handed to the caller; the provider computed it
\* at some moment of the request.
Arrives(r, empty, asOf) ==
  LET kind == reading[r].kind
      e == [key |-> reading[r].key, empty |-> empty, asOf |-> asOf,
            until |-> now + Lifetime(kind, empty)]
  IN  /\ cached' = [cached EXCEPT ![kind] = Put(kind, e)]
      /\ reading' = [reading EXCEPT ![r] = NotReading]
      /\ UNCHANGED now

\* A list without bars, or a quote without a price, is an answer like any.
Answered(r) ==
  /\ reading[r] # NotReading
  /\ \E empty \in BOOLEAN, asOf \in reading[r].since .. now : Arrives(r, empty, asOf)

\* 429 of the generic format: tried again, and after the last retry taken
\* for an empty answer.
RateLimited(r) ==
  /\ reading[r] # NotReading /\ Generic(reading[r].key)
  /\ IF reading[r].attempt < YAHOO_MAX_RETRIES
     THEN /\ reading' = [reading EXCEPT ![r].attempt = @ + 1, ![r].since = now]
          /\ UNCHANGED <<now, cached>>
     ELSE Arrives(r, TRUE, now)

\* Any other status, the abort signal, a granularity that was not asked for:
\* it throws and stores nothing.
RequestFails(r) ==
  /\ reading[r] # NotReading
  /\ reading' = [reading EXCEPT ![r] = NotReading]
  /\ UNCHANGED <<now, cached>>

\* No request outlives its abort signal.
NextMoment ==
  /\ now < MaxNow
  /\ \A r \in Readers : reading[r] # NotReading => now - reading[r].since < TIMEOUT
  /\ now' = now + 1
  /\ UNCHANGED <<cached, reading>>

FlushCaches == /\ cached' = [cached EXCEPT !.bars = <<>>, !.quotes = <<>>]
               /\ UNCHANGED <<now, reading>>

MarketNext ==
  \/ NextMoment
  \/ FlushCaches
  \/ \E r \in Readers :
       \/ \E kind \in CacheKinds : \E p \in Providers, i \in Instruments[kind] : Ask(r, kind, p, i)
       \/ Answered(r)
       \/ RateLimited(r)
       \/ RequestFails(r)

MarketSpec == MarketInit /\ [][MarketNext]_marketVars
-----------------------------------------------------------------------------
\* Whatever order overlapping fetches of one key are answered in, nothing
\* that would still be served is older than its lifetime plus one request,
\* and an empty list of bars not even that: "a short TTL lets the next cycle
\* retry the provider and self-heal" (ohlcv-cache.service.ts:36).
NeverStalerThanPromised ==
  \A kind \in CacheKinds : \A e \in ToSet(cached[kind]) :
    ~Expired(e) =>
      now - e.asOf <= TIMEOUT + (IF kind = "bars" /\ e.empty THEN TTL.empty ELSE TTL[kind])

=============================================================================
