----------------------------- MODULE OriginCache -----------------------------
(***************************************************************************)
(* The origin memory cache of a runtime (packages/core/src/policies/       *)
(* cache.ts) inside the request pipeline that calls it (runtime.ts,        *)
(* dispatch()): lookups, the coalescing of concurrent misses into one      *)
(* flight per key, stale entries served once, the bounded store, and the   *)
(* runtime's close(), which waits for the requests that wait for a flight. *)
(*                                                                         *)
(* A flight is named by the request that leads it, an entry by the request *)
(* whose result it stores.  Handlers, clients and the clock are the        *)
(* environment; a body is its size.                                        *)
(***************************************************************************)
EXTENDS Integers, FiniteSets, SequencesExt, Accounts

CONSTANTS
  Requests,    \* the requests dispatched to routes with an origin cache
  NoRequest,   \* no request
  Keys,        \* the cache keys: route, path, query and declared headers
  MaxWaiters,  \* MAX_WAITERS
  MaxEntries,  \* maxEntries
  StoreBytes,  \* STORE_BYTES
  Sizes,       \* the body sizes below maxBytes
  Protected    \* whether the routes name an extension policy

ASSUME RequestsAssumption == IsFiniteSet(Requests) /\ NoRequest \notin Requests
ASSUME CacheLimitsAssumption ==
  MaxWaiters \in Nat \ {0} /\ MaxEntries \in Nat \ {0} /\ StoreBytes \in Nat
ASSUME BodySizesAssumption == Sizes \subseteq Nat
ASSUME ProtectedAssumption == Protected \in BOOLEAN

VARIABLES
  runtime,    \* "open", "closing": close() waits for `active`, "closed"
  pc,         \* pc[q]: where request q is
  asks,       \* asks[q]: its method class and its key
  joined,     \* joined[q]: the leader of the flight q waits for
  flight,     \* flight[q]: the promise of the flight q leads
  waiters,    \* waiters[q]: how many requests joined that flight
  inflight,   \* the requests in the `inflight` map
  pending,    \* pending[k]: the leader of the flight of key k
  entries,    \* entries[k]: the stored entry of key k
  order,      \* the keys of `entries`, least recently used first
  bytes,      \* the store's byte counter
  result,     \* result[q]: what the handler gave the leader q
  answer      \* answer[q]: how q was answered, and from whose result

requestVars == <<pc, asks, joined, result, answer>>
flightVars == <<flight, waiters, inflight, pending>>
storeVars == <<entries, order, bytes>>
vars == <<runtime, requestVars, flightVars, storeVars>>

\* A conditional or range request has its own class: it is never looked up.
Method == {"GET", "HEAD", "conditional"}
Entry == [by : Requests, size : Sizes, age : {"fresh", "stale", "old"},
          revalidating : BOOLEAN]
NoEntry == [by |-> NoRequest]
Result == {"none", "storable", "private", "stream"}
Answer == [how : {"none", "hit", "stale", "own", "other", "error"},
           from : Requests \cup {NoRequest}]
Answered(how, from) == [how |-> how, from |-> from]

Stored(k) == entries[k] # NoEntry
KeyOf(q) == asks[q].key

\* `active` of the runtime: the requests inside dispatch().
Active == {q \in Requests : pc[q] \in {"lookup", "waiting", "handler"}}

-----------------------------------------------------------------------------
(* dispatch() up to the lookup                                              *)

Dispatch(q) ==
  /\ pc[q] = "new" /\ runtime = "open"
  /\ pc' = [pc EXCEPT ![q] = "lookup"]
  /\ UNCHANGED <<runtime, asks, joined, result, answer, flightVars, storeVars>>

\* A plugin, the agents or the throttle policy or authorize() answers first.
AnswerBeforeLookup(q) ==
  /\ pc[q] = "lookup"
  /\ pc' = [pc EXCEPT ![q] = "done"]
  /\ answer' = [answer EXCEPT ![q] = Answered("other", NoRequest)]
  /\ UNCHANGED <<runtime, asks, joined, result, flightVars, storeVars>>

-----------------------------------------------------------------------------
(* onRequest()                                                              *)

Looks(q) == pc[q] = "lookup" /\ asks[q].method # "conditional"

Fresh(k) == Stored(k) /\ entries[k].age = "fresh"

\* A stale entry is served until one of the requests after it refreshes it.
StaleAlways(k) == Stored(k) /\ entries[k].age = "stale"
ServesStale(k) ==
  Stored(k) /\ entries[k].age = "stale" /\ ~entries[k].revalidating

Missed(q) == Looks(q) /\ ~Fresh(KeyOf(q)) /\ ~ServesStale(KeyOf(q))

Hit(q) ==
  /\ Looks(q) /\ Fresh(KeyOf(q))
  /\ order' = Append(Without(order, KeyOf(q)), KeyOf(q))
  /\ pc' = [pc EXCEPT ![q] = "done"]
  /\ answer' = [answer EXCEPT ![q] = Answered("hit", entries[KeyOf(q)].by)]
  /\ UNCHANGED <<runtime, asks, joined, result, flightVars, entries, bytes>>

Stale(q) ==
  /\ Looks(q) /\ ServesStale(KeyOf(q))
  /\ entries' = [entries EXCEPT ![KeyOf(q)].revalidating = TRUE]
  /\ pc' = [pc EXCEPT ![q] = "done"]
  /\ answer' = [answer EXCEPT ![q] = Answered("stale", entries[KeyOf(q)].by)]
  /\ UNCHANGED <<runtime, asks, joined, result, flightVars, order, bytes>>

\* A flight of the same key takes MaxWaiters waiters.
JoinsAny(k) == pending[k] # NoRequest
Joins(k) == pending[k] # NoRequest /\ waiters[pending[k]] < MaxWaiters

Join(q) ==
  /\ Missed(q) /\ Joins(KeyOf(q))
  /\ pc' = [pc EXCEPT ![q] = "waiting"]
  /\ joined' = [joined EXCEPT ![q] = pending[KeyOf(q)]]
  /\ waiters' = [waiters EXCEPT ![pending[KeyOf(q)]] = @ + 1]
  /\ UNCHANGED <<runtime, asks, result, answer, flight, inflight, pending, storeVars>>

\* The first GET of a key leads its flight.
LeadsAnyway(q) == asks[q].method = "GET"
Leads(q) == pending[KeyOf(q)] = NoRequest /\ asks[q].method = "GET"

Lead(q) ==
  /\ Missed(q) /\ ~Joins(KeyOf(q)) /\ Leads(q)
  /\ pc' = [pc EXCEPT ![q] = "handler"]
  /\ flight' = [flight EXCEPT ![q] = "pending"]
  /\ inflight' = inflight \cup {q}
  /\ pending' = [pending EXCEPT ![KeyOf(q)] = q]
  /\ UNCHANGED <<runtime, asks, joined, result, answer, waiters, storeVars>>

\* A conditional request, a HEAD without a flight or one waiter too many.
Proceed(q) ==
  /\ \/ pc[q] = "lookup" /\ asks[q].method = "conditional"
     \/ Missed(q) /\ ~Joins(KeyOf(q)) /\ ~Leads(q)
  /\ pc' = [pc EXCEPT ![q] = "handler"]
  /\ UNCHANGED <<runtime, asks, joined, result, answer, flightVars, storeVars>>

\* A waiter of a settled flight is served its entry, or goes to the handler.
Resume(q) ==
  /\ pc[q] = "waiting" /\ flight[joined[q]] # "pending"
  /\ IF flight[joined[q]] = "entry"
     THEN /\ pc' = [pc EXCEPT ![q] = "done"]
          /\ answer' = [answer EXCEPT ![q] = Answered("hit", joined[q])]
     ELSE pc' = [pc EXCEPT ![q] = "handler"] /\ UNCHANGED answer
  /\ UNCHANGED <<runtime, asks, joined, result, flightVars, storeVars>>

-----------------------------------------------------------------------------
(* onResponse() and onError()                                               *)

\* The flight q leads is settled and its key is free again.
LeaveFlight(q, how) == UNCHANGED <<flight, inflight, pending>>
SettleFlight(q, how) ==
  /\ flight' = [flight EXCEPT ![q] = how]
  /\ inflight' = inflight \ {q}
  /\ pending' = [pending EXCEPT ![KeyOf(q)] = NoRequest]

\* A failed fill lets a stale entry be served once more.
Unflag(k) ==
  entries' = IF Stored(k) THEN [entries EXCEPT ![k].revalidating = FALSE] ELSE entries

FailUnsettled(q) == LeaveFlight(q, "failed") /\ Unflag(KeyOf(q))
FailFlight(q) == SettleFlight(q, "failed") /\ Unflag(KeyOf(q))

\* The keys that stay when the least recently used are evicted until the rest
\* is within both bounds: `held` and `total` are the order and the bytes before.
SizeOf(ks, held) == Total(ks, [k \in ks |-> held[k].size])
Evicted(sizes, held, total) ==
  LET Fits(n) == /\ Len(held) - n <= MaxEntries
                 /\ total - SizeOf({held[i] : i \in 1..n}, sizes) <= StoreBytes
  IN CHOOSE n \in 0..Len(held) : Fits(n) /\ \A m \in 0..(n - 1) : ~Fits(m)

\* The entry a new one replaces gives its bytes back.
ReplacedKept(k) == bytes
Replaced(k) == IF Stored(k) THEN bytes - entries[k].size ELSE bytes

Store(q, size) ==
  LET k == KeyOf(q)
      filled == [entries EXCEPT ![k] = [by |-> q, size |-> size, age |-> "fresh",
                                        revalidating |-> FALSE]]
      held == Append(Without(order, k), k)
      total == Replaced(k) + size
      n == Evicted(filled, held, total)
      gone == {held[i] : i \in 1..n}
  IN /\ order' = SubSeq(held, n + 1, Len(held))
     /\ entries' = [j \in Keys |-> IF j \in gone THEN NoEntry ELSE filled[j]]
     /\ bytes' = total - SizeOf(gone, filled)

\* What the leader of a flight stores.  A private result is one with a cookie,
\* a restrictive or undeclared header, a status or a size that is not stored.
StorableAlways(r) == r # "stream"
Storable(r) == r = "storable"

\* The handler, a middleware or a 405 answered, and the response phase ran.
Respond(q) ==
  /\ pc[q] = "handler"
  /\ pc' = [pc EXCEPT ![q] = "done"]
  /\ answer' = [answer EXCEPT ![q] = Answered("own", q)]
  /\ IF q \in inflight
     THEN \E r \in {"storable", "private", "stream"} :
            /\ result' = [result EXCEPT ![q] = r]
            /\ IF Storable(r)
               THEN SettleFlight(q, "entry") /\ \E s \in Sizes : Store(q, s)
               ELSE SettleFlight(q, "empty") /\ UNCHANGED storeVars
     ELSE UNCHANGED <<result, flight, inflight, pending, storeVars>>
  /\ UNCHANGED <<runtime, asks, joined, waiters>>

Throw(q) ==
  /\ pc[q] = "handler"
  /\ pc' = [pc EXCEPT ![q] = "done"]
  /\ answer' = [answer EXCEPT ![q] = Answered("error", NoRequest)]
  /\ IF q \in inflight
     THEN FailFlight(q)
     ELSE UNCHANGED <<flight, inflight, pending, entries>>
  /\ UNCHANGED <<runtime, asks, joined, result, waiters, order, bytes>>

\* On a protected route a plugin answers after the lookup, and the response
\* phase skips the policies with a request phase; or the extension's middleware
\* answers for the error of its next(), and no response phase runs.
AnswerAround(q) ==
  /\ Protected /\ pc[q] = "handler"
  /\ pc' = [pc EXCEPT ![q] = "done"]
  /\ answer' = [answer EXCEPT ![q] = Answered("other", NoRequest)]
  /\ UNCHANGED <<runtime, asks, joined, result, flightVars, storeVars>>

\* The clock: an entry leaves its fresh, then its stale window.
Ages(k) ==
  /\ Stored(k) /\ entries[k].age # "old"
  /\ entries' = [entries EXCEPT ![k].age = IF @ = "fresh" THEN "stale" ELSE "old"]
  /\ UNCHANGED <<runtime, requestVars, flightVars, order, bytes>>

-----------------------------------------------------------------------------
(* The runtime's close()                                                    *)

CloseBegin ==
  /\ runtime = "open"
  /\ runtime' = "closing"
  /\ UNCHANGED <<requestVars, flightVars, storeVars>>

\* No dispatch is in progress any more: closePolicies() drops the store.
ClosePolicies ==
  /\ runtime = "closing" /\ Active = {}
  /\ runtime' = "closed"
  /\ flight' = [q \in Requests |-> IF flight[q] = "pending" THEN "failed" ELSE flight[q]]
  /\ pending' = [k \in Keys |-> NoRequest]
  /\ entries' = [k \in Keys |-> NoEntry] /\ order' = <<>> /\ bytes' = 0
  /\ UNCHANGED <<requestVars, waiters, inflight>>

-----------------------------------------------------------------------------
Init ==
  /\ runtime = "open"
  /\ pc = [q \in Requests |-> "new"]
  /\ asks \in [Requests -> [method : Method, key : Keys]]
  /\ joined = [q \in Requests |-> NoRequest]
  /\ flight = [q \in Requests |-> "none"]
  /\ waiters = [q \in Requests |-> 0]
  /\ inflight = {}
  /\ pending = [k \in Keys |-> NoRequest]
  /\ entries = [k \in Keys |-> NoEntry]
  /\ order = <<>> /\ bytes = 0
  /\ result = [q \in Requests |-> "none"]
  /\ answer = [q \in Requests |-> Answered("none", NoRequest)]

Lookup(q) == Hit(q) \/ Stale(q) \/ Join(q) \/ Lead(q) \/ Proceed(q)

\* What the runtime does with a dispatched request; a handler is bounded by its
\* timeout.
Program(q) ==
  AnswerBeforeLookup(q) \/ Lookup(q) \/ Resume(q) \/ Respond(q) \/ Throw(q)

Next ==
  \/ \E q \in Requests : Dispatch(q) \/ Program(q) \/ AnswerAround(q)
  \/ \E k \in Keys : Ages(k)
  \/ CloseBegin \/ ClosePolicies

Fairness == (\A q \in Requests : WF_vars(Program(q))) /\ WF_vars(ClosePolicies)

Spec == Init /\ [][Next]_vars /\ Fairness

-----------------------------------------------------------------------------
(* Properties                                                               *)

\* The shape of the cache's and the requests' state; no flight has more waiters
\* than MaxWaiters.
TypeOK ==
  /\ runtime \in {"open", "closing", "closed"}
  /\ pc \in [Requests -> {"new", "lookup", "waiting", "handler", "done"}]
  /\ asks \in [Requests -> [method : Method, key : Keys]]
  /\ joined \in [Requests -> Requests \cup {NoRequest}]
  /\ flight \in [Requests -> {"none", "pending", "entry", "empty", "failed"}]
  /\ waiters \in [Requests -> 0..MaxWaiters]
  /\ inflight \subseteq Requests
  /\ pending \in [Keys -> Requests \cup {NoRequest}]
  /\ entries \in [Keys -> Entry \cup {NoEntry}]
  /\ order \in Seq(Keys)
  /\ bytes \in Nat
  /\ result \in [Requests -> Result]
  /\ answer \in [Requests -> Answer]

\* The store is bounded and its accounts are true: `order` lists each stored key
\* once, `bytes` is the sum of the stored bodies, and both are within bounds
\* after any sequence of stores, replacements, hits and evictions.
StoreExact ==
  /\ ToSet(order) = {k \in Keys : Stored(k)}
  /\ Len(order) = Cardinality(ToSet(order))
  /\ bytes = SizeOf(ToSet(order), entries)
  /\ Len(order) <= MaxEntries /\ bytes <= StoreBytes

\* A flight that is pending for a key has its leader in the handler, where a
\* response or an error will settle it, and each waiter waits for a flight that
\* was settled or that its key still names: none waits for nobody.
FlightsLed ==
  /\ \A k \in Keys : pending[k] # NoRequest =>
       /\ pending[k] \in inflight /\ KeyOf(pending[k]) = k
       /\ pc[pending[k]] = "handler" /\ flight[pending[k]] = "pending"
  /\ \A q \in Requests : pc[q] = "waiting" =>
       /\ joined[q] \in Requests /\ KeyOf(joined[q]) = KeyOf(q)
       /\ flight[joined[q]] = "pending" => pending[KeyOf(q)] = joined[q]

\* Nobody is answered with a result that was not to be shared: what a hit, a
\* stale answer or a coalesced waiter receives was stored for the same key by a
\* GET whose result was storable.
SharesStorable ==
  \A q \in Requests : answer[q].how \in {"hit", "stale"} =>
    LET leader == answer[q].from IN
      /\ leader \in Requests /\ KeyOf(leader) = KeyOf(q)
      /\ asks[leader].method = "GET" /\ result[leader] = "storable"

\* "Stale served once, next request refreshes" (docs/policies/cache.md): an
\* entry is served stale once, and once more for each refresh that failed.
FailedFills(k) == {q \in Requests : KeyOf(q) = k /\ flight[q] = "failed"}
StaleOnce ==
  \A e \in Requests :
    LET served == {q \in Requests : answer[q] = Answered("stale", e)}
    IN Cardinality(served) <= 1 + Cardinality(FailedFills(KeyOf(e)))

\* Every coalesced request is answered or reaches the handler, however the fill
\* it waits for ends.
WaitersReleased == \A q \in Requests : pc[q] = "waiting" ~> pc[q] # "waiting"

\* close() returns: no request waits for a flight that only close() would settle.
CloseEnds == runtime = "closing" ~> runtime = "closed"
=============================================================================
