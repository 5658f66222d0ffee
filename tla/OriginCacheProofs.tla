-------------------------- MODULE OriginCacheProofs --------------------------
(***************************************************************************)
(* Proofs about OriginCache, for any requests, keys and limits: what is    *)
(* shared was storable, the store's order and bytes are exact and a stale  *)
(* entry is served once per refresh (on every route), and every pending    *)
(* flight is led (on the routes that name no extension policy).            *)
(***************************************************************************)
EXTENDS OriginCache, AccountsProofs

\* The part of TypeOK these proofs rest on: all but the order and the bytes.
Shape ==
  /\ runtime \in {"open", "closing", "closed"}
  /\ pc \in [Requests -> {"new", "lookup", "waiting", "handler", "done"}]
  /\ asks \in [Requests -> [method : Method, key : Keys]]
  /\ joined \in [Requests -> Requests \cup {NoRequest}]
  /\ flight \in [Requests -> {"none", "pending", "entry", "empty", "failed"}]
  /\ waiters \in [Requests -> 0..MaxWaiters]
  /\ inflight \subseteq Requests
  /\ pending \in [Keys -> Requests \cup {NoRequest}]
  /\ entries \in [Keys -> Entry \cup {NoEntry}]
  /\ result \in [Requests -> Result]
  /\ answer \in [Requests -> Answer]

\* The result of l may be shared under key k.
Sharable(l, k) ==
  /\ l \in Requests /\ KeyOf(l) = k
  /\ asks[l].method = "GET" /\ result[l] = "storable"

\* What may be shared is shared: in the store, through a flight, in an answer.
Shared ==
  /\ \A k \in Keys : Stored(k) => Sharable(entries[k].by, k)
  /\ \A q \in Requests : flight[q] = "entry" => Sharable(q, KeyOf(q))
  /\ \A q \in Requests : answer[q].how \in {"hit", "stale"} =>
       Sharable(answer[q].from, KeyOf(q))

\* Why that stays so: a request is given its result once, when it is done, only
\* a GET leads a flight and a waiter joins one of its own key.
Leading ==
  /\ \A q \in Requests : result[q] # "none" => pc[q] = "done"
  /\ \A q \in inflight : asks[q].method = "GET"
  /\ \A k \in Keys : pending[k] # NoRequest =>
       KeyOf(pending[k]) = k /\ pending[k] \in Requests
  /\ \A q \in Requests : pc[q] = "waiting" =>
       joined[q] \in Requests /\ KeyOf(joined[q]) = KeyOf(q)

ShareInv == Shape /\ Leading /\ Shared

\* The entry is of a request, and is not the absent one.
LEMMA EntryBy == ASSUME Shape, NEW k \in Keys, Stored(k)
                 PROVE  entries[k] \in Entry /\ entries[k].by \in Requests
<1>1. entries[k] \in Entry
  BY DEF Shape, Stored
<1>2. QED BY <1>1 DEF Entry

-----------------------------------------------------------------------------
(* The shape of the state                                                   *)

LEMMA ShareInit == Init => ShareInv
<1> SUFFICES ASSUME Init PROVE ShareInv
  OBVIOUS
<1>1. Shape
  BY CacheLimitsAssumption DEF Init, Shape, Answered, Answer, Result
<1>2. Leading /\ Shared
  BY DEF Init, Leading, Shared, Stored, Answered
<1>3. QED BY <1>1, <1>2 DEF ShareInv

\* A store leaves each key its entry, no entry or the new one.
LEMMA StoreEntries ==
  ASSUME Shape, NEW q \in Requests, NEW s \in Sizes, Store(q, s)
  PROVE  /\ entries' \in [Keys -> Entry \cup {NoEntry}]
         /\ \A j \in Keys :
              \/ entries'[j] = NoEntry
              \/ entries'[j] = entries[j]
              \/ j = KeyOf(q) /\ entries'[j].by = q
<1> DEFINE new == [by |-> q, size |-> s, age |-> "fresh", revalidating |-> FALSE]
           filled == [entries EXCEPT ![KeyOf(q)] = new]
<1>1. new \in Entry
  BY BodySizesAssumption DEF Entry
<1>2. KeyOf(q) \in Keys
  BY DEF Shape, KeyOf
<1>3. filled \in [Keys -> Entry \cup {NoEntry}]
  BY <1>1, <1>2 DEF Shape
<1>4. \A j \in Keys : entries'[j] = NoEntry \/ entries'[j] = filled[j]
  BY DEF Store
<1>6. entries' \in [Keys -> Entry \cup {NoEntry}]
  <2>1. ASSUME NEW j \in Keys  PROVE entries'[j] \in Entry \cup {NoEntry}
    BY <1>3, <1>4
  <2>2. QED BY <2>1 DEF Store
<1>7. \A j \in Keys : j # KeyOf(q) => filled[j] = entries[j]
  BY DEF Shape
<1>8. filled[KeyOf(q)] = new
  BY <1>2 DEF Shape
<1>9. QED BY <1>4, <1>6, <1>7, <1>8

-----------------------------------------------------------------------------
(* What is shared was storable                                              *)

\* An answer that shares a sharable result keeps what is shared sharable, whatever
\* becomes of the flags of the stored entries.
LEMMA ServedShares ==
  ASSUME Shape, Shared, NEW q \in Requests, NEW l, NEW how \in {"hit", "stale"},
         Sharable(l, KeyOf(q)), answer' = [answer EXCEPT ![q] = Answered(how, l)],
         \A k \in Keys : Stored(k)' => Stored(k) /\ entries'[k].by = entries[k].by,
         UNCHANGED <<asks, result, flight>>
  PROVE  Shared'
<1>1. \A p : KeyOf(p)' = KeyOf(p)
  BY DEF KeyOf
<1>2. ASSUME NEW k \in Keys, Stored(k)'  PROVE Sharable(entries[k].by, k)'
  <2>1. Sharable(entries[k].by, k) /\ entries'[k].by = entries[k].by
    BY <1>2 DEF Shared
  <2>2. QED BY <2>1, <1>1 DEF Sharable
<1>3. ASSUME NEW p \in Requests, flight'[p] = "entry"  PROVE Sharable(p, KeyOf(p))'
  <2>1. Sharable(p, KeyOf(p))
    BY <1>3 DEF Shared
  <2>2. QED BY <2>1, <1>1 DEF Sharable
<1>4. ASSUME NEW p \in Requests, answer'[p].how \in {"hit", "stale"}
      PROVE  Sharable(answer[p].from, KeyOf(p))'
  <2>1. Sharable(answer'[p].from, KeyOf(p))
    <3>1. CASE p = q
      BY <3>1 DEF Shape, Answered
    <3>2. CASE p # q
      <4>1. answer'[p] = answer[p]
        BY <3>2 DEF Shape
      <4>2. QED BY <4>1, <1>4 DEF Shared
    <3>3. QED BY <3>1, <3>2
  <2>2. QED BY <2>1, <1>1 DEF Sharable
<1>5. QED BY <1>2, <1>3, <1>4 DEF Shared

LEMMA LookupShares == ASSUME ShareInv, NEW q \in Requests, Lookup(q)  PROVE ShareInv'
<1> USE DEF ShareInv, flightVars, storeVars
<1>0. KeyOf(q) \in Keys
  BY DEF Shape, KeyOf
<1>1. CASE Hit(q)
  <2> USE <1>1 DEF Hit, Fresh
  <2>1. Sharable(entries[KeyOf(q)].by, KeyOf(q))
    BY <1>0 DEF Shared
  <2>2. Shape'
    BY <2>1 DEF Shape, Answer, Answered, Sharable
  <2>3. Leading'
    BY DEF Leading, KeyOf, Shape, Looks
  <2>4. Shared'
    BY <2>1, ServedShares DEF Stored
  <2>5. QED BY <2>2, <2>3, <2>4
<1>2. CASE Stale(q)
  <2> USE <1>2 DEF Stale, ServesStale
  <2>1. /\ Sharable(entries[KeyOf(q)].by, KeyOf(q))
        /\ entries[KeyOf(q)] \in Entry
    BY <1>0, EntryBy DEF Shared
  <2>2. /\ entries' \in [Keys -> Entry \cup {NoEntry}]
        /\ \A k \in Keys : Stored(k)' => Stored(k) /\ entries'[k].by = entries[k].by
    BY <2>1, <1>0 DEF Shape, Entry, Stored
  <2>3. Shape'
    BY <2>1, <2>2 DEF Shape, Answer, Answered, Sharable
  <2>4. Leading'
    BY DEF Leading, KeyOf, Shape, Looks
  <2>5. Shared'
    BY <2>1, <2>2, ServedShares
  <2>6. QED BY <2>3, <2>4, <2>5
<1>3. CASE Join(q)
  <2> USE <1>3, <1>0 DEF Join, Joins
  <2>1. pending[KeyOf(q)] \in Requests /\ KeyOf(pending[KeyOf(q)]) = KeyOf(q)
    BY DEF Leading
  <2>2. Shape'
    BY <2>1, CacheLimitsAssumption DEF Shape
  <2>3. Leading'
    BY <2>1 DEF Leading, KeyOf, Shape, Missed, Looks
  <2>4. Shared'
    BY DEF Shared, Sharable, KeyOf, Stored
  <2>5. QED BY <2>2, <2>3, <2>4
<1>4. CASE Lead(q)
  <2> USE <1>4, <1>0 DEF Lead, Leads
  <2>1. Shape'
    BY DEF Shape
  <2>2. Leading'
    BY DEF Leading, KeyOf, Shape, Missed, Looks
  <2>3. Shared'
    BY DEF Shared, Sharable, KeyOf, Stored, Shape
  <2>4. QED BY <2>1, <2>2, <2>3
<1>5. CASE Proceed(q)
  <2> USE <1>5 DEF Proceed, Missed, Looks
  <2>1. Shape'
    BY DEF Shape
  <2>2. Leading'
    BY DEF Leading, KeyOf, Shape
  <2>3. Shared'
    BY DEF Shared, Sharable, KeyOf, Stored
  <2>4. QED BY <2>1, <2>2, <2>3
<1>6. QED BY <1>1, <1>2, <1>3, <1>4, <1>5 DEF Lookup

LEMMA ResumeShares == ASSUME ShareInv, NEW q \in Requests, Resume(q)  PROVE ShareInv'
<1> USE DEF ShareInv, Resume, flightVars, storeVars
<1>1. joined[q] \in Requests /\ KeyOf(joined[q]) = KeyOf(q)
  BY DEF Leading
<1>2. Shape'
  <2>1. answer' \in [Requests -> Answer]
    <3>1. Answered("hit", joined[q]) \in Answer
      BY <1>1 DEF Answer, Answered
    <3>2. QED BY <3>1 DEF Shape
  <2>2. pc' \in [Requests -> {"new", "lookup", "waiting", "handler", "done"}]
    BY DEF Shape
  <2>3. QED BY <2>1, <2>2 DEF Shape
<1>3. Leading'
  BY DEF Leading, KeyOf, Shape
<1>4. Shared'
  BY <1>1 DEF Shared, Shape, Answered, Sharable, KeyOf, Stored
<1>5. QED BY <1>2, <1>3, <1>4

\* A response: the leader of a flight stores its result, or does not.
LEMMA RespondShares == ASSUME ShareInv, NEW q \in Requests, Respond(q)  PROVE ShareInv'
<1> USE DEF ShareInv, Respond, Answered
<1>0. KeyOf(q) \in Keys /\ result[q] = "none"
  BY DEF Shape, KeyOf, Leading
<1>1. CASE q \notin inflight
  <2> USE <1>1
  <2>1. Shape'
    BY DEF Shape, Answer, storeVars
  <2>2. Leading'
    BY DEF Leading, KeyOf, Shape
  <2>3. Shared'
    BY DEF Shared, Sharable, KeyOf, Stored, Shape, storeVars
  <2>4. QED BY <2>1, <2>2, <2>3
<1>2. CASE q \in inflight
  <2> PICK r \in {"storable", "private", "stream"} :
        /\ result' = [result EXCEPT ![q] = r]
        /\ IF Storable(r)
           THEN SettleFlight(q, "entry") /\ \E s \in Sizes : Store(q, s)
           ELSE SettleFlight(q, "empty") /\ UNCHANGED storeVars
    BY <1>2
  <2> USE <1>2 DEF SettleFlight, Storable
  <2>1. /\ entries' \in [Keys -> Entry \cup {NoEntry}]
        /\ \A j \in Keys : \/ entries'[j] = NoEntry
                           \/ entries'[j] = entries[j]
                           \/ /\ j = KeyOf(q) /\ entries'[j].by = q
                              /\ r = "storable"
    BY StoreEntries DEF storeVars, Shape
  <2>2. Shape'
    <3>1. result' \in [Requests -> Result] /\ answer' \in [Requests -> Answer]
      BY DEF Shape, Answer, Result
    <3>2. /\ flight' \in [Requests -> {"none", "pending", "entry", "empty", "failed"}]
          /\ inflight' \subseteq Requests
          /\ pending' \in [Keys -> Requests \cup {NoRequest}]
      BY DEF Shape
    <3>3. /\ pc' \in [Requests -> {"new", "lookup", "waiting", "handler", "done"}]
          /\ UNCHANGED <<runtime, asks, joined, waiters>>
      BY DEF Shape
    <3>4. QED BY <2>1, <3>1, <3>2, <3>3 DEF Shape
  <2>3. Leading'
    BY <1>0 DEF Leading, KeyOf, Shape
  <2>4. \A l, k : Sharable(l, k) => Sharable(l, k)'
    BY <1>0 DEF Sharable, KeyOf, Shape
  <2>5. r = "storable" => Sharable(q, KeyOf(q))'
    BY DEF Sharable, KeyOf, Shape, Leading
  <2>6. \A x \in Requests : KeyOf(x)' = KeyOf(x)
    BY DEF KeyOf
  <2>7. ASSUME NEW k \in Keys, Stored(k)'
        PROVE  (Sharable(entries[k].by, k))'
    <3>1. CASE entries'[k] = entries[k]
      BY <2>4, <2>7, <3>1 DEF Shared, Stored
    <3>2. CASE k = KeyOf(q) /\ entries'[k].by = q /\ r = "storable"
      BY <2>5, <2>6, <3>2
    <3>3. QED BY <2>1, <2>7, <3>1, <3>2 DEF Stored
  <2>8. \A x \in Requests : (flight[x] = "entry" => Sharable(x, KeyOf(x)))'
    BY <2>4, <2>5, <2>6 DEF Shared, Shape
  <2>9. ASSUME NEW x \in Requests, answer'[x].how \in {"hit", "stale"}
        PROVE  (Sharable(answer[x].from, KeyOf(x)))'
    <3>1. x # q /\ answer'[x] = answer[x]
      BY <2>9 DEF Shape
    <3>2. QED BY <2>4, <2>6, <2>9, <3>1 DEF Shared
  <2>10. QED BY <2>2, <2>3, <2>7, <2>8, <2>9 DEF Shared
<1>3. QED BY <1>1, <1>2

\* An error: a leader fails its flight and lets the stale entry be served again.
LEMMA ThrowShares == ASSUME ShareInv, NEW q \in Requests, Throw(q)  PROVE ShareInv'
<1> USE DEF ShareInv, Throw, Answered
<1>0. KeyOf(q) \in Keys
  BY DEF Shape, KeyOf
<1>1. /\ entries' \in [Keys -> Entry \cup {NoEntry}]
      /\ \A k \in Keys : Stored(k)' => Stored(k) /\ entries'[k].by = entries[k].by
  <2>1. Stored(KeyOf(q)) => entries[KeyOf(q)] \in Entry
    BY <1>0, EntryBy
  <2>2. CASE q \in inflight /\ Stored(KeyOf(q))
    <3>1. entries' = [entries EXCEPT ![KeyOf(q)].revalidating = FALSE]
      BY <2>2 DEF FailFlight, Unflag
    <3>2. QED BY <1>0, <2>1, <2>2, <3>1 DEF Shape, Entry, Stored
  <2>3. CASE ~(q \in inflight /\ Stored(KeyOf(q)))
    <3>1. entries' = entries
      BY <2>3 DEF FailFlight, Unflag
    <3>2. QED BY <3>1 DEF Shape, Stored
  <2>4. QED BY <2>2, <2>3
<1>2. Shape'
  BY <1>1, RequestsAssumption DEF Shape, Answer, FailFlight, SettleFlight
<1>3. Leading'
  BY DEF Leading, KeyOf, Shape, FailFlight, SettleFlight
<1>4. Shared'
  BY <1>1 DEF Shared, Sharable, KeyOf, Shape, FailFlight, SettleFlight
<1>5. QED BY <1>2, <1>3, <1>4

LEMMA ShareStep == ShareInv /\ [Next]_vars => ShareInv'
<1> SUFFICES ASSUME ShareInv, [Next]_vars PROVE ShareInv'
  OBVIOUS
<1> USE DEF ShareInv, flightVars, storeVars, requestVars
<1>1. ASSUME NEW q \in Requests,
             Dispatch(q) \/ AnswerBeforeLookup(q) \/ AnswerAround(q)
      PROVE  ShareInv'
  <2> USE <1>1 DEF Dispatch, AnswerBeforeLookup, AnswerAround
  <2>1. Shape'
    <3>1. Answered("other", NoRequest) \in Answer
      BY DEF Answer, Answered
    <3>2. answer' \in [Requests -> Answer]
      BY <3>1 DEF Shape
    <3>3. QED BY <3>2 DEF Shape
  <2>2. Leading'
    BY DEF Leading, KeyOf, Shape
  <2>3. Shared'
    BY DEF Shared, Sharable, KeyOf, Stored, Shape, Answered
  <2>4. QED BY <2>1, <2>2, <2>3
<1>2. ASSUME NEW q \in Requests, Lookup(q) \/ Resume(q) \/ Respond(q) \/ Throw(q)
      PROVE  ShareInv'
  BY <1>2, LookupShares, ResumeShares, RespondShares, ThrowShares
<1>3. ASSUME NEW k \in Keys, Ages(k)  PROVE ShareInv'
  <2> USE <1>3 DEF Ages
  <2>1. entries[k] \in Entry
    BY EntryBy
  <2>2. /\ entries' \in [Keys -> Entry \cup {NoEntry}]
        /\ \A j \in Keys : Stored(j)' => Stored(j) /\ entries'[j].by = entries[j].by
    BY <2>1 DEF Shape, Entry, Stored
  <2>3. Shape'
    BY <2>2 DEF Shape
  <2>4. Leading'
    BY DEF Leading, KeyOf
  <2>5. Shared'
    BY <2>2 DEF Shared, Sharable, KeyOf
  <2>6. QED BY <2>3, <2>4, <2>5
<1>4. CASE CloseBegin
  BY <1>4 DEF CloseBegin, Shape, Leading, Shared, Sharable, KeyOf, Stored
<1>5. CASE ClosePolicies
  <2> USE <1>5 DEF ClosePolicies
  <2>1. Shape'
    BY DEF Shape
  <2>2. Leading'
    BY DEF Leading, KeyOf
  <2>3. Shared'
    BY DEF Shared, Sharable, KeyOf, Stored, Shape
  <2>4. QED BY <2>1, <2>2, <2>3
<1>6. CASE UNCHANGED vars
  BY <1>6 DEF vars, Shape, Leading, Shared, Sharable, KeyOf, Stored
<1>7. QED BY <1>1, <1>2, <1>3, <1>4, <1>5, <1>6 DEF Next, Program

LEMMA ShareInvariant == Spec => []ShareInv
BY ShareInit, ShareStep, PTL DEF Spec

\* No hit, stale answer or coalesced waiter ever receives a result that was not
\* to be shared, or one stored for another key.
THEOREM ResultsShared == Spec => []SharesStorable
<1>1. ShareInv => SharesStorable
  BY DEF ShareInv, Shared, Sharable, SharesStorable
<1>2. QED BY ShareInvariant, <1>1, PTL

-----------------------------------------------------------------------------
(* Every flight is led, on the routes that name no extension policy         *)

\* The leader of a flight is in the handler and leads the flight of its key; a
\* waiter waits for a flight that has begun.
Led ==
  /\ \A q \in inflight : /\ pc[q] = "handler" /\ flight[q] = "pending"
                         /\ pending[KeyOf(q)] = q
  /\ \A q \in Requests : pc[q] = "waiting" => pc[joined[q]] \in {"handler", "done"}

LedInv == ShareInv /\ Led /\ FlightsLed

LEMMA LedInit == Init => LedInv
BY ShareInit DEF Init, LedInv, Led, FlightsLed

\* A request that moves on outside the handler, without touching a flight.
LEMMA MoveLed ==
  ASSUME LedInv, NEW q \in Requests, NEW to \in {"lookup", "handler", "done"},
         pc[q] \in {"new", "lookup", "waiting"}, pc' = [pc EXCEPT ![q] = to],
         UNCHANGED <<asks, joined, flight, inflight, pending>>
  PROVE  Led' /\ FlightsLed'
<1> USE DEF LedInv, ShareInv, KeyOf
<1>1. q \notin inflight
  BY DEF Led
<1>2. \A x \in Requests : x # q => pc'[x] = pc[x]
  BY DEF Shape
<1>3. pc'[q] = to
  BY DEF Shape
<1>4. Led'
  <2>1. \A x \in inflight : (pc[x] = "handler" /\ flight[x] = "pending"
                             /\ pending[KeyOf(x)] = x)'
    BY <1>1, <1>2 DEF Led, Shape
  <2>2. ASSUME NEW x \in Requests, pc'[x] = "waiting"
        PROVE  pc'[joined[x]] \in {"handler", "done"}
    <3>1. pc[x] = "waiting" /\ joined[x] \in Requests
      BY <1>2, <1>3, <2>2 DEF Leading
    <3>2. pc[joined[x]] \in {"handler", "done"}
      BY <3>1 DEF Led
    <3>3. QED BY <1>2, <3>1, <3>2
  <2>3. QED BY <2>1, <2>2 DEF Led
<1>5. FlightsLed'
  BY <1>1, <1>2, <1>3 DEF FlightsLed, Shape
<1>6. QED BY <1>4, <1>5

\* A request that is looked up joins a flight, leads one, or changes none.
LEMMA LookupLed == ASSUME LedInv, NEW q \in Requests, Lookup(q)
                   PROVE  Led' /\ FlightsLed'
<1> USE DEF LedInv, ShareInv, flightVars, KeyOf, Missed, Looks
<1>0. asks[q].key \in Keys
  BY DEF Shape
<1>1. CASE Hit(q) \/ Stale(q) \/ Proceed(q)
  BY <1>1, MoveLed DEF Hit, Stale, Proceed
<1>2. CASE Join(q)
  <2> USE <1>2 DEF Join, Joins
  <2>1. /\ pending[asks[q].key] \in Requests \cap inflight
        /\ asks[pending[asks[q].key]].key = asks[q].key
    BY <1>0 DEF Leading, FlightsLed
  <2>2. Led'
    BY <1>0, <2>1 DEF Led, Shape
  <2>3. FlightsLed'
    BY <1>0, <2>1 DEF Led, FlightsLed, Shape
  <2>4. QED BY <2>2, <2>3
<1>3. CASE Lead(q)
  <2> USE <1>0, <1>3 DEF Lead, Leads
  <2>0. /\ q \notin inflight /\ pc[q] = "lookup" /\ NoRequest \notin Requests
        /\ pc'[q] = "handler" /\ flight'[q] = "pending"
        /\ pending'[asks[q].key] = q
        /\ \A x \in Requests \ {q} : pc'[x] = pc[x] /\ flight'[x] = flight[x]
        /\ \A k \in Keys \ {asks[q].key} : pending'[k] = pending[k]
    BY RequestsAssumption DEF Led, Shape
  <2>1. Led'
    <3>1. ASSUME NEW x \in inflight
          PROVE  /\ pc'[x] = "handler" /\ flight'[x] = "pending"
                 /\ pending'[asks[x].key] = x
      <4>1. x \in Requests \ {q} /\ asks[x].key \in Keys \ {asks[q].key}
        BY <2>0 DEF Led, Shape
      <4>2. QED BY <2>0, <4>1 DEF Led
    <3>2. ASSUME NEW x \in Requests, pc'[x] = "waiting"
          PROVE  pc'[joined[x]] \in {"handler", "done"}
      BY <2>0, <3>2 DEF Led, Leading
    <3>3. QED BY <2>0, <3>1, <3>2 DEF Led
  <2>2. \A k \in Keys : (pending[k] # NoRequest =>
          /\ pending[k] \in inflight /\ KeyOf(pending[k]) = k
          /\ pc[pending[k]] = "handler" /\ flight[pending[k]] = "pending")'
    BY DEF FlightsLed, Led, Shape
  <2>3. \A x \in Requests : (pc[x] = "waiting" =>
          /\ joined[x] \in Requests /\ KeyOf(joined[x]) = KeyOf(x)
          /\ flight[joined[x]] = "pending" => pending[KeyOf(x)] = joined[x])'
    BY <2>0 DEF FlightsLed, Led, Shape
  <2>4. QED BY <2>1, <2>2, <2>3 DEF FlightsLed
<1>4. QED BY <1>1, <1>2, <1>3 DEF Lookup

\* The end of a request in the handler settles the flight it leads, and no other.
LEMMA HandlerEndLed ==
  ASSUME LedInv, NEW q \in Requests, pc[q] = "handler",
         pc' = [pc EXCEPT ![q] = "done"], UNCHANGED <<asks, joined>>,
         \/ \E how \in {"entry", "empty", "failed"} :
              q \in inflight /\ SettleFlight(q, how)
         \/ q \notin inflight /\ UNCHANGED <<flight, inflight, pending>>
  PROVE  Led' /\ FlightsLed'
<1> USE DEF LedInv, ShareInv, KeyOf
<1>0. asks[q].key \in Keys
  BY DEF Shape
<1>1. CASE q \notin inflight /\ UNCHANGED <<flight, inflight, pending>>
  BY <1>0, <1>1 DEF Led, FlightsLed, Shape
<1>2. ASSUME NEW how \in {"entry", "empty", "failed"},
             q \in inflight, SettleFlight(q, how)
      PROVE  Led' /\ FlightsLed'
  <2> USE <1>0, <1>2 DEF SettleFlight
  <2>1. Led'
    BY DEF Led, Shape
  <2>2. \A k \in Keys : (pending[k] # NoRequest =>
          /\ pending[k] \in inflight /\ KeyOf(pending[k]) = k
          /\ pc[pending[k]] = "handler" /\ flight[pending[k]] = "pending")'
    BY DEF FlightsLed, Led, Shape
  <2>3. \A x \in Requests : (pc[x] = "waiting" =>
          /\ joined[x] \in Requests /\ KeyOf(joined[x]) = KeyOf(x)
          /\ flight[joined[x]] = "pending" => pending[KeyOf(x)] = joined[x])'
    BY DEF FlightsLed, Led, Shape
  <2>4. QED BY <2>1, <2>2, <2>3 DEF FlightsLed
<1>3. QED BY <1>1, <1>2

LEMMA LedStep == ASSUME Protected = FALSE, LedInv, [Next]_vars  PROVE LedInv'
<1> USE DEF LedInv, flightVars, requestVars
<1>0. ShareInv'
  BY ShareStep
<1>1. ASSUME NEW q \in Requests, Dispatch(q) \/ AnswerBeforeLookup(q) \/ Resume(q)
      PROVE  Led' /\ FlightsLed'
  BY <1>1, MoveLed DEF Dispatch, AnswerBeforeLookup, Resume
<1>2. ASSUME NEW q \in Requests, Respond(q) \/ Throw(q)
      PROVE  Led' /\ FlightsLed'
  <2>1. CASE q \in inflight
    <3>1. \E how \in {"entry", "empty", "failed"} : SettleFlight(q, how)
      BY <1>2, <2>1 DEF Respond, Throw, FailFlight
    <3>2. QED BY <1>2, <2>1, <3>1, HandlerEndLed DEF Respond, Throw
  <2>2. CASE q \notin inflight
    BY <1>2, <2>2, HandlerEndLed DEF Respond, Throw
  <2>3. QED BY <2>1, <2>2
<1>3. ASSUME NEW k \in Keys, Ages(k)  PROVE Led' /\ FlightsLed'
  BY <1>3 DEF Ages, Led, FlightsLed, KeyOf
<1>4. CASE CloseBegin
  BY <1>0, <1>4 DEF CloseBegin, Led, FlightsLed, KeyOf
<1>5. CASE ClosePolicies
  BY <1>0, <1>5 DEF ClosePolicies, Active, Led, FlightsLed, KeyOf, Shape, ShareInv
<1>6. CASE UNCHANGED vars
  BY <1>0, <1>6 DEF vars, Led, FlightsLed, KeyOf
<1>7. QED
  BY <1>0, <1>1, <1>2, <1>3, <1>4, <1>5, <1>6, LookupLed DEF Next, Program, AnswerAround

\* On a route that names no extension policy, a pending flight has a leader in
\* the handler that will settle it, and no waiter waits for nobody.
THEOREM FlightsAreLed ==
  ASSUME Protected = FALSE
  PROVE  Spec => []FlightsLed
<1>1. LedInv /\ [Next]_vars => LedInv'
  BY LedStep
<1>2. LedInv => FlightsLed
  BY DEF LedInv
<1>3. QED BY LedInit, <1>1, <1>2, PTL DEF Spec

-----------------------------------------------------------------------------
(* The accounts of the store                                                *)

\* StoreExact, with `order` a sequence that repeats no key.
Accounted ==
  /\ order \in Seq(Keys) /\ Distinct(order)
  /\ ToSet(order) = {k \in Keys : Stored(k)}
  /\ bytes = SizeOf(ToSet(order), entries)
  /\ Len(order) <= MaxEntries /\ bytes <= StoreBytes

ExactInv == ShareInv /\ Accounted

\* Each stored entry has a size, and there are finitely many.
LEMMA SizesOf ==
  ASSUME Shape, Accounted
  PROVE  /\ IsFiniteSet(ToSet(order))
         /\ \A k \in ToSet(order) : k \in Keys /\ entries[k] \in Entry /\ entries[k].size \in Nat
<1>1. IsFiniteSet(ToSet(order))
  BY DistinctCounted DEF Accounted
<1>2. \A k \in ToSet(order) : k \in Keys /\ entries[k] \in Entry
  BY EntryBy DEF Accounted
<1>3. \A e \in Entry : e.size \in Nat
  BY BodySizesAssumption DEF Entry
<1>4. QED BY <1>1, <1>2, <1>3

LEMMA SizeAgree ==
  ASSUME NEW ks, NEW g, NEW h, \A k \in ks : g[k].size = h[k].size
  PROVE  SizeOf(ks, g) = SizeOf(ks, h)
<1>1. [k \in ks |-> g[k].size] = [k \in ks |-> h[k].size]
  OBVIOUS
<1>2. QED BY <1>1 DEF SizeOf

LEMMA SizeOfRest ==
  ASSUME NEW ks, IsFiniteSet(ks), NEW gone \in SUBSET ks, NEW h,
         \A k \in ks : h[k].size \in Nat
  PROVE  /\ SizeOf(ks \ gone, h) = SizeOf(ks, h) - SizeOf(gone, h)
         /\ SizeOf(ks, h) \in Nat /\ SizeOf(gone, h) \in Nat
<1> DEFINE f == [k \in ks |-> h[k].size]
<1>1. /\ \A k \in ks : f[k] \in Int /\ f[k] \in Nat
      /\ \A k \in ks \ gone : f[k] = [j \in ks \ gone |-> h[j].size][k]
      /\ \A k \in gone : f[k] = [j \in gone |-> h[j].size][k] /\ f[k] \in Nat
  OBVIOUS
<1>2. /\ Total(ks \ gone, f) = SizeOf(ks \ gone, h)
      /\ Total(gone, f) = SizeOf(gone, h)
      /\ Total(ks, f) = SizeOf(ks, h)
  <2>1. Total(ks, f) = SizeOf(ks, h)
    BY DEF SizeOf
  <2> HIDE DEF f
  <2>2. QED BY <1>1, <2>1, TotalAgree DEF SizeOf
<1>3. IsFiniteSet(gone)
  BY FS_Subset
<1> HIDE DEF f
<1>4. Total(ks, f) \in Nat /\ Total(gone, f) \in Nat
  BY <1>1, <1>3, TotalPositive
<1>5. Total(ks \ gone, f) = Total(ks, f) - Total(gone, f)
  BY <1>1, TotalDifference
<1>6. QED BY <1>2, <1>4, <1>5

\* A step that stores and drops nothing, whatever it does to the order and to
\* the flags of the entries.
LEMMA AccountsKept ==
  ASSUME Shape, Accounted, order' \in Seq(Keys), Distinct(order'),
         ToSet(order') = ToSet(order), bytes' = bytes,
         \A k \in Keys : Stored(k)' <=> Stored(k),
         \A k \in Keys : Stored(k) => entries'[k].size = entries[k].size
  PROVE  Accounted'
<1>1. ToSet(order') = {k \in Keys : Stored(k)'}
  BY DEF Accounted
<1>2. Len(order') = Len(order)
  BY DistinctCounted DEF Accounted
<1>3. SizeOf(ToSet(order'), entries') = SizeOf(ToSet(order), entries)
  BY SizeAgree DEF Accounted
<1>4. QED BY <1>1, <1>2, <1>3 DEF Accounted

\* A store: the new entry is accounted for in place of the one it replaces, and
\* of the entries in order just enough of the first are dropped.
LEMMA StoreAccounted ==
  ASSUME Shape, Accounted, NEW q \in Requests, NEW s \in Sizes, Store(q, s)
  PROVE  Accounted'
<1> DEFINE k == KeyOf(q)
           new == [by |-> q, size |-> s, age |-> "fresh", revalidating |-> FALSE]
           filled == [entries EXCEPT ![k] = new]
           held == Append(Without(order, k), k)
           total == Replaced(k) + s
           n == Evicted(filled, held, total)
           gone == {held[i] : i \in 1..n}
           First(m) == {held[i] : i \in 1..m}
           Fits(m) == /\ Len(held) - m <= MaxEntries
                      /\ total - SizeOf(First(m), filled) <= StoreBytes
<1>0. /\ order' = SubSeq(held, n + 1, Len(held))
      /\ entries' = [j \in Keys |-> IF j \in gone THEN NoEntry ELSE filled[j]]
      /\ bytes' = total - SizeOf(gone, filled)
  BY DEF Store
<1>1. /\ k \in Keys /\ s \in Nat /\ filled[k] = new /\ new.size = s /\ new # NoEntry
      /\ \A j \in Keys \ {k} : filled[j] = entries[j]
  BY RequestsAssumption, BodySizesAssumption DEF Shape, KeyOf, NoEntry
<1>2. /\ Without(order, k) \in Seq(Keys) /\ Distinct(Without(order, k))
      /\ ToSet(Without(order, k)) = ToSet(order) \ {k}
  BY WithoutKeeps DEF Accounted
<1>3. /\ held \in Seq(Keys) /\ Distinct(held)
      /\ ToSet(held) = (ToSet(order) \ {k}) \cup {k}
  BY <1>1, <1>2, DistinctAppend
<1>4. IsFiniteSet(ToSet(held)) /\ Cardinality(ToSet(held)) = Len(held) /\ Len(held) \in Nat
  BY <1>3, DistinctCounted, LenProperties
<1>5. \A j \in ToSet(held) : j \in Keys /\ filled[j].size \in Nat /\ filled[j] # NoEntry
  <2>1. \A j \in ToSet(order) : j \in Keys /\ entries[j].size \in Nat /\ entries[j] # NoEntry
    BY SizesOf DEF Accounted, Stored
  <2> HIDE DEF filled, new, held, k
  <2>2. QED BY <1>1, <1>3, <2>1
<1> HIDE DEF k, new, filled, held, total, n
<1>6. SizeOf(ToSet(order) \ {k}, entries) = Replaced(k) /\ Replaced(k) \in Nat
  <2>1. IsFiniteSet(ToSet(order)) /\ \A j \in ToSet(order) : entries[j].size \in Nat
    BY SizesOf
  <2>2. CASE Stored(k)
    <3>1. {k} \in SUBSET ToSet(order)
      BY <1>1, <2>2 DEF Accounted
    <3>2. SizeOf({k}, entries) = entries[k].size
      <4>1. [j \in {k} |-> entries[j].size][k] = entries[k].size /\ entries[k].size \in Int
        BY <2>1, <3>1
      <4>2. QED BY <4>1, TotalOfOne DEF SizeOf
    <3>3. /\ SizeOf(ToSet(order) \ {k}, entries) = bytes - entries[k].size
      BY <2>1, <3>1, <3>2, SizeOfRest DEF Accounted
    <3>4. SizeOf(ToSet(order) \ {k}, entries) \in Nat
      <4>1. /\ IsFiniteSet(ToSet(order) \ {k})
            /\ \A j \in ToSet(order) \ {k} : entries[j].size \in Nat
        BY <2>1, FS_RemoveElement
      <4>2. QED BY <4>1, SizeOfRest
    <3>5. QED BY <2>2, <3>3, <3>4 DEF Replaced
  <2>3. CASE ~Stored(k)
    <3>1. ToSet(order) \ {k} = ToSet(order)
      BY <2>3 DEF Accounted
    <3>2. SizeOf(ToSet(order), entries) \in Nat
      BY <2>1, SizeOfRest
    <3>3. QED BY <2>3, <3>1, <3>2 DEF Replaced, Accounted
  <2>4. QED BY <2>2, <2>3
<1>7. SizeOf(ToSet(held), filled) = total /\ total \in Nat
  <2>1. {k} \in SUBSET ToSet(held) /\ ToSet(held) \ {k} = ToSet(order) \ {k}
    BY <1>3
  <2>2. SizeOf({k}, filled) = s
    <3>1. [j \in {k} |-> filled[j].size][k] = s /\ s \in Int
      BY <1>1
    <3>2. QED BY <3>1, TotalOfOne DEF SizeOf
  <2>3. SizeOf(ToSet(held) \ {k}, filled) = SizeOf(ToSet(held), filled) - s
        /\ SizeOf(ToSet(held), filled) \in Nat
    BY <1>4, <1>5, <2>1, <2>2, SizeOfRest
  <2>4. SizeOf(ToSet(held) \ {k}, filled) = SizeOf(ToSet(order) \ {k}, entries)
    <3>1. \A j \in ToSet(order) \ {k} : filled[j].size = entries[j].size
      BY <1>1 DEF Accounted
    <3>2. QED BY <2>1, <3>1, SizeAgree
  <2>5. QED BY <1>1, <1>6, <2>3, <2>4 DEF total
<1>8. Fits(Len(held))
  <2>1. First(Len(held)) = ToSet(held)
    BY <1>3, SetOfSeq
  <2>2. SizeOf(First(Len(held)), filled) = total
    BY <1>7, <2>1
  <2> HIDE DEF First
  <2>3. Len(held) - Len(held) <= MaxEntries
    BY <1>4, CacheLimitsAssumption
  <2>4. total - SizeOf(First(Len(held)), filled) <= StoreBytes
    BY <1>7, <2>2, CacheLimitsAssumption
  <2>5. QED BY <2>3, <2>4
<1>9. n \in 0..Len(held) /\ Fits(n)
  <2> DEFINE fitting == {m \in 0..Len(held) : Fits(m)}
  <2>1. fitting \in SUBSET Int /\ Len(held) \in fitting
    BY <1>4, <1>8
  <2>2. IsFiniteSet(fitting)
    <3>1. IsFiniteSet(0..Len(held))
      BY <1>4, FS_Interval
    <3>2. QED BY <3>1, FS_Subset
  <2>3. PICK m \in fitting : \A i \in fitting : m <= i
    <3> HIDE DEF fitting
    <3>1. QED BY <2>1, <2>2, SmallestExists
  <2>4. m \in 0..Len(held) /\ Fits(m) /\ \A i \in 0..(m - 1) : ~Fits(i)
    BY <1>4, <2>3
  <2>5. n = CHOOSE i \in 0..Len(held) : Fits(i) /\ \A j \in 0..(i - 1) : ~Fits(j)
    BY DEF n, Evicted
  <2> HIDE DEF Fits
  <2>6. QED BY <2>4, <2>5
<1>10. /\ order' \in Seq(Keys) /\ Distinct(order') /\ Len(order') = Len(held) - n
       /\ ToSet(order') = ToSet(held) \ gone
  BY <1>0, <1>3, <1>9, DistinctSuffix
<1>11. gone \in SUBSET ToSet(held)
  BY <1>3, <1>9, SetOfSeq
<1>12. ToSet(order') = {j \in Keys : Stored(j)'}
  <2>1. \A j \in Keys : j \in ToSet(held) <=> filled[j] # NoEntry
    <3>1. \A j \in Keys \ {k} : j \in ToSet(held) <=> filled[j] # NoEntry
      BY <1>1, <1>3 DEF Accounted, Stored
    <3>2. QED BY <1>1, <1>3, <3>1
  <2>2. \A j \in Keys : Stored(j)' <=> j \in ToSet(held) /\ j \notin gone
    BY <1>0, <2>1 DEF Stored
  <2>3. QED BY <1>5, <1>10, <2>2
<1>13. bytes' = SizeOf(ToSet(order'), entries')
  <2>1. SizeOf(ToSet(held) \ gone, filled) = total - SizeOf(gone, filled)
    BY <1>4, <1>5, <1>7, <1>11, SizeOfRest
  <2>2. \A j \in ToSet(held) \ gone : filled[j].size = entries'[j].size
    BY <1>0, <1>5
  <2>3. SizeOf(ToSet(held) \ gone, filled) = SizeOf(ToSet(held) \ gone, entries')
    BY <2>2, SizeAgree
  <2>4. QED BY <1>0, <1>10, <2>1, <2>3
<1>14. Len(order') <= MaxEntries /\ bytes' <= StoreBytes
  BY <1>0, <1>9, <1>10
<1>15. QED BY <1>10, <1>12, <1>13, <1>14 DEF Accounted

LEMMA ExactInit == Init => ExactInv
<1> SUFFICES ASSUME Init PROVE ExactInv
  OBVIOUS
<1>1. order = <<>> /\ order \in Seq(Keys) /\ Len(order) = 0 /\ bytes = 0
  BY EmptySeq DEF Init
<1>2. ToSet(order) = {} /\ Distinct(order)
  BY <1>1, EmptyDistinct
<1>3. {k \in Keys : Stored(k)} = {}
  BY DEF Init, Stored
<1>4. SizeOf({}, entries) = 0
  BY TotalEmpty DEF SizeOf
<1>5. bytes = SizeOf(ToSet(order), entries) /\ ToSet(order) = {k \in Keys : Stored(k)}
  BY <1>1, <1>2, <1>3, <1>4
<1>6. Len(order) <= MaxEntries /\ bytes <= StoreBytes
  BY <1>1, CacheLimitsAssumption
<1>7. QED BY <1>1, <1>2, <1>5, <1>6, ShareInit DEF ExactInv, Accounted

LEMMA ExactStep == ExactInv /\ [Next]_vars => ExactInv'
<1> SUFFICES ASSUME ExactInv, [Next]_vars PROVE ExactInv'
  OBVIOUS
<1> USE DEF ExactInv, ShareInv
<1>0. ShareInv'
  BY ShareStep
<1>1. UNCHANGED storeVars => Accounted'
  BY DEF storeVars, Accounted, Stored
<1>2. ASSUME NEW q \in Requests, Hit(q)  PROVE Accounted'
  <2>1. /\ order' = Append(Without(order, KeyOf(q)), KeyOf(q))
        /\ entries' = entries /\ bytes' = bytes
    BY <1>2 DEF Hit
  <2>2. KeyOf(q) \in Keys /\ KeyOf(q) \in ToSet(order)
    BY <1>2 DEF Hit, Fresh, Accounted, Shape, KeyOf
  <2>3. /\ Without(order, KeyOf(q)) \in Seq(Keys) /\ Distinct(Without(order, KeyOf(q)))
        /\ ToSet(Without(order, KeyOf(q))) = ToSet(order) \ {KeyOf(q)}
    BY WithoutKeeps DEF Accounted
  <2>4. order' \in Seq(Keys) /\ Distinct(order') /\ ToSet(order') = ToSet(order)
    <3> DEFINE rest == Without(order, KeyOf(q))
    <3>1. KeyOf(q) \notin ToSet(rest) /\ ToSet(rest) \cup {KeyOf(q)} = ToSet(order)
      BY <2>2, <2>3
    <3>2. order' = Append(rest, KeyOf(q))
      BY <2>1
    <3>3. rest \in Seq(Keys) /\ Distinct(rest)
      BY <2>3
    <3> HIDE DEF rest
    <3> DEFINE key == KeyOf(q)
    <3>4. key \in Keys
      BY <2>2
    <3> HIDE DEF key
    <3>5. /\ Append(rest, key) \in Seq(Keys)
          /\ ToSet(Append(rest, key)) = ToSet(rest) \cup {key}
          /\ Distinct(rest) /\ key \notin ToSet(rest) => Distinct(Append(rest, key))
      BY <3>3, <3>4, DistinctAppend
    <3>6. QED BY <3>1, <3>2, <3>3, <3>5 DEF key
  <2>5. QED BY <2>1, <2>4, AccountsKept DEF Stored
<1>3. ASSUME NEW k \in Keys, UNCHANGED <<order, bytes>>, Stored(k),
             \/ entries' = [entries EXCEPT ![k].revalidating = TRUE]
             \/ entries' = [entries EXCEPT ![k].revalidating = FALSE]
             \/ entries' = [entries EXCEPT ![k].age = IF @ = "fresh" THEN "stale" ELSE "old"]
      PROVE  Accounted'
  <2>1. entries[k] \in Entry /\ entries[k].by # NoRequest
    BY <1>3, EntryBy, RequestsAssumption
  <2>2. entries'[k].size = entries[k].size /\ entries'[k].by = entries[k].by
    BY <1>3, <2>1 DEF Shape, Entry
  <2>3. \A j \in Keys \ {k} : entries'[j] = entries[j]
    BY <1>3 DEF Shape
  <2>4. Stored(k) /\ entries'[k] # NoEntry
    BY <1>3, <2>1, <2>2 DEF NoEntry
  <2>5. \A j \in Keys : Stored(j)' <=> Stored(j)
    BY <2>3, <2>4 DEF Stored
  <2>6. \A j \in Keys : Stored(j) => entries'[j].size = entries[j].size
    BY <2>2, <2>3
  <2>7. order' = order /\ bytes' = bytes
    BY <1>3
  <2>8. QED BY <2>5, <2>6, <2>7, AccountsKept DEF Accounted
<1>4. ASSUME NEW q \in Requests, Stale(q)  PROVE Accounted'
  BY <1>3, <1>4 DEF Stale, ServesStale, Shape, KeyOf
<1>5. ASSUME NEW q \in Requests, Throw(q)  PROVE Accounted'
  <2>1. KeyOf(q) \in Keys
    BY DEF Shape, KeyOf
  <2>2. \/ UNCHANGED storeVars
        \/ /\ UNCHANGED <<order, bytes>> /\ Stored(KeyOf(q))
           /\ entries' = [entries EXCEPT ![KeyOf(q)].revalidating = FALSE]
    BY <1>5 DEF Throw, FailFlight, Unflag, storeVars
  <2>3. QED BY <1>1, <1>3, <2>1, <2>2
<1>6. ASSUME NEW k \in Keys, Ages(k)  PROVE Accounted'
  BY <1>3, <1>6 DEF Ages
<1>7. ASSUME NEW q \in Requests, Respond(q)  PROVE Accounted'
  <2>1. UNCHANGED storeVars \/ \E s \in Sizes : Store(q, s)
    BY <1>7 DEF Respond
  <2>2. QED BY <1>1, <2>1, StoreAccounted
<1>8. CASE ClosePolicies
  <2>1. order' = <<>> /\ bytes' = 0 /\ entries' = [k \in Keys |-> NoEntry]
    BY <1>8 DEF ClosePolicies
  <2>2. order' \in Seq(Keys) /\ Len(order') = 0
    BY <2>1, EmptySeq
  <2>3. ToSet(order') = {} /\ Distinct(order')
    BY <2>1, EmptyDistinct
  <2>4. {k \in Keys : Stored(k)'} = {}
    BY <2>1 DEF Stored
  <2>5. SizeOf({}, entries') = 0
    BY TotalEmpty DEF SizeOf
  <2>6. bytes' = SizeOf(ToSet(order'), entries') /\ ToSet(order') = {k \in Keys : Stored(k)'}
    BY <2>1, <2>3, <2>4, <2>5
  <2>7. Len(order') <= MaxEntries /\ bytes' <= StoreBytes
    BY <2>1, <2>2, CacheLimitsAssumption
  <2>8. QED BY <1>0, <2>2, <2>3, <2>6, <2>7 DEF Accounted
<1>9. ASSUME NEW q \in Requests,
             \/ Dispatch(q) \/ AnswerBeforeLookup(q) \/ Join(q) \/ Lead(q)
             \/ Proceed(q) \/ Resume(q) \/ AnswerAround(q)
      PROVE  UNCHANGED storeVars
  BY <1>9 DEF Dispatch, AnswerBeforeLookup, Join, Lead, Proceed, Resume, AnswerAround
<1>10. CloseBegin \/ UNCHANGED vars => UNCHANGED storeVars
  BY DEF CloseBegin, vars
<1>11. QED
  BY <1>0, <1>1, <1>2, <1>4, <1>5, <1>6, <1>7, <1>8, <1>9, <1>10 DEF Next, Program, Lookup

LEMMA ExactInvariant == Spec => []ExactInv
BY ExactInit, ExactStep, PTL DEF Spec

\* The cache's and the requests' state keep their shape, and no flight ever has
\* more waiters than it takes.
THEOREM SpecTypeOK == Spec => []TypeOK
<1>1. ExactInv => TypeOK
  <2> SUFFICES ASSUME ExactInv PROVE TypeOK
    OBVIOUS
  <2>1. bytes \in Nat
    <3>1. SizeOf(ToSet(order), entries) \in Nat
      BY SizesOf, SizeOfRest DEF ExactInv, ShareInv
    <3>2. QED BY <3>1 DEF ExactInv, Accounted
  <2>2. QED BY <2>1 DEF ExactInv, ShareInv, Shape, Accounted, TypeOK
<1>2. QED BY ExactInvariant, <1>1, PTL

\* The accounts of the store are exact and within both bounds after any
\* sequence of stores, replacements, hits, evictions and ages.
THEOREM SpecStoreExact == Spec => []StoreExact
<1>1. ExactInv => StoreExact
  BY DistinctCounted DEF ExactInv, Accounted, StoreExact
<1>2. QED BY ExactInvariant, <1>1, PTL

-----------------------------------------------------------------------------
(* A stale entry is served once, and once more for each refresh that failed *)

\* The requests that were served the result of e stale.
Served(e) == {q \in Requests : answer[q] = Answered("stale", e)}

\* A flight fails while its leader is in the handler, and once only.
Leaders ==
  /\ \A q \in Requests : pc[q] \in {"new", "lookup", "waiting"} =>
       q \notin inflight /\ flight[q] = "none"
  /\ \A q \in inflight : pc[q] = "handler" => flight[q] = "pending"

\* An entry that may be served stale now has been served no more often than
\* refreshes of its key have failed, any other once more at most.
ServedOnce ==
  /\ \A k \in Keys : Stored(k) /\ ~entries[k].revalidating =>
       Cardinality(Served(entries[k].by)) <= Cardinality(FailedFills(k))
  /\ \A e \in Requests : Cardinality(Served(e)) <= 1 + Cardinality(FailedFills(KeyOf(e)))

OnceInv == ShareInv /\ Leaders /\ ServedOnce

LEMMA CountsFinite ==
  /\ \A e : IsFiniteSet(Served(e)) /\ Cardinality(Served(e)) \in Nat
  /\ \A k : IsFiniteSet(FailedFills(k)) /\ Cardinality(FailedFills(k)) \in Nat
  /\ \A e : IsFiniteSet(Served(e)') /\ Cardinality(Served(e)') \in Nat
  /\ \A k : IsFiniteSet(FailedFills(k)') /\ Cardinality(FailedFills(k)') \in Nat
<1>1. /\ \A e : Served(e) \in SUBSET Requests /\ Served(e)' \in SUBSET Requests
      /\ \A k : FailedFills(k) \in SUBSET Requests /\ FailedFills(k)' \in SUBSET Requests
  BY DEF Served, FailedFills
<1>2. \A T \in SUBSET Requests : IsFiniteSet(T) /\ Cardinality(T) \in Nat
  BY RequestsAssumption, FS_Subset, FS_CardinalityType
<1>3. QED BY <1>1, <1>2

\* What keeps the counts: nobody more is served stale, no failure is forgotten
\* and no entry becomes servable.
LEMMA OnceKept ==
  ASSUME OnceInv, UNCHANGED asks,
         \A q \in Requests : answer'[q] = answer[q] \/ answer'[q].how # "stale",
         \A q \in Requests : flight[q] = "failed" => flight'[q] = "failed"
  PROVE  /\ \A e \in Requests :
              Cardinality(Served(e)') <= 1 + Cardinality(FailedFills(KeyOf(e))')
         /\ \A k \in Keys : Cardinality(FailedFills(k)) <= Cardinality(FailedFills(k)')
         /\ \A e : Cardinality(Served(e)') <= Cardinality(Served(e))
<1>1. \A e : Served(e)' \in SUBSET Served(e)
  BY DEF Served, Answered
<1>2. \A k : FailedFills(k) \in SUBSET (FailedFills(k)')
  BY DEF FailedFills, KeyOf
<1>3. \A e : Cardinality(Served(e)') <= Cardinality(Served(e))
  BY <1>1, CountsFinite, FS_Subset
<1>4. \A k : Cardinality(FailedFills(k)) <= Cardinality(FailedFills(k)')
  BY <1>2, CountsFinite, FS_Subset
<1>5. ASSUME NEW e \in Requests
      PROVE  Cardinality(Served(e)') <= 1 + Cardinality(FailedFills(KeyOf(e))')
  <2>1. Cardinality(Served(e)) <= 1 + Cardinality(FailedFills(KeyOf(e)))
    BY DEF OnceInv, ServedOnce
  <2>2. /\ Cardinality(FailedFills(KeyOf(e))) <= Cardinality(FailedFills(KeyOf(e))')
        /\ Cardinality(Served(e)') <= Cardinality(Served(e))
    <3>1. FailedFills(KeyOf(e)) \in SUBSET (FailedFills(KeyOf(e))')
      BY DEF FailedFills, KeyOf
    <3>2. IsFiniteSet(FailedFills(KeyOf(e))')
      <4>1. FailedFills(KeyOf(e))' \in SUBSET Requests
        BY DEF FailedFills
      <4>2. QED BY <4>1, RequestsAssumption, FS_Subset
    <3>3. QED BY <1>3, <3>1, <3>2, FS_Subset
  <2>3. /\ Cardinality(Served(e)) \in Nat /\ Cardinality(Served(e)') \in Nat
        /\ Cardinality(FailedFills(KeyOf(e))) \in Nat
        /\ Cardinality(FailedFills(KeyOf(e))') \in Nat
    <3>1. FailedFills(KeyOf(e))' \in SUBSET Requests
      BY DEF FailedFills
    <3>2. QED BY <3>1, RequestsAssumption, CountsFinite, FS_Subset, FS_CardinalityType
  <2>4. QED BY <2>1, <2>2, <2>3
<1>6. QED BY <1>3, <1>4, <1>5

\* A step that also makes no entry servable.
LEMMA OnceKeptEntries ==
  ASSUME OnceInv, UNCHANGED asks,
         \A q \in Requests : answer'[q] = answer[q] \/ answer'[q].how # "stale",
         \A q \in Requests : flight[q] = "failed" => flight'[q] = "failed",
         \A k \in Keys : Stored(k)' /\ ~entries'[k].revalidating =>
           Stored(k) /\ ~entries[k].revalidating /\ entries'[k].by = entries[k].by
  PROVE  ServedOnce'
<1>1. ASSUME NEW k \in Keys, Stored(k)', ~entries'[k].revalidating
      PROVE  (Cardinality(Served(entries[k].by)) <= Cardinality(FailedFills(k)))'
  <2>1. PICK e \in Requests : e = entries[k].by
    BY <1>1, EntryBy DEF OnceInv, ShareInv
  <2>2. entries'[k].by = e /\ Cardinality(Served(e)) <= Cardinality(FailedFills(k))
    BY <1>1, <2>1 DEF OnceInv, ServedOnce
  <2>3. /\ Cardinality(Served(e)') <= Cardinality(Served(e))
        /\ Cardinality(FailedFills(k)) <= Cardinality(FailedFills(k)')
    BY OnceKept
  <2>4. Cardinality(Served(e)') <= Cardinality(FailedFills(k)')
    BY <2>2, <2>3, CountsFinite
  <2>5. QED BY <2>2, <2>4
<1>2. QED BY <1>1, OnceKept DEF ServedOnce

LEMMA LeadersStep == ASSUME ShareInv, Leaders, [Next]_vars  PROVE Leaders'
<1> USE DEF ShareInv, flightVars, requestVars
<1>1. ASSUME NEW q \in Requests,
             \/ Dispatch(q) \/ AnswerBeforeLookup(q) \/ Hit(q) \/ Stale(q) \/ Join(q)
             \/ Proceed(q) \/ Resume(q) \/ AnswerAround(q)
      PROVE  Leaders'
  <2>1. UNCHANGED <<flight, inflight>>
    BY <1>1 DEF Dispatch, AnswerBeforeLookup, Hit, Stale, Join, Proceed, Resume, AnswerAround
  <2>2. PICK to \in {"lookup", "waiting", "handler", "done"} : pc' = [pc EXCEPT ![q] = to]
    BY <1>1 DEF Dispatch, AnswerBeforeLookup, Hit, Stale, Join, Proceed, Resume, AnswerAround
  <2>3. \/ to = "done"
        \/ pc[q] \in {"new", "lookup", "waiting"}
    BY <1>1, <2>2
       DEF Dispatch, AnswerBeforeLookup, Hit, Stale, Join, Proceed, Resume, AnswerAround,
           Looks, Missed, Shape
  <2>4. \A x \in Requests : pc'[x] = IF x = q THEN to ELSE pc[x]
    BY <2>2 DEF Shape
  <2>5. QED BY <2>1, <2>3, <2>4 DEF Leaders, Shape
<1>2. ASSUME NEW q \in Requests, Lead(q)  PROVE Leaders'
  BY <1>2 DEF Lead, Leaders, Shape
<1>3. ASSUME NEW q \in Requests, Respond(q) \/ Throw(q)  PROVE Leaders'
  <2>1. pc[q] = "handler" /\ pc' = [pc EXCEPT ![q] = "done"]
    BY <1>3 DEF Respond, Throw
  <2>2. \A x \in Requests \ {q} :
          flight'[x] = flight[x] /\ (x \in inflight' <=> x \in inflight)
    BY <1>3 DEF Respond, Throw, FailFlight, SettleFlight, Shape
  <2>3. inflight' \subseteq inflight
    BY <1>3 DEF Respond, Throw, FailFlight, SettleFlight
  <2>4. QED BY <2>1, <2>2, <2>3 DEF Leaders, Shape
<1>4. ASSUME NEW k \in Keys, Ages(k)  PROVE Leaders'
  BY <1>4 DEF Ages, Leaders
<1>5. CASE CloseBegin \/ UNCHANGED vars
  BY <1>5 DEF CloseBegin, vars, Leaders
<1>6. CASE ClosePolicies
  BY <1>6 DEF ClosePolicies, Active, Leaders, Shape
<1>7. QED BY <1>1, <1>2, <1>3, <1>4, <1>5, <1>6 DEF Next, Program, Lookup

\* A stale answer is one more, and its entry has to be refreshed before the next.
LEMMA StaleServesOnce ==
  ASSUME OnceInv, NEW q \in Requests, Stale(q)
  PROVE  ServedOnce'
<1> USE DEF OnceInv, ShareInv
<1>1. /\ KeyOf(q) \in Keys /\ Stored(KeyOf(q)) /\ ~entries[KeyOf(q)].revalidating
      /\ entries' = [entries EXCEPT ![KeyOf(q)].revalidating = TRUE]
      /\ answer' = [answer EXCEPT ![q] = Answered("stale", entries[KeyOf(q)].by)]
      /\ UNCHANGED <<asks, flight>>
  BY DEF Stale, ServesStale, Shape, KeyOf, flightVars
<1>2. PICK k \in Keys : k = KeyOf(q)
  BY <1>1
<1>3. PICK e \in Requests : e = entries[k].by
  BY <1>1, <1>2, EntryBy
<1>4. entries[k] \in Entry /\ KeyOf(e) = k
  BY <1>1, <1>2, <1>3, EntryBy DEF Shared, Sharable
<1>5. \A j \in Keys : FailedFills(j)' = FailedFills(j)
  BY <1>1 DEF FailedFills, KeyOf
<1>6. \A x \in Requests : KeyOf(x)' = KeyOf(x) /\ KeyOf(x) \in Keys
  BY <1>1 DEF KeyOf, Shape
<1>7. /\ Served(e)' \in SUBSET (Served(e) \cup {q})
      /\ \A x \in Requests \ {e} : Served(x)' \in SUBSET Served(x)
  BY <1>1, <1>2, <1>3 DEF Served, Answered, Shape
<1>8. Cardinality(Served(e)') <= Cardinality(Served(e)) + 1
  <2>1. /\ IsFiniteSet(Served(e) \cup {q})
        /\ Cardinality(Served(e) \cup {q}) <= Cardinality(Served(e)) + 1
    BY CountsFinite, FS_AddElement
  <2>2. Cardinality(Served(e)') <= Cardinality(Served(e) \cup {q})
    BY <1>7, <2>1, FS_Subset
  <2>3. Cardinality(Served(e) \cup {q}) \in Nat
    BY <2>1, FS_CardinalityType
  <2>4. QED BY <2>1, <2>2, <2>3, CountsFinite
<1>9. \A x \in Requests \ {e} : Cardinality(Served(x)') <= Cardinality(Served(x))
  BY <1>7, CountsFinite, FS_Subset
<1>10. Cardinality(Served(e)) <= Cardinality(FailedFills(k))
  BY <1>1, <1>2, <1>3 DEF ServedOnce
<1>11. ASSUME NEW x \in Requests
       PROVE  (Cardinality(Served(x)) <= 1 + Cardinality(FailedFills(KeyOf(x))))'
  <2>1. Cardinality(Served(x)') <= 1 + Cardinality(FailedFills(KeyOf(x)))
    <3>1. CASE x = e
      BY <1>4, <1>8, <1>10, <3>1, CountsFinite
    <3>2. CASE x # e
      <4>1. Cardinality(Served(x)) <= 1 + Cardinality(FailedFills(KeyOf(x)))
        BY DEF ServedOnce
      <4>2. QED BY <1>9, <3>2, <4>1, CountsFinite
    <3>3. QED BY <3>1, <3>2
  <2>2. FailedFills(KeyOf(x))' = FailedFills(KeyOf(x))
    BY <1>1 DEF FailedFills, KeyOf
  <2>3. QED BY <2>1, <2>2
<1>12. ASSUME NEW j \in Keys, Stored(j)', ~entries'[j].revalidating
       PROVE  (Cardinality(Served(entries[j].by)) <= Cardinality(FailedFills(j)))'
  <2>1. j # k
    BY <1>1, <1>2, <1>4, <1>12 DEF Shape, Entry
  <2>2. entries'[j] = entries[j] /\ Stored(j)
    BY <1>1, <1>2, <1>12, <2>1 DEF Shape, Stored
  <2>3. PICK d \in Requests : d = entries[j].by
    BY <2>2, EntryBy
  <2>4. KeyOf(d) = j
    BY <2>2, <2>3 DEF Shared, Sharable
  <2>5. d # e
    BY <1>4, <2>1, <2>4
  <2>6. Cardinality(Served(d)) <= Cardinality(FailedFills(j))
    BY <1>12, <2>2, <2>3 DEF ServedOnce
  <2>7. Cardinality(Served(d)') <= Cardinality(FailedFills(j)')
    BY <1>5, <1>9, <2>5, <2>6, CountsFinite
  <2>8. entries'[j].by = d
    BY <2>2, <2>3
  <2>9. QED BY <2>7, <2>8
<1>13. QED BY <1>11, <1>12 DEF ServedOnce

\* A failed refresh lets its entry be served once more, and is counted.
LEMMA FailureAllowsOne ==
  ASSUME OnceInv, NEW q \in Requests, Throw(q)
  PROVE  ServedOnce'
<1> USE DEF OnceInv, ShareInv
<1>1. /\ KeyOf(q) \in Keys /\ pc[q] = "handler" /\ UNCHANGED asks
      /\ answer' = [answer EXCEPT ![q] = Answered("error", NoRequest)]
  BY DEF Throw, Shape, KeyOf
<1>2. \A x \in Requests : answer'[x] = answer[x] \/ answer'[x].how # "stale"
  BY <1>1 DEF Shape, Answered
<1>3. CASE q \notin inflight
  <2>1. UNCHANGED <<flight, entries>>
    BY <1>3 DEF Throw
  <2>2. \A k \in Keys : Stored(k)' /\ ~entries'[k].revalidating =>
           Stored(k) /\ ~entries[k].revalidating /\ entries'[k].by = entries[k].by
    BY <2>1 DEF Stored
  <2>3. QED BY <1>1, <1>2, <2>1, <2>2, OnceKeptEntries
<1>4. CASE q \in inflight
  <2>1. PICK k \in Keys : k = KeyOf(q)
    BY <1>1
  <2>2. /\ flight[q] = "pending" /\ flight' = [flight EXCEPT ![q] = "failed"]
        /\ entries' = IF Stored(k) THEN [entries EXCEPT ![k].revalidating = FALSE] ELSE entries
    BY <1>1, <1>4, <2>1 DEF Leaders, Throw, FailFlight, SettleFlight, Unflag
  <2>3. \A x \in Requests : flight[x] = "failed" => flight'[x] = "failed"
    BY <2>2 DEF Shape
  <2>4. /\ \A e \in Requests :
              Cardinality(Served(e)') <= 1 + Cardinality(FailedFills(KeyOf(e))')
        /\ \A j \in Keys : Cardinality(FailedFills(j)) <= Cardinality(FailedFills(j)')
        /\ \A e : Cardinality(Served(e)') <= Cardinality(Served(e))
    BY <1>1, <1>2, <2>3, OnceKept
  <2>5. Cardinality(FailedFills(k)') = Cardinality(FailedFills(k)) + 1
    <3>1. FailedFills(k)' = FailedFills(k) \cup {q} /\ q \notin FailedFills(k)
      BY <1>1, <2>1, <2>2 DEF FailedFills, KeyOf, Shape
    <3>2. QED BY <3>1, CountsFinite, FS_AddElement
  <2>6. ASSUME NEW j \in Keys, Stored(j)', ~entries'[j].revalidating
        PROVE  (Cardinality(Served(entries[j].by)) <= Cardinality(FailedFills(j)))'
    <3>1. /\ Stored(j) /\ entries'[j].by = entries[j].by
          /\ j # k => ~entries[j].revalidating
      <4>1. Stored(k) => entries[k] \in Entry
        BY EntryBy
      <4>2. QED BY <2>2, <2>6, <4>1 DEF Shape, Stored, Entry
    <3>2. PICK e \in Requests : e = entries[j].by
      BY <3>1, EntryBy
    <3>3. KeyOf(e) = j
      BY <3>1, <3>2 DEF Shared, Sharable
    <3>4. Cardinality(Served(e)) <= Cardinality(FailedFills(j)')
      <4>1. CASE j = k
        <5>1. Cardinality(Served(e)) <= 1 + Cardinality(FailedFills(k))
          BY <3>3, <4>1 DEF ServedOnce
        <5>2. Cardinality(FailedFills(j)') = Cardinality(FailedFills(k)) + 1
          BY <2>5, <4>1
        <5>3. QED BY <5>1, <5>2, CountsFinite
      <4>2. CASE j # k
        <5>1. Cardinality(Served(e)) <= Cardinality(FailedFills(j))
          BY <3>1, <3>2, <4>2 DEF ServedOnce
        <5>2. QED BY <2>4, <5>1, CountsFinite
      <4>3. QED BY <4>1, <4>2
    <3>5. Cardinality(Served(e)') <= Cardinality(FailedFills(j)')
      BY <2>4, <3>4, CountsFinite
    <3>6. entries'[j].by = e
      BY <3>1, <3>2
    <3>7. QED BY <3>5, <3>6
  <2>7. QED BY <2>4, <2>6 DEF ServedOnce
<1>5. QED BY <1>3, <1>4

\* A new entry has been served to nobody.
LEMMA NewEntryUnserved ==
  ASSUME OnceInv, NEW q \in Requests, Respond(q)
  PROVE  ServedOnce'
<1> USE DEF OnceInv, ShareInv
<1>1. /\ KeyOf(q) \in Keys /\ pc[q] = "handler" /\ UNCHANGED asks
      /\ answer' = [answer EXCEPT ![q] = Answered("own", q)]
  BY DEF Respond, Shape, KeyOf
<1>2. \A x \in Requests : answer'[x] = answer[x] \/ answer'[x].how # "stale"
  BY <1>1 DEF Shape, Answered
<1>3. \A x \in Requests : flight[x] = "failed" => flight'[x] = "failed"
  BY <1>1 DEF Respond, SettleFlight, Leaders, Shape
<1>4. CASE UNCHANGED storeVars
  <2>1. \A k \in Keys : Stored(k)' /\ ~entries'[k].revalidating =>
           Stored(k) /\ ~entries[k].revalidating /\ entries'[k].by = entries[k].by
    BY <1>4 DEF Stored, storeVars
  <2>2. QED BY <1>1, <1>2, <1>3, <2>1, OnceKeptEntries
<1>5. ASSUME NEW s \in Sizes, Store(q, s)  PROVE ServedOnce'
  <2>1. \A j \in Keys : \/ entries'[j] = NoEntry
                        \/ entries'[j] = entries[j]
                        \/ j = KeyOf(q) /\ entries'[j].by = q
    <3>1. Shape
      OBVIOUS
    <3>2. QED BY <1>5, <3>1, StoreEntries
  <2>2. Served(q) = {}
    <3>1. result[q] = "none"
      BY <1>1 DEF Leading, Shape
    <3>2. \A x \in Requests : answer[x].how = "stale" => result[answer[x].from] = "storable"
      BY DEF Shared, Sharable
    <3>3. QED BY <3>1, <3>2 DEF Served, Answered
  <2>3. /\ \A e \in Requests :
              Cardinality(Served(e)') <= 1 + Cardinality(FailedFills(KeyOf(e))')
        /\ \A j \in Keys : Cardinality(FailedFills(j)) <= Cardinality(FailedFills(j)')
        /\ \A e : Cardinality(Served(e)') <= Cardinality(Served(e))
    BY <1>1, <1>2, <1>3, OnceKept
  <2>4. ASSUME NEW j \in Keys, Stored(j)', ~entries'[j].revalidating
        PROVE  (Cardinality(Served(entries[j].by)) <= Cardinality(FailedFills(j)))'
    <3>1. CASE entries'[j] = entries[j]
      <4>1. Stored(j) /\ ~entries[j].revalidating
        BY <2>4, <3>1 DEF Stored
      <4>2. PICK e \in Requests : e = entries[j].by
        BY <4>1, EntryBy
      <4>3. Cardinality(Served(e)) <= Cardinality(FailedFills(j))
        BY <4>1, <4>2 DEF ServedOnce
      <4>4. Cardinality(Served(e)') <= Cardinality(FailedFills(j)')
        BY <2>3, <4>3, CountsFinite
      <4>5. QED BY <3>1, <4>2, <4>4
    <3>2. CASE entries'[j].by = q
      <4>1. Cardinality(Served(q)') <= 0
        BY <2>2, <2>3, FS_EmptySet
      <4>2. Cardinality(Served(q)') <= Cardinality(FailedFills(j)')
        BY <4>1, CountsFinite
      <4>3. QED BY <3>2, <4>2
    <3>3. QED BY <2>1, <2>4, <3>1, <3>2 DEF Stored
  <2>5. QED BY <2>3, <2>4 DEF ServedOnce
<1>6. UNCHANGED storeVars \/ \E s \in Sizes : Store(q, s)
  BY DEF Respond
<1>7. QED BY <1>4, <1>5, <1>6

LEMMA OnceInit == Init => OnceInv
<1> SUFFICES ASSUME Init PROVE OnceInv
  OBVIOUS
<1>1. \A e : Served(e) = {}
  BY DEF Init, Served, Answered
<1>2. \A e : Cardinality(Served(e)) = 0
  BY <1>1, FS_EmptySet
<1>3. ServedOnce
  BY <1>2, CountsFinite DEF ServedOnce, Init, Stored
<1>4. Leaders
  BY DEF Init, Leaders
<1>5. QED BY <1>3, <1>4, ShareInit DEF OnceInv

LEMMA OnceStep == OnceInv /\ [Next]_vars => OnceInv'
<1> SUFFICES ASSUME OnceInv, [Next]_vars PROVE OnceInv'
  OBVIOUS
<1> USE DEF OnceInv, flightVars, storeVars, requestVars
<1>0. ShareInv' /\ Leaders'
  BY ShareStep, LeadersStep
<1>1. ASSUME NEW q \in Requests,
             \/ Dispatch(q) \/ AnswerBeforeLookup(q) \/ Hit(q) \/ Join(q) \/ Lead(q)
             \/ Proceed(q) \/ Resume(q) \/ AnswerAround(q)
      PROVE  ServedOnce'
  <2>1. UNCHANGED <<asks, entries>>
    BY <1>1 DEF Dispatch, AnswerBeforeLookup, Hit, Join, Lead, Proceed, Resume, AnswerAround
  <2>2. \A x \in Requests : answer'[x] = answer[x] \/ answer'[x].how # "stale"
    BY <1>1
       DEF Dispatch, AnswerBeforeLookup, Hit, Join, Lead, Proceed, Resume, AnswerAround,
           Answered, Shape, ShareInv
  <2>3. \A x \in Requests : flight[x] = "failed" => flight'[x] = "failed"
    BY <1>1
       DEF Dispatch, AnswerBeforeLookup, Hit, Join, Lead, Proceed, Resume, AnswerAround,
           Missed, Looks, Leaders, Shape, ShareInv
  <2>4. \A k \in Keys : Stored(k)' /\ ~entries'[k].revalidating =>
           Stored(k) /\ ~entries[k].revalidating /\ entries'[k].by = entries[k].by
    BY <2>1 DEF Stored
  <2>5. QED BY <2>1, <2>2, <2>3, <2>4, OnceKeptEntries
<1>2. ASSUME NEW k \in Keys, Ages(k)  PROVE ServedOnce'
  <2>1. entries[k] \in Entry
    BY <1>2, EntryBy DEF Ages, ShareInv
  <2>2. \A j \in Keys : Stored(j)' /\ ~entries'[j].revalidating =>
           Stored(j) /\ ~entries[j].revalidating /\ entries'[j].by = entries[j].by
    BY <1>2, <2>1 DEF Ages, Stored, Shape, Entry, ShareInv
  <2>3. UNCHANGED <<asks, answer, flight>>
    BY <1>2 DEF Ages
  <2>4. QED BY <2>2, <2>3, OnceKeptEntries
<1>3. CASE CloseBegin \/ UNCHANGED vars
  <2>1. UNCHANGED <<asks, answer, flight, entries>>
    BY <1>3 DEF CloseBegin, vars
  <2>2. \A k \in Keys : Stored(k)' /\ ~entries'[k].revalidating =>
           Stored(k) /\ ~entries[k].revalidating /\ entries'[k].by = entries[k].by
    BY <2>1 DEF Stored
  <2>3. ServedOnce'
    BY <2>1, <2>2, OnceKeptEntries
  <2>4. QED BY <1>0, <2>3
<1>4. CASE ClosePolicies
  <2>1. /\ UNCHANGED <<asks, answer>>
        /\ \A x \in Requests : flight[x] = "failed" => flight'[x] = "failed"
        /\ \A k \in Keys : ~Stored(k)'
    BY <1>4 DEF ClosePolicies, Stored
  <2>2. ServedOnce'
    BY <2>1, OnceKeptEntries
  <2>3. QED BY <1>0, <2>2
<1>5. QED
  BY <1>0, <1>1, <1>2, <1>3, <1>4, StaleServesOnce, FailureAllowsOne, NewEntryUnserved
     DEF Next, Program, Lookup

\* "Stale served once, next request refreshes": whatever the interleaving of
\* lookups, fills and failures, an entry is served stale at most once more than
\* refreshes of its key have failed.
THEOREM SpecStaleOnce == Spec => []StaleOnce
<1>1. OnceInv => StaleOnce
  BY DEF OnceInv, ServedOnce, Served, StaleOnce
<1>2. QED BY OnceInit, OnceStep, <1>1, PTL DEF Spec
=============================================================================
