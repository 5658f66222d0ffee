--------------------------- MODULE OutboundProofs ---------------------------
(***************************************************************************)
(* Proofs about Outbound, for any runtimes and dispatches and any limits.  *)
(* The inductive invariant OutInv adds to OutboundExact the types (Shape)  *)
(* and Ties: which request may be where. A request that waits has not been *)
(* answered, one whose lookup is under way waits or was aborted, and one   *)
(* that was not made yet is nowhere.                                       *)
(***************************************************************************)
EXTENDS Outbound, FiniteSetTheorems, TLAPS

Counters == [accepted : Nat, delivered : Nat, failed : Nat, dropped : Nat, captured : Nat]

Shape ==
  /\ runtime \in [Runtimes -> {"open", "closing", "waiting", "released"}]
  /\ home \in [Dispatches -> Runtimes \cup {NoRuntime}]
  /\ dispatch \in [Dispatches -> {"idle", "running", "asked", "over"}]
  /\ outcome \in [Requests -> {"none", "answered", "refused", "aborted", "error"}]
  /\ active \in [Clients -> SUBSET Requests]
  /\ resolving \in [Clients -> Nat]
  /\ unresolvedDns \in Nat
  /\ looking \subseteq Requests /\ sockets \subseteq Requests
  /\ pending \in [Runtimes -> SUBSET Requests]
  /\ stats \in [Runtimes -> Counters]

\* The program has not made the request x yet.
Unmade(x) ==
  dispatch[x[2]] \in (IF x[1] = "proxy" THEN {"idle", "running"}
                                        ELSE {"idle", "running", "asked"})

Ties ==
  /\ \A d \in Dispatches : dispatch[d] # "idle" => home[d] \in Runtimes
  /\ \A c \in Clients : \A x \in active[c] :
       /\ c = Client(x) /\ outcome[x] = "none" /\ ~Unmade(x)
  /\ \A r \in Runtimes : \A x \in pending[r] :
       /\ x[1] = "signal" /\ home[x[2]] = r /\ outcome[x] = "none" /\ ~Unmade(x)
  /\ \A x \in Requests : Unmade(x) => outcome[x] = "none"
  /\ \A x \in looking : outcome[x] = "aborted" \/ x \in active[Client(x)]
  /\ \A x \in looking \cup sockets : ~Unmade(x)
  /\ looking \cap sockets = {}

\* The lookups under way, by client.
Looking(c) == {x \in looking : Client(x) = c}

\* The parts of OutboundExact.
ClientsExact ==
  \A c \in Clients : Cardinality(active[c]) <= Concurrency
DnsExact ==
  /\ \A c \in Clients :
       resolving[c] = Cardinality(Looking(c)) /\ resolving[c] <= Concurrency
  /\ unresolvedDns = Cardinality(looking) /\ unresolvedDns <= DnsLimit
SocketsExact ==
  \A x \in sockets : x \in active[Client(x)] /\ outcome[x] = "none"
SignalsExact ==
  \A r \in Runtimes :
    /\ stats[r].accepted = stats[r].delivered + stats[r].failed + stats[r].captured
                             + Cardinality(pending[r])
    /\ Cardinality(pending[r]) <= SignalConcurrency
ClosedDrained ==
  \A r \in Runtimes : runtime[r] \in {"waiting", "released"} => Drained(r)

Exact == ClientsExact /\ DnsExact /\ SocketsExact /\ SignalsExact /\ ClosedDrained

OutInv == Shape /\ Ties /\ Exact

-----------------------------------------------------------------------------
(* Sets of requests are finite                                              *)

LEMMA ExactParts == Exact <=> OutboundExact
BY DEF Exact, OutboundExact, ClientsExact, DnsExact, SocketsExact, SignalsExact,
       ClosedDrained, Looking

LEMMA FiniteRequests ==
  ASSUME NEW S \in SUBSET Requests
  PROVE  IsFiniteSet(S) /\ Cardinality(S) \in Nat
<1>1. IsFiniteSet({"proxy", "signal"})
  <2>1. IsFiniteSet({"proxy"})
    BY FS_Singleton
  <2>2. IsFiniteSet({"proxy"} \cup {"signal"})
    BY <2>1, FS_AddElement
  <2>3. {"proxy", "signal"} = {"proxy"} \cup {"signal"}
    OBVIOUS
  <2>4. QED BY <2>2, <2>3
<1>2. IsFiniteSet(Requests)
  BY <1>1, DispatchesAssumption, FS_Product DEF Requests
<1>3. QED BY <1>2, FS_Subset, FS_CardinalityType

LEMMA Fewer ==
  ASSUME NEW S \in SUBSET Requests, NEW T \in SUBSET S
  PROVE  Cardinality(T) <= Cardinality(S)
BY FiniteRequests, FS_Subset

LEMMA OneMore ==
  ASSUME NEW S \in SUBSET Requests, NEW x \in Requests, x \notin S
  PROVE  Cardinality(S \cup {x}) = Cardinality(S) + 1
BY FiniteRequests, FS_AddElement

LEMMA OneLess ==
  ASSUME NEW S \in SUBSET Requests, NEW x \in S
  PROVE  Cardinality(S \ {x}) = Cardinality(S) - 1
BY FiniteRequests, FS_RemoveElement

LEMMA Placed ==
  ASSUME OutInv
  PROVE  \A x \in looking \cup sockets : x \in Requests /\ Client(x) \in Clients
<1>1. ASSUME NEW x \in looking \cup sockets
      PROVE  x \in Requests /\ Client(x) \in Clients
  <2>1. x \in Requests /\ ~Unmade(x)
    BY DEF OutInv, Shape, Ties
  <2>2. x[1] \in {"proxy", "signal"} /\ x[2] \in Dispatches
    BY <2>1 DEF Requests
  <2>3. dispatch[x[2]] # "idle"
    BY <2>1 DEF Unmade
  <2>4. home[x[2]] \in Runtimes
    BY <2>2, <2>3 DEF OutInv, Ties
  <2>5. QED BY <2>1, <2>2, <2>4 DEF Client, Clients
<1>2. QED BY <1>1

-----------------------------------------------------------------------------
(* Settling                                                                 *)

\* What is settled leaves its client and its broker, and is counted.
LEMMA Settled ==
  ASSUME OutInv, NEW X \in SUBSET Requests,
         NEW o \in {"answered", "refused", "aborted", "error"}, Settle(X, o)
  PROVE  /\ outcome' \in [Requests -> {"none", "answered", "refused", "aborted", "error"}]
         /\ active' \in [Clients -> SUBSET Requests]
         /\ pending' \in [Runtimes -> SUBSET Requests]
         /\ stats' \in [Runtimes -> Counters]
         /\ \A x \in Requests : outcome'[x] = IF x \in X THEN o ELSE outcome[x]
         /\ \A c \in Clients : active'[c] = active[c] \ X
         /\ \A r \in Runtimes : pending'[r] = pending[r] \ X
         /\ ClientsExact' /\ SignalsExact'
<1>1. /\ outcome' \in [Requests -> {"none", "answered", "refused", "aborted", "error"}]
      /\ active' \in [Clients -> SUBSET Requests]
      /\ pending' \in [Runtimes -> SUBSET Requests]
  BY DEF OutInv, Shape, Settle
<1>2. /\ \A x \in Requests : outcome'[x] = IF x \in X THEN o ELSE outcome[x]
      /\ \A c \in Clients : active'[c] = active[c] \ X
      /\ \A r \in Runtimes : pending'[r] = pending[r] \ X
  BY DEF Settle
<1>3. ClientsExact'
  <2> SUFFICES ASSUME NEW c \in Clients
               PROVE  Cardinality(active'[c]) <= Concurrency
    BY DEF ClientsExact
  <2>1. active[c] \in SUBSET Requests /\ active'[c] \in SUBSET active[c]
    BY <1>2 DEF OutInv, Shape
  <2>2. Cardinality(active'[c]) <= Cardinality(active[c])
    BY <2>1, Fewer
  <2>3. Cardinality(active'[c]) \in Nat /\ Cardinality(active[c]) \in Nat
    BY <2>1, FiniteRequests
  <2>4. QED BY <2>2, <2>3, OutboundLimitsAssumption DEF OutInv, Exact, ClientsExact
<1>4. ASSUME NEW r \in Runtimes
      PROVE  /\ stats'[r] \in Counters
             /\ stats'[r].accepted = stats'[r].delivered + stats'[r].failed
                                       + stats'[r].captured + Cardinality(pending'[r])
             /\ Cardinality(pending'[r]) <= SignalConcurrency
  <2> DEFINE n == Cardinality(pending[r] \cap X)
             rest == Cardinality(pending[r] \ X)
             all == Cardinality(pending[r])
  <2>1. n \in Nat /\ rest \in Nat /\ all \in Nat
    BY FiniteRequests DEF OutInv, Shape
  <2>2. rest = all - n
    BY FiniteRequests, FS_Difference DEF OutInv, Shape
  <2>3. stats[r] \in Counters
    BY DEF OutInv, Shape
  <2>4. /\ stats[r].accepted = stats[r].delivered + stats[r].failed + stats[r].captured + all
        /\ all <= SignalConcurrency
    BY DEF OutInv, Exact, SignalsExact
  <2>5. stats'[r] = IF o = "answered" THEN [stats[r] EXCEPT !.delivered = @ + n]
                                      ELSE [stats[r] EXCEPT !.failed = @ + n]
    BY DEF Settle
  <2>6. Cardinality(pending'[r]) = rest
    BY <1>2
  <2> HIDE DEF n, rest, all
  <2>7. CASE o = "answered"
    <3>1. stats'[r] = [stats[r] EXCEPT !.delivered = @ + n]
      BY <2>5, <2>7
    <3>2. QED BY <2>1, <2>2, <2>3, <2>4, <2>6, <3>1, OutboundLimitsAssumption DEF Counters
  <2>8. CASE o # "answered"
    <3>1. stats'[r] = [stats[r] EXCEPT !.failed = @ + n]
      BY <2>5, <2>8
    <3>2. QED BY <2>1, <2>2, <2>3, <2>4, <2>6, <3>1, OutboundLimitsAssumption DEF Counters
  <2>9. QED BY <2>7, <2>8
<1>5. stats' \in [Runtimes -> Counters]
  <2>1. DOMAIN stats' = Runtimes /\ stats' = [r \in Runtimes |-> stats'[r]]
    BY DEF Settle
  <2>2. QED BY <1>4, <2>1
<1>6. SignalsExact'
  BY <1>4 DEF SignalsExact
<1>7. QED BY <1>1, <1>2, <1>3, <1>5, <1>6

\* Nothing about DNS depends on what settles.
LEMMA DnsKept ==
  ASSUME OutInv, UNCHANGED dnsVars,
         \A x \in looking : Client(x)' = Client(x)
  PROVE  DnsExact' /\ \A c \in Clients : Looking(c)' = Looking(c)
<1>1. \A c \in Clients : Looking(c)' = Looking(c)
  BY DEF Looking, dnsVars
<1>2. DnsExact'
  BY <1>1 DEF OutInv, Exact, DnsExact, dnsVars
<1>3. QED BY <1>1, <1>2

\* A new lookup, and a lookup that is over.
LEMMA LookupBegins ==
  ASSUME OutInv, NEW x \in Requests, x \notin looking, NEW k \in Clients,
         Client(x) = k, resolving[k] < Concurrency, Resolves(x), home' = home
  PROVE  DnsExact' /\ resolving' \in [Clients -> Nat] /\ unresolvedDns' \in Nat
<1>1. /\ \A c \in Clients : Looking(c)' = IF c = k THEN Looking(c) \cup {x} ELSE Looking(c)
      /\ looking' = looking \cup {x}
  BY DEF Looking, Client, Resolves
<1>2. /\ x \notin Looking(k) /\ Looking(k) \in SUBSET Requests /\ looking \in SUBSET Requests
  BY DEF OutInv, Shape, Looking
<1>3. /\ Cardinality(looking') = Cardinality(looking) + 1
      /\ Cardinality(Looking(k)') = Cardinality(Looking(k)) + 1
  BY <1>1, <1>2, OneMore
<1>4. /\ resolving \in [Clients -> Nat] /\ unresolvedDns \in Nat
      /\ resolving' = [resolving EXCEPT ![k] = @ + 1]
      /\ unresolvedDns' = unresolvedDns + 1 /\ unresolvedDns < DnsLimit
  BY DEF OutInv, Shape, Resolves
<1>5. unresolvedDns' = Cardinality(looking)' /\ unresolvedDns' <= DnsLimit
  BY <1>3, <1>4, OutboundLimitsAssumption DEF OutInv, Exact, DnsExact
<1>6. ASSUME NEW c \in Clients
      PROVE  resolving'[c] = Cardinality(Looking(c)') /\ resolving'[c] <= Concurrency
  <2>1. CASE c = k
    BY <1>3, <1>4, <2>1, OutboundLimitsAssumption DEF OutInv, Exact, DnsExact
  <2>2. CASE c # k
    BY <1>1, <1>4, <2>2 DEF OutInv, Exact, DnsExact
  <2>3. QED BY <2>1, <2>2
<1>7. resolving' \in [Clients -> Nat] /\ unresolvedDns' \in Nat
  BY <1>4
<1>8. QED BY <1>5, <1>6, <1>7 DEF DnsExact

LEMMA LookupEnds ==
  ASSUME OutInv, NEW x \in looking, NEW k \in Clients, Client(x) = k, home' = home,
         looking' = looking \ {x},
         resolving' = [resolving EXCEPT ![k] = @ - 1],
         unresolvedDns' = unresolvedDns - 1
  PROVE  DnsExact' /\ resolving' \in [Clients -> Nat] /\ unresolvedDns' \in Nat
<1>1. \A c \in Clients : Looking(c)' = IF c = k THEN Looking(c) \ {x} ELSE Looking(c)
  BY DEF Looking, Client
<1>2. /\ x \in Looking(k) /\ Looking(k) \in SUBSET Requests /\ looking \in SUBSET Requests
      /\ x \in Requests
  BY DEF OutInv, Shape, Looking
<1>3. /\ Cardinality(looking') = Cardinality(looking) - 1
      /\ Cardinality(Looking(k)') = Cardinality(Looking(k)) - 1
      /\ Cardinality(looking') \in Nat /\ Cardinality(Looking(k)') \in Nat
  BY <1>1, <1>2, OneLess, FiniteRequests
<1>4. resolving \in [Clients -> Nat] /\ unresolvedDns \in Nat
  BY DEF OutInv, Shape
<1>5. unresolvedDns' = Cardinality(looking)' /\ unresolvedDns' <= DnsLimit
  BY <1>3, <1>4, OutboundLimitsAssumption DEF OutInv, Exact, DnsExact
<1>6. ASSUME NEW c \in Clients
      PROVE  resolving'[c] = Cardinality(Looking(c)') /\ resolving'[c] <= Concurrency
  <2>1. CASE c = k
    BY <1>3, <1>4, <2>1, OutboundLimitsAssumption DEF OutInv, Exact, DnsExact
  <2>2. CASE c # k
    BY <1>1, <1>4, <2>2 DEF OutInv, Exact, DnsExact
  <2>3. QED BY <2>1, <2>2
<1>7. resolving' \in [Clients -> Nat] /\ unresolvedDns' \in Nat
  <2>1. \A c \in Clients : resolving'[c] \in Nat
    BY <1>3, <1>4, <1>6 DEF OutInv, Exact, DnsExact
  <2>2. QED BY <1>3, <1>4, <1>5, <2>1
<1>8. QED BY <1>5, <1>6, <1>7 DEF DnsExact

-----------------------------------------------------------------------------
(* Steps that settle requests, and steps that make one                      *)

Past == {"waiting", "released"}

LEMMA SettleStep ==
  ASSUME OutInv, NEW X \in SUBSET Requests,
         NEW o \in {"answered", "refused", "aborted", "error"}, Settle(X, o),
         home' = home, sockets' = sockets \ X,
         runtime' \in [Runtimes -> {"open", "closing", "waiting", "released"}],
         dispatch' \in [Dispatches -> {"idle", "running", "asked", "over"}],
         \A r \in Runtimes : runtime'[r] \in Past => runtime[r] \in Past,
         \A d \in Dispatches : dispatch'[d] # "idle" => dispatch[d] # "idle",
         \A x \in Requests : Unmade(x)' => Unmade(x) /\ x \notin X,
         looking' \subseteq looking, o = "aborted" \/ X \cap looking' = {},
         DnsExact', resolving' \in [Clients -> Nat], unresolvedDns' \in Nat
  PROVE  OutInv'
<1>1. /\ outcome' \in [Requests -> {"none", "answered", "refused", "aborted", "error"}]
      /\ active' \in [Clients -> SUBSET Requests]
      /\ pending' \in [Runtimes -> SUBSET Requests]
      /\ stats' \in [Runtimes -> Counters]
      /\ ClientsExact' /\ SignalsExact'
  BY Settled
<1>2. /\ \A x \in Requests : outcome'[x] = IF x \in X THEN o ELSE outcome[x]
      /\ \A c \in Clients : active'[c] = active[c] \ X
      /\ \A r \in Runtimes : pending'[r] = pending[r] \ X
  BY Settled
<1>3. Shape'
  BY <1>1 DEF OutInv, Shape
<1>4. \A x \in Requests : Client(x)' = Client(x)
  BY DEF Client
<1>5. /\ \A x \in looking : x \in Requests
      /\ \A x \in sockets : x \in Requests
      /\ \A c \in Clients : active[c] \in SUBSET Requests
      /\ \A r \in Runtimes : pending[r] \in SUBSET Requests
  BY DEF OutInv, Shape
<1>6. Ties'
  <2>1. \A d \in Dispatches : dispatch'[d] # "idle" => home'[d] \in Runtimes
    BY DEF OutInv, Ties
  <2>2. ASSUME NEW c \in Clients, NEW x \in active'[c]
        PROVE  c = Client(x)' /\ outcome'[x] = "none" /\ ~Unmade(x)'
    <3>1. x \in active[c] /\ x \notin X /\ x \in Requests
      BY <1>2, <1>5, <2>2
    <3>2. QED BY <1>2, <1>4, <3>1 DEF OutInv, Ties
  <2>3. ASSUME NEW r \in Runtimes, NEW x \in pending'[r]
        PROVE  x[1] = "signal" /\ home'[x[2]] = r /\ outcome'[x] = "none" /\ ~Unmade(x)'
    <3>1. x \in pending[r] /\ x \notin X /\ x \in Requests
      BY <1>2, <1>5, <2>3
    <3>2. QED BY <1>2, <3>1 DEF OutInv, Ties
  <2>4. ASSUME NEW x \in Requests, Unmade(x)'
        PROVE  outcome'[x] = "none"
    BY <1>2, <2>4 DEF OutInv, Ties
  <2>5. ASSUME NEW x \in looking'
        PROVE  outcome'[x] = "aborted" \/ x \in active'[Client(x)']
    <3>1. x \in looking /\ x \in Requests
      BY <1>5, <2>5
    <3>2. CASE x \in X
      BY <1>2, <2>5, <3>1, <3>2
    <3>3. CASE x \notin X
      <4>1. Client(x) \in Clients
        BY <3>1, Placed
      <4>2. outcome[x] = "aborted" \/ x \in active[Client(x)]
        BY <3>1 DEF OutInv, Ties
      <4>3. QED BY <1>2, <1>4, <3>1, <3>3, <4>1, <4>2
    <3>4. QED BY <3>2, <3>3
  <2>6. looking' \cap sockets' = {}
    BY DEF OutInv, Ties
  <2>7. \A x \in looking' \cup sockets' : ~Unmade(x)'
    BY <1>5 DEF OutInv, Ties
  <2>8. QED BY <2>1, <2>2, <2>3, <2>4, <2>5, <2>6, <2>7 DEF Ties
<1>7. SocketsExact'
  <2> SUFFICES ASSUME NEW x \in sockets'
               PROVE  x \in active'[Client(x)'] /\ outcome'[x] = "none"
    BY DEF SocketsExact
  <2>1. x \in sockets /\ x \notin X /\ x \in Requests /\ Client(x) \in Clients
    BY Placed
  <2>2. x \in active[Client(x)] /\ outcome[x] = "none"
    BY <2>1 DEF OutInv, Exact, SocketsExact
  <2>3. QED BY <1>2, <1>4, <2>1, <2>2
<1>8. ClosedDrained'
  BY <1>2 DEF OutInv, Exact, ClosedDrained, Drained, Past, ClientsOf, Clients
<1>9. QED BY <1>1, <1>3, <1>6, <1>7, <1>8 DEF OutInv, Exact

\* A request that waits for nothing yet is accepted.
LEMMA AcceptStep ==
  ASSUME OutInv, NEW x \in Requests, NEW k \in Clients, Client(x) = k,
         outcome[x] = "none", x \notin looking, x \notin sockets, x \notin active[k],
         Accepted(x), Resolves(x) \/ (sockets' = sockets \cup {x} /\ UNCHANGED dnsVars),
         home' = home, runtime' = runtime,
         dispatch' \in [Dispatches -> {"idle", "running", "asked", "over"}],
         \A d \in Dispatches : dispatch'[d] # "idle" => dispatch[d] # "idle",
         \A y \in Requests : Unmade(y)' => Unmade(y),
         ~Unmade(x)'
  PROVE  OutInv'
<1>1. /\ active' = [active EXCEPT ![k] = @ \cup {x}]
      /\ outcome' = outcome /\ pending' = pending /\ stats' = stats
      /\ ~Closed(home[x[2]]) /\ Cardinality(active[k]) < Concurrency
      /\ resolving[k] < Concurrency
  <2>1. Cardinality(active[k]) \in Nat /\ resolving[k] \in Nat
    BY FiniteRequests DEF OutInv, Shape
  <2>2. QED BY <2>1, OutboundLimitsAssumption DEF Accepted, Full
<1>2. /\ active \in [Clients -> SUBSET Requests]
      /\ active' \in [Clients -> SUBSET Requests]
      /\ \A c \in Clients : active'[c] = IF c = k THEN active[c] \cup {x} ELSE active[c]
  BY <1>1 DEF OutInv, Shape
<1>3. \A y \in Requests : Client(y)' = Client(y)
  BY DEF Client
<1>4. /\ looking' \subseteq looking \cup {x} /\ sockets' \subseteq sockets \cup {x}
      /\ looking' \cap sockets' = {}
  BY DEF Resolves, dnsVars, OutInv, Ties
<1>5. DnsExact' /\ resolving' \in [Clients -> Nat] /\ unresolvedDns' \in Nat
  <2>1. CASE Resolves(x)
    BY <1>1, <2>1, LookupBegins
  <2>2. CASE UNCHANGED dnsVars
    <3>1. \A y \in looking : Client(y)' = Client(y)
      BY <1>3 DEF OutInv, Shape
    <3>2. DnsExact'
      BY <2>2, <3>1, DnsKept
    <3>3. QED BY <2>2, <3>2 DEF OutInv, Shape, dnsVars
  <2>3. QED BY <2>1, <2>2
<1>6. Shape'
  BY <1>1, <1>2, <1>4, <1>5 DEF OutInv, Shape
<1>7. Ties'
  <2>1. \A d \in Dispatches : dispatch'[d] # "idle" => home'[d] \in Runtimes
    BY DEF OutInv, Ties
  <2>2. ASSUME NEW c \in Clients, NEW y \in active'[c]
        PROVE  c = Client(y)' /\ outcome'[y] = "none" /\ ~Unmade(y)'
    <3>1. CASE y \in active[c]
      <4>1. y \in Requests
        BY <1>2, <3>1
      <4>2. QED BY <1>1, <1>3, <3>1, <4>1 DEF OutInv, Ties
    <3>2. CASE y \notin active[c]
      <4>1. c = k /\ y = x
        BY <1>2, <2>2, <3>2
      <4>2. QED BY <1>1, <1>3, <4>1
    <3>3. QED BY <3>1, <3>2
  <2>3. ASSUME NEW r \in Runtimes, NEW y \in pending'[r]
        PROVE  y[1] = "signal" /\ home'[y[2]] = r /\ outcome'[y] = "none" /\ ~Unmade(y)'
    <3>1. y \in pending[r] /\ y \in Requests
      BY <1>1, <2>3 DEF OutInv, Shape
    <3>2. QED BY <1>1, <3>1 DEF OutInv, Ties
  <2>4. \A y \in Requests : Unmade(y)' => outcome'[y] = "none"
    BY <1>1 DEF OutInv, Ties
  <2>5. ASSUME NEW y \in looking'
        PROVE  outcome'[y] = "aborted" \/ y \in active'[Client(y)']
    <3>1. CASE y = x
      BY <1>2, <1>3, <3>1
    <3>2. CASE y # x
      <4>1. y \in looking /\ y \in Requests /\ Client(y) \in Clients
        BY <1>4, <2>5, <3>2, Placed
      <4>2. outcome[y] = "aborted" \/ y \in active[Client(y)]
        BY <4>1 DEF OutInv, Ties
      <4>3. QED BY <1>1, <1>2, <1>3, <4>1, <4>2
    <3>3. QED BY <3>1, <3>2
  <2>6. \A y \in looking' \cup sockets' : ~Unmade(y)'
    <3>1. \A y \in looking \cup sockets : y \in Requests /\ ~Unmade(y)
      BY Placed DEF OutInv, Ties
    <3>2. QED BY <1>4, <3>1
  <2>7. QED BY <1>4, <2>1, <2>2, <2>3, <2>4, <2>5, <2>6 DEF Ties
<1>8. ClientsExact'
  <2> SUFFICES ASSUME NEW c \in Clients
               PROVE  Cardinality(active'[c]) <= Concurrency
    BY DEF ClientsExact
  <2>1. CASE c = k
    <3>1. Cardinality(active'[k]) = Cardinality(active[k]) + 1
      BY <1>2, OneMore
    <3>2. Cardinality(active[k]) \in Nat
      BY <1>2, FiniteRequests
    <3>3. QED BY <1>1, <2>1, <3>1, <3>2, OutboundLimitsAssumption
  <2>2. CASE c # k
    BY <1>2, <2>2 DEF OutInv, Exact, ClientsExact
  <2>3. QED BY <2>1, <2>2
<1>9. SocketsExact'
  <2> SUFFICES ASSUME NEW y \in sockets'
               PROVE  y \in active'[Client(y)'] /\ outcome'[y] = "none"
    BY DEF SocketsExact
  <2>1. CASE y = x
    BY <1>1, <1>2, <1>3, <2>1
  <2>2. CASE y # x
    <3>1. y \in sockets /\ y \in Requests /\ Client(y) \in Clients
      BY <1>4, <2>2, Placed
    <3>2. y \in active[Client(y)] /\ outcome[y] = "none"
      BY <3>1 DEF OutInv, Exact, SocketsExact
    <3>3. QED BY <1>1, <1>2, <1>3, <3>1, <3>2
  <2>3. QED BY <2>1, <2>2
<1>10. SignalsExact'
  BY <1>1 DEF OutInv, Exact, SignalsExact
<1>11. ClosedDrained'
  <2> SUFFICES ASSUME NEW r \in Runtimes, runtime[r] \in Past
               PROVE  Drained(r)'
    BY DEF ClosedDrained, Past
  <2>1. Drained(r)
    BY DEF OutInv, Exact, ClosedDrained, Past
  <2>2. r # home[x[2]]
    BY <1>1 DEF Closed, Past
  <2>3. \A c \in ClientsOf(r) : c \in Clients /\ c # k
    BY <2>2 DEF ClientsOf, Clients, Client
  <2>4. QED BY <1>1, <1>2, <2>1, <2>3 DEF Drained
<1>12. QED BY <1>5, <1>6, <1>7, <1>8, <1>9, <1>10, <1>11 DEF OutInv, Exact

LEMMA RequestStep ==
  ASSUME OutInv, NEW x \in Requests, Client(x) \in Clients,
         outcome[x] = "none", x \notin looking, x \notin sockets,
         x \notin active[Client(x)], request(x),
         home' = home, runtime' = runtime,
         dispatch' \in [Dispatches -> {"idle", "running", "asked", "over"}],
         \A d \in Dispatches : dispatch'[d] # "idle" => dispatch[d] # "idle",
         \A y \in Requests : Unmade(y)' => Unmade(y),
         ~Unmade(x)'
  PROVE  OutInv'
<1>1. CASE Refused(x)
  <2> DEFINE X == {x}
  <2>1. /\ Settle(X, "error") /\ sockets' = sockets \ X
        /\ UNCHANGED dnsVars /\ looking' = looking
    BY <1>1 DEF Refused, dnsVars
  <2>2. \A y \in looking : Client(y)' = Client(y)
    BY DEF Client
  <2>3. DnsExact' /\ resolving' \in [Clients -> Nat] /\ unresolvedDns' \in Nat
    BY <2>1, <2>2, DnsKept DEF OutInv, Shape, dnsVars
  <2>4. X \in SUBSET Requests /\ X \cap looking' = {}
    BY <2>1
  <2>5. \A y \in Requests : Unmade(y)' => Unmade(y) /\ y \notin X
    OBVIOUS
  <2>6. /\ runtime' \in [Runtimes -> {"open", "closing", "waiting", "released"}]
        /\ \A r \in Runtimes : runtime'[r] \in Past => runtime[r] \in Past
    BY DEF OutInv, Shape
  <2> HIDE DEF X
  <2>7. QED BY <2>1, <2>3, <2>4, <2>5, <2>6, SettleStep
<1>2. CASE Accepted(x) /\ (Resolves(x) \/ (sockets' = sockets \cup {x} /\ UNCHANGED dnsVars))
  BY <1>2, AcceptStep
<1>3. QED BY <1>1, <1>2 DEF request

-----------------------------------------------------------------------------
(* Every step keeps OutInv                                                  *)

LEMMA InitStep == Init => OutInv
<1> SUFFICES ASSUME Init PROVE OutInv
  OBVIOUS
<1>1. Shape
  BY DEF Init, Shape, Counters
<1>2. Ties
  BY DEF Init, Ties
<1>3. Cardinality({}) = 0
  BY FS_EmptySet
<1>4. \A c \in Clients : Looking(c) = {}
  BY DEF Init, Looking
<1>5. ClientsExact
  BY <1>3, OutboundLimitsAssumption DEF Init, ClientsExact
<1>6. DnsExact
  <2>1. \A c \in Clients : resolving[c] = 0 /\ Cardinality(Looking(c)) = 0
    BY <1>3, <1>4 DEF Init
  <2>2. unresolvedDns = 0 /\ Cardinality(looking) = 0
    BY <1>3 DEF Init
  <2>3. QED BY <2>1, <2>2, OutboundLimitsAssumption DEF DnsExact
<1>7. SignalsExact
  <2>1. ASSUME NEW r \in Runtimes
        PROVE  /\ stats[r].accepted = 0 /\ stats[r].delivered = 0 /\ stats[r].failed = 0
               /\ stats[r].captured = 0 /\ Cardinality(pending[r]) = 0
    BY <1>3 DEF Init
  <2>2. QED BY <2>1, OutboundLimitsAssumption DEF SignalsExact
<1>8. SocketsExact /\ ClosedDrained
  BY DEF Init, SocketsExact, ClosedDrained
<1>9. QED BY <1>1, <1>2, <1>5, <1>6, <1>7, <1>8 DEF OutInv, Exact

LEMMA ProxyStep ==
  ASSUME OutInv, NEW d \in Dispatches, Proxy(d)
  PROVE  OutInv'
<1> DEFINE x == <<"proxy", d>>
<1>1. x \in Requests /\ x[1] = "proxy" /\ x[2] = d
  BY DEF Requests
<1>2. /\ dispatch \in [Dispatches -> {"idle", "running", "asked", "over"}]
      /\ dispatch[d] = "running" /\ dispatch' = [dispatch EXCEPT ![d] = "asked"]
      /\ request(x) /\ home' = home /\ runtime' = runtime
  BY DEF Proxy, OutInv, Shape
<1>3. home[d] \in Runtimes
  BY <1>2 DEF OutInv, Ties
<1>4. Client(x) \in Clients
  BY <1>1, <1>3 DEF Client, Clients
<1>5. Unmade(x) /\ ~Unmade(x)'
  BY <1>1, <1>2 DEF Unmade
<1>6. /\ outcome[x] = "none" /\ x \notin looking /\ x \notin sockets
      /\ x \notin active[Client(x)]
  BY <1>1, <1>4, <1>5 DEF OutInv, Ties
<1>7. \A y \in Requests : Unmade(y)' => Unmade(y)
  BY <1>2 DEF Unmade, Requests
<1>8. /\ dispatch' \in [Dispatches -> {"idle", "running", "asked", "over"}]
      /\ \A e \in Dispatches : dispatch'[e] # "idle" => dispatch[e] # "idle"
  BY <1>2
<1> HIDE DEF x
<1>9. QED BY <1>1, <1>2, <1>4, <1>5, <1>6, <1>7, <1>8, RequestStep

LEMMA DeliverStep ==
  ASSUME OutInv, NEW x \in Requests, Deliver(x)
  PROVE  OutInv'
<1>1. PICK r \in Runtimes : x \in pending[r]
  BY DEF Deliver, Queued
<1>2. /\ home[x[2]] = r /\ outcome[x] = "none" /\ ~Unmade(x)
  BY <1>1 DEF OutInv, Ties
<1>3. Client(x) \in Clients
  BY <1>2 DEF Client, Clients, Requests
<1>4. x \notin active[Client(x)]
  BY <1>3 DEF Deliver, Queued, Waits
<1>5. x \notin looking
  BY <1>2, <1>4 DEF OutInv, Ties
<1>6. x \notin sockets
  BY <1>4 DEF OutInv, Exact, SocketsExact
<1>7. /\ dispatch' = dispatch /\ request(x) /\ home' = home /\ runtime' = runtime
      /\ dispatch \in [Dispatches -> {"idle", "running", "asked", "over"}]
  BY DEF Deliver, OutInv, Shape
<1>8. \A y \in Requests : Unmade(y)' <=> Unmade(y)
  BY <1>7 DEF Unmade
<1>9. QED BY <1>2, <1>3, <1>4, <1>5, <1>6, <1>7, <1>8, RequestStep

LEMMA LookupStep ==
  ASSUME OutInv, NEW x \in Requests, LookupSettles(x)
  PROVE  OutInv'
<1>1. /\ x \in looking /\ looking' = looking \ {x}
      /\ resolving' = [resolving EXCEPT ![Client(x)] = @ - 1]
      /\ unresolvedDns' = unresolvedDns - 1
      /\ runtime' = runtime /\ home' = home /\ dispatch' = dispatch
  BY DEF LookupSettles
<1>2. Client(x) \in Clients /\ x \notin sockets /\ ~Unmade(x)
  BY <1>1, Placed DEF OutInv, Ties
<1>3. DnsExact' /\ resolving' \in [Clients -> Nat] /\ unresolvedDns' \in Nat
  BY <1>1, <1>2, LookupEnds
<1>4. \A y \in Requests : Unmade(y)' <=> Unmade(y)
  BY <1>1 DEF Unmade
<1>5. /\ dispatch \in [Dispatches -> {"idle", "running", "asked", "over"}]
      /\ runtime \in [Runtimes -> {"open", "closing", "waiting", "released"}]
      /\ sockets \subseteq Requests /\ looking \subseteq Requests
  BY DEF OutInv, Shape
<1>6. CASE Settle({x}, "error") /\ sockets' = sockets
  <2> DEFINE X == {x}
  <2>1. Settle(X, "error") /\ sockets' = sockets \ X
    BY <1>2, <1>6
  <2>2. X \in SUBSET Requests /\ X \cap looking' = {} /\ looking' \subseteq looking
    BY <1>1
  <2>3. \A y \in Requests : Unmade(y)' => Unmade(y) /\ y \notin X
    BY <1>2, <1>4
  <2>4. /\ dispatch' \in [Dispatches -> {"idle", "running", "asked", "over"}]
        /\ \A d \in Dispatches : dispatch'[d] # "idle" => dispatch[d] # "idle"
        /\ runtime' \in [Runtimes -> {"open", "closing", "waiting", "released"}]
        /\ \A r \in Runtimes : runtime'[r] \in Past => runtime[r] \in Past
    BY <1>1, <1>5
  <2> HIDE DEF X
  <2>5. QED BY <1>1, <1>3, <2>1, <2>2, <2>3, <2>4, SettleStep
<1>7. CASE /\ UNCHANGED <<outcome, active, pending, stats>>
           /\ \/ Abandoned(x) /\ sockets' = sockets
              \/ ~Abandoned(x) /\ sockets' = sockets \cup {x}
  <2>1. Shape'
    BY <1>1, <1>3, <1>5, <1>7 DEF OutInv, Shape
  <2>2. /\ \A y \in Requests : Client(y)' = Client(y)
        /\ outcome' = outcome /\ active' = active /\ pending' = pending
        /\ looking' \cap sockets' = {} /\ sockets' \subseteq sockets \cup {x}
    BY <1>1, <1>7 DEF Client, OutInv, Ties
  <2>3. Ties'
    <3>1. \A c \in Clients : \A y \in active'[c] :
            c = Client(y)' /\ outcome'[y] = "none" /\ ~Unmade(y)'
      BY <1>4, <2>2 DEF OutInv, Shape, Ties
    <3>2. \A r \in Runtimes : \A y \in pending'[r] :
            /\ y[1] = "signal" /\ home'[y[2]] = r /\ outcome'[y] = "none"
            /\ ~Unmade(y)'
      BY <1>1, <1>4, <2>2 DEF OutInv, Shape, Ties
    <3>3. \A y \in Requests : Unmade(y)' => outcome'[y] = "none"
      BY <1>4, <2>2 DEF OutInv, Ties
    <3>4. \A y \in looking' : outcome'[y] = "aborted" \/ y \in active'[Client(y)']
      BY <1>1, <1>5, <2>2 DEF OutInv, Ties
    <3>5. \A y \in looking' \cup sockets' : ~Unmade(y)'
      BY <1>1, <1>2, <1>4, <1>5, <2>2 DEF OutInv, Ties
    <3>6. \A d \in Dispatches : dispatch'[d] # "idle" => home'[d] \in Runtimes
      BY <1>1 DEF OutInv, Ties
    <3>7. QED BY <2>2, <3>1, <3>2, <3>3, <3>4, <3>5, <3>6 DEF Ties
  <2>4. SocketsExact'
    <3>1. CASE ~Abandoned(x)
      <4>1. x \in active[Client(x)]
        BY <1>1, <3>1 DEF OutInv, Ties, Abandoned
      <4>2. outcome[x] = "none"
        BY <1>2, <4>1 DEF OutInv, Ties
      <4>3. QED BY <1>5, <2>2, <4>1, <4>2 DEF OutInv, Exact, SocketsExact
    <3>2. CASE Abandoned(x)
      BY <1>5, <1>7, <2>2, <3>2 DEF OutInv, Exact, SocketsExact
    <3>3. QED BY <3>1, <3>2
  <2>5. ClientsExact' /\ SignalsExact' /\ ClosedDrained'
    BY <1>1, <1>7 DEF OutInv, Exact, ClientsExact, SignalsExact, ClosedDrained, Drained
  <2>6. QED BY <1>3, <2>1, <2>3, <2>4, <2>5 DEF OutInv, Exact
<1>8. QED BY <1>6, <1>7 DEF LookupSettles

\* A step that only settles requests of X, none of which was not made yet.
LEMMA SettledOnly ==
  ASSUME OutInv, NEW X \in SUBSET Requests,
         NEW o \in {"answered", "refused", "aborted", "error"}, Settle(X, o),
         \A x \in X : ~Unmade(x), o = "aborted" \/ X \cap looking = {},
         sockets' = sockets \ X, UNCHANGED <<home, dispatch, dnsVars>>,
         runtime' \in [Runtimes -> {"open", "closing", "waiting", "released"}],
         \A r \in Runtimes : runtime'[r] \in Past => runtime[r] \in Past
  PROVE  OutInv'
<1>1. \A y \in looking : Client(y)' = Client(y)
  BY DEF Client
<1>2. DnsExact' /\ resolving' \in [Clients -> Nat] /\ unresolvedDns' \in Nat
  BY <1>1, DnsKept DEF OutInv, Shape, dnsVars
<1>3. \A y \in Requests : Unmade(y)' => Unmade(y) /\ y \notin X
  BY DEF Unmade
<1>4. /\ dispatch' \in [Dispatches -> {"idle", "running", "asked", "over"}]
      /\ \A d \in Dispatches : dispatch'[d] # "idle" => dispatch[d] # "idle"
      /\ looking' = looking
  BY DEF OutInv, Shape, dnsVars
<1>5. QED BY <1>2, <1>3, <1>4, SettleStep

LEMMA UpstreamStep ==
  ASSUME OutInv, NEW x \in Requests, UpstreamEnds(x)
  PROVE  OutInv'
<1> DEFINE X == {x}
<1>1. PICK o \in {"answered", "refused", "error"} : Settle(X, o)
  BY DEF UpstreamEnds
<1>2. X \in SUBSET Requests /\ (\A y \in X : ~Unmade(y)) /\ X \cap looking = {}
  BY DEF UpstreamEnds, OutInv, Ties
<1>3. sockets' = sockets \ X /\ UNCHANGED <<runtime, home, dispatch, dnsVars>>
  BY DEF UpstreamEnds
<1>4. runtime \in [Runtimes -> {"open", "closing", "waiting", "released"}]
  BY DEF OutInv, Shape
<1> HIDE DEF X
<1>5. QED BY <1>1, <1>2, <1>3, <1>4, SettledOnly

LEMMA TimeoutStep ==
  ASSUME OutInv, NEW x \in Requests, TimeoutFires(x)
  PROVE  OutInv'
<1> DEFINE X == {x}
<1>1. /\ Settle(X, "aborted") /\ sockets' = sockets \ X
      /\ UNCHANGED <<runtime, home, dispatch, dnsVars>>
  BY DEF TimeoutFires
<1>2. X \in SUBSET Requests /\ \A y \in X : ~Unmade(y)
  BY DEF TimeoutFires, Waits, OutInv, Ties
<1>3. runtime \in [Runtimes -> {"open", "closing", "waiting", "released"}]
  BY DEF OutInv, Shape
<1> HIDE DEF X
<1>4. QED BY <1>1, <1>2, <1>3, SettledOnly

LEMMA CloseStep ==
  ASSUME OutInv, NEW r \in Runtimes, Close(r)
  PROVE  OutInv'
<1> DEFINE X == UNION {active[c] : c \in ClientsOf(r)}
<1>1. /\ Settle(X, "aborted") /\ sockets' = sockets \ X
      /\ UNCHANGED <<home, dispatch, dnsVars>>
      /\ runtime' = [runtime EXCEPT ![r] = "closing"]
  BY DEF Close, Heard
<1>2. ClientsOf(r) \subseteq Clients
  BY DEF ClientsOf, Clients
<1>3. X \in SUBSET Requests /\ \A y \in X : ~Unmade(y)
  BY <1>2 DEF OutInv, Shape, Ties
<1>4. /\ runtime' \in [Runtimes -> {"open", "closing", "waiting", "released"}]
      /\ \A s \in Runtimes : runtime'[s] \in Past => runtime[s] \in Past
  BY <1>1 DEF OutInv, Shape, Past
<1> HIDE DEF X
<1>5. QED BY <1>1, <1>3, <1>4, SettledOnly

LEMMA AnswersStep ==
  ASSUME OutInv, NEW d \in Dispatches, Answers(d)
  PROVE  OutInv'
<1> DEFINE x == <<"signal", d>>
           r == home[d]
<1>1. /\ x \in Requests /\ x[1] = "signal" /\ x[2] = d
      /\ dispatch[d] \in {"running", "asked"} /\ r \in Runtimes
  BY DEF Answers, Requests, OutInv, Ties
<1>2. /\ dispatch' = [dispatch EXCEPT ![d] = "over"]
      /\ UNCHANGED <<runtime, home, outcome, clientVars>>
      /\ UNCHANGED <<active, resolving, unresolvedDns, looking, sockets, dnsVars>>
  BY DEF Answers, clientVars, dnsVars
<1>3. Unmade(x) /\ ~Unmade(x)' /\ outcome[x] = "none"
  BY <1>1, <1>2 DEF Unmade, OutInv, Shape, Ties
<1>4. x \notin pending[r]
  BY <1>1, <1>3 DEF OutInv, Ties
<1>5. /\ \A y \in Requests : Unmade(y)' => Unmade(y)
      /\ \A y \in Requests : Client(y)' = Client(y)
      /\ \A e \in Dispatches : dispatch'[e] # "idle" => dispatch[e] # "idle"
  BY <1>1, <1>2 DEF OutInv, Shape, Unmade, Requests, Client
<1>6. \/ /\ pending' = pending
         /\ \/ stats' = stats
            \/ stats' = [stats EXCEPT ![r].dropped = @ + 1]
            \/ stats' = [stats EXCEPT ![r].accepted = @ + 1, ![r].captured = @ + 1]
      \/ /\ pending' = [pending EXCEPT ![r] = @ \cup {x}]
         /\ stats' = [stats EXCEPT ![r].accepted = @ + 1]
         /\ ~Closed(r) /\ ~(Cardinality(pending[r]) >= SignalConcurrency)
  BY DEF Answers, Emitted
<1>7. pending \in [Runtimes -> SUBSET Requests] /\ stats \in [Runtimes -> Counters]
  BY DEF OutInv, Shape
<1> HIDE DEF x, r
<1>8. /\ pending' \in [Runtimes -> SUBSET Requests]
      /\ \A s \in Runtimes : pending'[s] \subseteq pending[s] \cup {x}
      /\ \A s \in Runtimes : s # r => pending'[s] = pending[s]
  BY <1>1, <1>6, <1>7
<1>9. stats' \in [Runtimes -> Counters]
  <2>1. stats[r] \in Counters
    BY <1>1, <1>7
  <2>2. /\ [stats[r] EXCEPT !.dropped = @ + 1] \in Counters
        /\ [stats[r] EXCEPT !.accepted = @ + 1, !.captured = @ + 1] \in Counters
        /\ [stats[r] EXCEPT !.accepted = @ + 1] \in Counters
    <3> DEFINE more == [stats[r] EXCEPT !.accepted = @ + 1]
    <3>1. more \in Counters
      BY <2>1 DEF Counters
    <3>2. \A t \in Counters : [t EXCEPT !.captured = @ + 1] \in Counters
      BY DEF Counters
    <3>3. [stats[r] EXCEPT !.dropped = @ + 1] \in Counters
      BY <2>1 DEF Counters
    <3>4. [more EXCEPT !.captured = @ + 1] \in Counters
      BY <3>1, <3>2
    <3>5. QED BY <3>1, <3>3, <3>4
  <2>3. QED BY <1>1, <1>6, <1>7, <2>2
<1>10. Shape'
  BY <1>2, <1>8, <1>9 DEF OutInv, Shape
<1>11. Ties'
  <2>1. \A e \in Dispatches : dispatch'[e] # "idle" => home'[e] \in Runtimes
    BY <1>2, <1>5 DEF OutInv, Ties
  <2>2. \A c \in Clients : \A y \in active'[c] :
          c = Client(y)' /\ outcome'[y] = "none" /\ ~Unmade(y)'
    BY <1>2, <1>5 DEF OutInv, Shape, Ties
  <2>3. ASSUME NEW s \in Runtimes, NEW y \in pending'[s]
        PROVE  y[1] = "signal" /\ home'[y[2]] = s /\ outcome'[y] = "none" /\ ~Unmade(y)'
    <3>1. CASE y \in pending[s]
      <4>1. y \in Requests
        BY <1>7, <3>1
      <4>2. QED BY <1>2, <1>5, <3>1, <4>1 DEF OutInv, Ties
    <3>2. CASE y \notin pending[s]
      <4>1. y = x /\ s = r
        BY <1>8, <2>3, <3>2
      <4>2. QED BY <1>1, <1>2, <1>3, <4>1 DEF r
    <3>3. QED BY <3>1, <3>2
  <2>4. \A y \in Requests : Unmade(y)' => outcome'[y] = "none"
    BY <1>2, <1>5 DEF OutInv, Ties
  <2>5. \A y \in looking' : outcome'[y] = "aborted" \/ y \in active'[Client(y)']
    BY <1>2, <1>5 DEF OutInv, Shape, Ties
  <2>6. \A y \in looking' \cup sockets' : ~Unmade(y)'
    BY <1>2, <1>5 DEF OutInv, Shape, Ties
  <2>7. looking' \cap sockets' = {}
    BY <1>2 DEF OutInv, Ties
  <2>8. QED BY <2>1, <2>2, <2>3, <2>4, <2>5, <2>6, <2>7 DEF Ties
<1>12. SignalsExact'
  <2> SUFFICES ASSUME NEW s \in Runtimes
               PROVE  /\ stats'[s].accepted = stats'[s].delivered + stats'[s].failed
                           + stats'[s].captured + Cardinality(pending'[s])
                      /\ Cardinality(pending'[s]) <= SignalConcurrency
    BY DEF SignalsExact
  <2>1. /\ stats[s] \in Counters /\ Cardinality(pending[s]) \in Nat
        /\ stats[s].accepted = stats[s].delivered + stats[s].failed
                                 + stats[s].captured + Cardinality(pending[s])
        /\ Cardinality(pending[s]) <= SignalConcurrency
    BY <1>7, FiniteRequests DEF OutInv, Exact, SignalsExact
  <2>2. CASE s # r
    <3>1. stats'[s] = stats[s] /\ pending'[s] = pending[s]
      BY <1>6, <1>7, <1>8, <2>2
    <3>2. QED BY <2>1, <3>1
  <2>3. CASE s = r /\ pending' = pending
    <3>1. pending # [pending EXCEPT ![r] = @ \cup {x}]
      BY <1>1, <1>4, <1>7
    <3>2. \/ stats' = stats
          \/ stats' = [stats EXCEPT ![r].dropped = @ + 1]
          \/ stats' = [stats EXCEPT ![r].accepted = @ + 1, ![r].captured = @ + 1]
      BY <1>6, <2>3, <3>1
    <3>3. CASE stats' = stats
      BY <2>1, <2>3, <3>3
    <3>4. CASE stats' = [stats EXCEPT ![r].dropped = @ + 1]
      <4>1. stats'[s] = [stats[s] EXCEPT !.dropped = @ + 1]
        BY <1>7, <2>3, <3>4
      <4>2. QED BY <2>1, <2>3, <4>1 DEF Counters
    <3>5. CASE stats' = [stats EXCEPT ![r].accepted = @ + 1, ![r].captured = @ + 1]
      <4>1. stats'[s].accepted = stats[s].accepted + 1
        BY <1>7, <2>3, <3>5 DEF Counters
      <4>2. stats'[s].captured = stats[s].captured + 1
        BY <1>7, <2>3, <3>5 DEF Counters
      <4>3. stats'[s].delivered = stats[s].delivered /\ stats'[s].failed = stats[s].failed
        BY <1>7, <2>3, <3>5 DEF Counters
      <4>4. QED BY <2>1, <2>3, <4>1, <4>2, <4>3 DEF Counters
    <3>6. QED BY <3>2, <3>3, <3>4, <3>5
  <2>4. CASE s = r /\ pending' # pending
    <3>1. /\ stats'[s] = [stats[s] EXCEPT !.accepted = @ + 1]
          /\ pending'[s] = pending[s] \cup {x}
          /\ ~(Cardinality(pending[s]) >= SignalConcurrency)
      BY <1>6, <1>7, <2>4
    <3>2. Cardinality(pending'[s]) = Cardinality(pending[s]) + 1
      BY <1>1, <1>4, <1>7, <2>4, <3>1, OneMore
    <3>3. QED BY <2>1, <3>1, <3>2, OutboundLimitsAssumption DEF Counters
  <2>5. QED BY <2>2, <2>3, <2>4
<1>13. ClosedDrained'
  <2> SUFFICES ASSUME NEW s \in Runtimes, runtime[s] \in Past
               PROVE  Drained(s)'
    BY <1>2 DEF ClosedDrained, Past
  <2>1. pending'[s] = pending[s]
    BY <1>6, <1>7, <1>8 DEF Closed, Past
  <2>2. QED BY <1>2, <2>1 DEF OutInv, Exact, ClosedDrained, Drained, Past
<1>14. SocketsExact'
  BY <1>2, <1>5 DEF OutInv, Shape, Exact, SocketsExact
<1>15. ClientsExact' /\ DnsExact'
  <2>1. \A y \in looking : Client(y)' = Client(y)
    BY <1>5 DEF OutInv, Shape
  <2>2. DnsExact'
    BY <1>2, <2>1, DnsKept
  <2>3. QED BY <1>2, <2>2 DEF OutInv, Exact, ClientsExact
<1>16. QED BY <1>10, <1>11, <1>12, <1>13, <1>14, <1>15 DEF OutInv, Exact

\* A step that settles nothing and makes no request.
LEMMA QuietStep ==
  ASSUME OutInv, UNCHANGED <<outcome, active, resolving, unresolvedDns, looking>>,
         UNCHANGED <<sockets, pending, stats>>,
         runtime' \in [Runtimes -> {"open", "closing", "waiting", "released"}],
         dispatch' \in [Dispatches -> {"idle", "running", "asked", "over"}],
         home' \in [Dispatches -> Runtimes \cup {NoRuntime}],
         \A d \in Dispatches : dispatch'[d] # "idle" => home'[d] \in Runtimes,
         \A y \in Requests :
           ~Unmade(y) => ~Unmade(y)' /\ home'[y[2]] = home[y[2]],
         \A r \in Runtimes :
           runtime'[r] \in Past => runtime[r] \in Past \/ Drained(r)
  PROVE  OutInv'
<1>1. Shape'
  BY DEF OutInv, Shape
<1>2. \A y \in Requests : ~Unmade(y) => ~Unmade(y)' /\ Client(y)' = Client(y)
  BY DEF Client
<1>3. \A y \in looking \cup sockets : y \in Requests /\ ~Unmade(y)
  BY Placed DEF OutInv, Ties
<1>4. /\ \A c \in Clients : \A y \in active[c] : y \in Requests
      /\ \A r \in Runtimes : \A y \in pending[r] : y \in Requests
  BY DEF OutInv, Shape
<1>5. Ties'
  BY <1>2, <1>3, <1>4 DEF OutInv, Ties
<1>6. DnsExact'
  BY <1>2, <1>3, DnsKept DEF dnsVars
<1>7. ClientsExact' /\ SignalsExact'
  BY DEF OutInv, Exact, ClientsExact, SignalsExact
<1>8. SocketsExact'
  BY <1>2, <1>3 DEF OutInv, Exact, SocketsExact
<1>9. ClosedDrained'
  BY DEF OutInv, Exact, ClosedDrained, Drained, Past
<1>10. QED BY <1>1, <1>5, <1>6, <1>7, <1>8, <1>9 DEF OutInv, Exact

LEMMA FailsStep ==
  ASSUME OutInv, NEW d \in Dispatches, Fails(d)
  PROVE  OutInv'
<1>1. /\ dispatch[d] # "idle" /\ dispatch' = [dispatch EXCEPT ![d] = "over"]
      /\ UNCHANGED <<runtime, home, outcome, active, resolving, unresolvedDns, looking>>
      /\ UNCHANGED <<sockets, pending, stats>>
  BY DEF Fails, clientVars, dnsVars
<1>2. \A y \in Requests : ~Unmade(y) => ~Unmade(y)'
  BY <1>1 DEF Unmade, Requests, OutInv, Shape
<1>3. \A e \in Dispatches : dispatch'[e] # "idle" => home'[e] \in Runtimes
  BY <1>1 DEF OutInv, Shape, Ties
<1>4. QED BY <1>1, <1>2, <1>3, QuietStep DEF OutInv, Shape

LEMMA DispatchStep ==
  ASSUME OutInv, NEW d \in Dispatches, NEW r \in Runtimes, Dispatch(d, r)
  PROVE  OutInv'
<1>1. /\ dispatch[d] = "idle" /\ dispatch' = [dispatch EXCEPT ![d] = "running"]
      /\ home' = [home EXCEPT ![d] = r] /\ runtime' = runtime
      /\ UNCHANGED <<outcome, active, resolving, unresolvedDns, looking>>
      /\ UNCHANGED <<sockets, pending, stats>>
  BY DEF Dispatch, clientVars, dnsVars
<1>2. \A y \in Requests : ~Unmade(y) => ~Unmade(y)' /\ home'[y[2]] = home[y[2]]
  BY <1>1 DEF Unmade, Requests, OutInv, Shape
<1>3. \A e \in Dispatches : dispatch'[e] # "idle" => home'[e] \in Runtimes
  BY <1>1 DEF OutInv, Shape, Ties
<1>4. QED BY <1>1, <1>2, <1>3, QuietStep DEF OutInv, Shape

LEMMA CloseEndsStep ==
  ASSUME OutInv, NEW r \in Runtimes, CloseDrained(r) \/ CloseSettled(r)
  PROVE  OutInv'
<1>1. /\ runtime[r] \in Past \/ Drained(r)
      /\ \E s \in Past : runtime' = [runtime EXCEPT ![r] = s]
      /\ UNCHANGED <<home, dispatch, outcome, active, resolving, unresolvedDns, looking>>
      /\ UNCHANGED <<sockets, pending, stats>>
  BY DEF CloseDrained, CloseSettled, clientVars, dnsVars, Past
<1>2. \A y \in Requests : ~Unmade(y) => ~Unmade(y)'
  BY <1>1 DEF Unmade
<1>3. /\ runtime' \in [Runtimes -> {"open", "closing", "waiting", "released"}]
      /\ \A s \in Runtimes : runtime'[s] \in Past => runtime[s] \in Past \/ Drained(s)
  BY <1>1 DEF OutInv, Shape, Past
<1>4. \A e \in Dispatches : dispatch'[e] # "idle" => home'[e] \in Runtimes
  BY <1>1 DEF OutInv, Ties
<1>5. QED BY <1>1, <1>2, <1>3, <1>4, QuietStep DEF OutInv, Shape

LEMMA OutStep == OutInv /\ [Next]_vars => OutInv'
<1> SUFFICES ASSUME OutInv, [Next]_vars
             PROVE  OutInv'
  OBVIOUS
<1>1. CASE UNCHANGED vars
  <2>1. /\ UNCHANGED <<runtime, home, dispatch, outcome, active, resolving>>
        /\ UNCHANGED <<unresolvedDns, looking, sockets, pending, stats>>
    BY <1>1 DEF vars, clientVars, dnsVars
  <2>2. \A y \in Requests : ~Unmade(y) => ~Unmade(y)'
    BY <2>1 DEF Unmade
  <2>3. \A e \in Dispatches : dispatch'[e] # "idle" => home'[e] \in Runtimes
    BY <2>1 DEF OutInv, Ties
  <2>4. QED BY <2>1, <2>2, <2>3, QuietStep DEF OutInv, Shape
<1>2. ASSUME NEW x \in Requests,
             LookupSettles(x) \/ UpstreamEnds(x) \/ TimeoutFires(x) \/ Deliver(x)
      PROVE  OutInv'
  BY <1>2, LookupStep, UpstreamStep, TimeoutStep, DeliverStep
<1>3. ASSUME NEW d \in Dispatches, Program(d)
      PROVE  OutInv'
  BY <1>3, ProxyStep, FailsStep, AnswersStep DEF Program
<1>4. ASSUME NEW d \in Dispatches, NEW r \in Runtimes, Dispatch(d, r)
      PROVE  OutInv'
  BY <1>4, DispatchStep
<1>5. ASSUME NEW r \in Runtimes, Close(r) \/ CloseDrained(r) \/ CloseSettled(r)
      PROVE  OutInv'
  BY <1>5, CloseStep, CloseEndsStep
<1>6. QED BY <1>1, <1>2, <1>3, <1>4, <1>5 DEF Next

\* The clients, the process and the brokers count exactly what is under way,
\* within their limits, whatever DNS and upstreams do and whenever runtimes are
\* closed; no connection outlives the answer of its request, and a runtime past
\* the close of its clients has nothing under way but lookups.
THEOREM OutboundCorrect == Spec => []OutboundExact
<1>1. Init => OutInv
  BY InitStep
<1>2. OutInv /\ [Next]_vars => OutInv'
  BY OutStep
<1>3. OutInv => OutboundExact
  BY ExactParts DEF OutInv
<1>4. QED BY <1>1, <1>2, <1>3, PTL DEF Spec
=============================================================================
