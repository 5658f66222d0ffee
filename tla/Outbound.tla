------------------------------ MODULE Outbound ------------------------------
(***************************************************************************)
(* Requests a runtime makes to other servers: the egress client            *)
(* (packages/core/src/egress.ts, EgressClient), the proxied request of a   *)
(* dispatch (proxy.ts), the signals it emits (signals.ts, SignalBroker)    *)
(* and the close of the runtime (runtime.ts), which closes broker and      *)
(* clients before it waits for its dispatches.                             *)
(*                                                                         *)
(* DNS and upstreams are the environment and need never answer. A dispatch *)
(* makes at most one proxied request and emits at most one signal, so that *)
(* <<kind, d>> names a request. What settling a promise does in the same   *)
(* turn of the event loop is one step; the request of a signal is made in  *)
(* a later one than its emission, and anything may come between.           *)
(***************************************************************************)
EXTENDS Naturals, FiniteSets

CONSTANTS
  Runtimes,
  NoRuntime,
  Dispatches,
  Recording,          \* the runtimes given a signalRecorder
  Concurrency,        \* EgressOptions.concurrency
  SignalConcurrency,  \* the broker's
  DnsLimit            \* EGRESS_DNS_LIMIT

ASSUME NoRuntimeAssumption == NoRuntime \notin Runtimes
ASSUME DispatchesAssumption == IsFiniteSet(Dispatches)
ASSUME RecordingAssumption == Recording \subseteq Runtimes
ASSUME OutboundLimitsAssumption ==
  /\ Concurrency \in Nat \ {0} /\ SignalConcurrency \in Nat \ {0} /\ DnsLimit \in Nat \ {0}

VARIABLES
  runtime,        \* runtime[r]: how far close() of r is
  home,           \* home[d]: the runtime d runs under
  dispatch,       \* dispatch[d]: how far dispatch() is
  outcome,        \* outcome[x]: what its caller was told: "none" yet, "answered",
                  \* "refused" (no success), "aborted" (timeout or close) or "error"
  active,         \* active[c]: #active of the client c
  resolving,      \* resolving[c]: #resolving of the client c
  unresolvedDns,  \* the count of the process
  looking,        \* the requests whose DNS lookup has not settled
  sockets,        \* the requests whose connection to the upstream is open
  pending,        \* pending[r]: #pending of the broker of r
  stats           \* stats[r]: its counters

dnsVars == <<resolving, unresolvedDns, looking>>
clientVars == <<active, dnsVars, sockets>>
vars == <<runtime, home, dispatch, outcome, clientVars, pending, stats>>

Requests == {"proxy", "signal"} \X Dispatches
Clients == {"proxy", "signal"} \X Runtimes
Client(x) == <<x[1], home[x[2]]>>
ClientsOf(r) == {"proxy", "signal"} \X {r}

Closed(r) == runtime[r] # "open"
Running(r) == {d \in Dispatches : home[d] = r /\ dispatch[d] # "over"}

Init ==
  /\ runtime = [r \in Runtimes |-> "open"]
  /\ home = [d \in Dispatches |-> NoRuntime]
  /\ dispatch = [d \in Dispatches |-> "idle"]
  /\ outcome = [x \in Requests |-> "none"]
  /\ active = [c \in Clients |-> {}]
  /\ resolving = [c \in Clients |-> 0]
  /\ unresolvedDns = 0
  /\ looking = {}
  /\ sockets = {}
  /\ pending = [r \in Runtimes |-> {}]
  /\ stats = [r \in Runtimes |->
       [accepted |-> 0, delivered |-> 0, failed |-> 0, dropped |-> 0, captured |-> 0]]

-----------------------------------------------------------------------------
(* EgressClient                                                             *)

\* The callers of the requests in X are told o; a signal among them counts.
Settle(X, o) ==
  /\ outcome' = [x \in Requests |-> IF x \in X THEN o ELSE outcome[x]]
  /\ active' = [c \in Clients |-> active[c] \ X]
  /\ pending' = [r \in Runtimes |-> pending[r] \ X]
  /\ stats' = [r \in Runtimes |->
       LET n == Cardinality(pending[r] \cap X)
       IN  IF o = "answered" THEN [stats[r] EXCEPT !.delivered = @ + n]
                             ELSE [stats[r] EXCEPT !.failed = @ + n]]

Full(c) == Cardinality(active[c]) >= Concurrency \/ resolving[c] >= Concurrency

\* request() or #request() refuses: for what the request asks, or because the
\* client is closed or busy, or the process may look up no more names.
Refused(x) == Settle({x}, "error") /\ UNCHANGED <<dnsVars, sockets>>

Accepted(x) ==
  /\ ~Closed(home[x[2]]) /\ ~Full(Client(x))
  /\ active' = [active EXCEPT ![Client(x)] = @ \cup {x}]
  /\ UNCHANGED <<outcome, pending, stats>>

\* The name is looked up, unless the host is a public address.
Resolves(x) ==
  /\ unresolvedDns < DnsLimit
  /\ resolving' = [resolving EXCEPT ![Client(x)] = @ + 1]
  /\ unresolvedDns' = unresolvedDns + 1
  /\ looking' = looking \cup {x}
  /\ UNCHANGED sockets

request(x) ==
  \/ Refused(x)
  \/ Accepted(x) /\ Resolves(x)
  \/ Accepted(x) /\ sockets' = sockets \cup {x} /\ UNCHANGED dnsVars

AbandonedNever(x) == FALSE
\* The controller is aborted.
Abandoned(x) == outcome[x] = "aborted"

\* The lookup settles: its slots are given back, whoever still waits.
LookupSettles(x) ==
  /\ x \in looking
  /\ looking' = looking \ {x}
  /\ resolving' = [resolving EXCEPT ![Client(x)] = @ - 1]
  /\ unresolvedDns' = unresolvedDns - 1
  /\ IF Abandoned(x)
     THEN UNCHANGED <<outcome, active, sockets, pending, stats>>
     ELSE \/ sockets' = sockets \cup {x} /\ UNCHANGED <<outcome, active, pending, stats>>
          \/ Settle({x}, "error") /\ UNCHANGED sockets
  /\ UNCHANGED <<runtime, home, dispatch>>

\* The upstream answers, with a success or not, answers too much, or fails.
UpstreamEnds(x) ==
  /\ x \in sockets
  /\ sockets' = sockets \ {x}
  /\ \E o \in {"answered", "refused", "error"} : Settle({x}, o)
  /\ UNCHANGED <<runtime, home, dispatch, dnsVars>>

Waits(x) == \E c \in Clients : x \in active[c]

HeardConnected(X) == X \cap sockets
\* The requests of X that an abort settles: fail() listens from the start, so
\* those that still wait for DNS too.
Heard(X) == X

TimeoutFires(x) ==
  /\ Waits(x) /\ x \in Heard({x})
  /\ Settle({x}, "aborted")
  /\ sockets' = sockets \ {x}
  /\ UNCHANGED <<runtime, home, dispatch, dnsVars>>

-----------------------------------------------------------------------------
(* dispatch() and SignalBroker                                              *)

Dispatch(d, r) ==
  /\ dispatch[d] = "idle" /\ ~Closed(r)
  /\ dispatch' = [dispatch EXCEPT ![d] = "running"]
  /\ home' = [home EXCEPT ![d] = r]
  /\ UNCHANGED <<runtime, outcome, clientVars, pending, stats>>

\* executeProxy; other routes answer without it.
Proxy(d) ==
  /\ dispatch[d] = "running"
  /\ dispatch' = [dispatch EXCEPT ![d] = "asked"]
  /\ request(<<"proxy", d>>)
  /\ UNCHANGED <<runtime, home>>

\* What a failed proxied request and other errors of a dispatch end in.
Fails(d) ==
  /\ \/ dispatch[d] = "running"
     \/ dispatch[d] = "asked" /\ outcome[<<"proxy", d>>] # "none"
  /\ dispatch' = [dispatch EXCEPT ![d] = "over"]
  /\ UNCHANGED <<runtime, home, outcome, clientVars, pending, stats>>

\* emit()
Emitted(r, x) ==
  IF Closed(r) \/ Cardinality(pending[r]) >= SignalConcurrency
  THEN /\ stats' = [stats EXCEPT ![r].dropped = @ + 1]
       /\ UNCHANGED pending
  ELSE IF r \in Recording
  THEN /\ stats' = [stats EXCEPT ![r].accepted = @ + 1, ![r].captured = @ + 1]
       /\ UNCHANGED pending
  ELSE /\ stats' = [stats EXCEPT ![r].accepted = @ + 1]
       /\ pending' = [pending EXCEPT ![r] = @ \cup {x}]

\* finishResponse: the signals of the route are emitted.
Answers(d) ==
  /\ \/ dispatch[d] = "running"
     \/ dispatch[d] = "asked" /\ outcome[<<"proxy", d>>] \in {"answered", "refused"}
  /\ dispatch' = [dispatch EXCEPT ![d] = "over"]
  /\ \/ Emitted(home[d], <<"signal", d>>)
     \/ UNCHANGED <<pending, stats>>
  /\ UNCHANGED <<runtime, home, outcome, clientVars>>

Queued(x) == ~Waits(x) /\ \E r \in Runtimes : x \in pending[r]

\* The promise of emit() makes its request.
Deliver(x) ==
  /\ Queued(x)
  /\ request(x)
  /\ UNCHANGED <<runtime, home, dispatch>>

-----------------------------------------------------------------------------
(* close() of a runtime                                                     *)

\* Broker and clients are closed together and abort what is active.
Close(r) ==
  LET cut == Heard(UNION {active[c] : c \in ClientsOf(r)}) IN
  /\ runtime[r] = "open"
  /\ runtime' = [runtime EXCEPT ![r] = "closing"]
  /\ Settle(cut, "aborted")
  /\ sockets' = sockets \ cut
  /\ UNCHANGED <<home, dispatch, dnsVars>>

Drained(r) == pending[r] = {} /\ \A c \in ClientsOf(r) : active[c] = {}

CloseDrained(r) ==
  /\ runtime[r] = "closing" /\ Drained(r)
  /\ runtime' = [runtime EXCEPT ![r] = IF Running(r) = {} THEN "released" ELSE "waiting"]
  /\ UNCHANGED <<home, dispatch, outcome, clientVars, pending, stats>>

CloseSettled(r) ==
  /\ runtime[r] = "waiting" /\ Running(r) = {}
  /\ runtime' = [runtime EXCEPT ![r] = "released"]
  /\ UNCHANGED <<home, dispatch, outcome, clientVars, pending, stats>>

-----------------------------------------------------------------------------
Program(d) == Proxy(d) \/ Fails(d) \/ Answers(d)

Next ==
  \/ \E x \in Requests :
       LookupSettles(x) \/ UpstreamEnds(x) \/ TimeoutFires(x) \/ Deliver(x)
  \/ \E d \in Dispatches : Program(d) \/ \E r \in Runtimes : Dispatch(d, r)
  \/ \E r \in Runtimes : Close(r) \/ CloseDrained(r) \/ CloseSettled(r)

\* Timers fire and the program goes on; a lookup and an upstream owe nothing.
Fairness ==
  /\ \A x \in Requests : WF_vars(TimeoutFires(x)) /\ WF_vars(Deliver(x))
  /\ \A d \in Dispatches : WF_vars(Program(d))
  /\ \A r \in Runtimes : WF_vars(CloseDrained(r)) /\ WF_vars(CloseSettled(r))

Spec == Init /\ [][Next]_vars /\ Fairness

-----------------------------------------------------------------------------
(* Properties                                                               *)

\* What is under way is what the counters say, within their limits, and nobody
\* works for a caller that has its answer, the system's DNS excepted: a
\* connection is open only for a request that is active (EGRESS.md:29, "cannot
\* open a socket after cancellation"), the lookups under way are counted by
\* their client and by the process, and a signal accepted by the broker is
\* delivered, failed, captured or pending, none once close() is past its
\* clients.
OutboundExact ==
  /\ \A c \in Clients :
       /\ Cardinality(active[c]) <= Concurrency
       /\ resolving[c] = Cardinality({x \in looking : Client(x) = c})
       /\ resolving[c] <= Concurrency
  /\ unresolvedDns = Cardinality(looking) /\ unresolvedDns <= DnsLimit
  /\ \A x \in sockets : x \in active[Client(x)] /\ outcome[x] = "none"
  /\ \A r \in Runtimes :
       /\ stats[r].accepted = stats[r].delivered + stats[r].failed + stats[r].captured
                                + Cardinality(pending[r])
       /\ Cardinality(pending[r]) <= SignalConcurrency
       /\ runtime[r] \in {"waiting", "released"} => Drained(r)

\* Every request settles and every close() of a runtime ends, although lookups
\* and upstreams never answer and dispatches wait for them.
OutboundSettles ==
  /\ \A x \in Requests : Waits(x) ~> ~Waits(x)
  /\ \A r \in Runtimes : runtime[r] = "closing" ~> runtime[r] = "released"
=============================================================================
