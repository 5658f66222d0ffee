------------------------------- MODULE Runtime -------------------------------
(***************************************************************************)
(* One runtime per project revision: createRuntime() builds it, activates  *)
(* its extensions (taking over exclusive resources by reference from the   *)
(* runtime it replaces), handles requests, keeps streamed responses open   *)
(* and closes when the last of them is over                                *)
(* (packages/core/src/runtime.ts, packages/core/src/extensions.ts).        *)
(*                                                                         *)
(* The routing, policy and function work of a request is the interval      *)
(* between Dispatch and a Return action: what matters here is which        *)
(* runtime the request runs under and what close() waits for.  The module  *)
(* has one action per operation of a runtime; Server composes them with    *)
(* the host that calls them.                                               *)
(***************************************************************************)
EXTENDS Naturals, FiniteSets

CONSTANTS
  Requests,     \* the HTTP requests the server sees
  MaxRuntimes   \* bound: how many times createRuntime() is called

ASSUME MaxRuntimesAssumption == MaxRuntimes \in Nat \ {0}
ASSUME RequestsAssumption == IsFiniteSet(Requests) /\ 0 \notin Requests

Runtimes == 1..MaxRuntimes   \* in the order createRuntime() is called

VARIABLES
  phase,        \* phase[r]: how far the life of runtime r has gone
  active,       \* active[r]: runtime.ts `active`, dispatches in progress
  streamsOpen,  \* streamsOpen[r]: runtime.ts `streamsOpen`
  holders,      \* the runtimes whose extension instance holds a reference to
                \* its exclusive resource (a database and its server lock)
  openings,     \* how many times the exclusive resource was opened
  pc,           \* pc[q]: where request q is
  on,           \* on[q]: the runtime q was handed to, 0 before
  answer        \* answer[q]: what the client of q is, or would be, told

lifeVars == <<phase, active, streamsOpen, holders, openings>>
requestVars == <<pc, on, answer>>

\* "building", "offered" and "activated" are inside createRuntime(); "closing"
\* is close() awaiting its egress clients, "waiting" is close() blocked on
\* `finish`, "releasing" is past that wait, with the function pools closing.
Phase == {"none", "building", "offered", "activated", "open",
          "closing", "waiting", "releasing", "closed"}

\* "tracked" is a stream that no host has started yet.
Place == {"new", "body", "running", "tracked", "streaming", "probe",
          "answered", "done"}

Answer == {"none", "ok", "failed", "unavailable", "aborted", "shutting",
           "shed", "busy"}

\* The `closing` flag of runtime r.
Closing(r) == phase[r] \in {"closing", "waiting", "releasing", "closed"}

\* close() went past its wait: modules, policies, plugins and extensions go.
Released(r) == phase[r] \in {"releasing", "closed"}

-----------------------------------------------------------------------------
(* createRuntime(): one action per stretch between two awaits that others   *)
(* can observe.                                                             *)

\* The project is loaded and compiled and the function pools are started.
CreateBegin(r) ==
  /\ phase[r] = "none"
  /\ \A s \in Runtimes : s < r => phase[s] # "none"
  /\ phase' = [phase EXCEPT ![r] = "building"]
  /\ UNCHANGED <<active, streamsOpen, holders, openings, requestVars>>

\* The registry of the serving runtime is looked up (a closing runtime has
\* none) and its instance offers its resource through handoff().
Offer(r, serving) ==
  /\ phase[r] = "building"
  /\ ~Closing(serving)
  /\ phase' = [phase EXCEPT ![r] = "offered"]
  /\ UNCHANGED <<active, streamsOpen, holders, openings, requestVars>>

\* The references left once r holds one more, and once r let its own go; the
\* resource is closed when the last one goes (store.ts acquire and release).
TakeNothing(r) == holders
TakeReference(r) == holders \cup {r}
DropResource(r) == {}
DropReference(r) == holders \ {r}

\* registration.activate() takes one more reference to the offered resource;
\* one that finds it gone opens it fresh.
Activate(r) ==
  /\ phase[r] = "offered"
  /\ phase' = [phase EXCEPT ![r] = "activated"]
  /\ holders' = TakeReference(r)
  /\ openings' = IF holders = {} THEN openings + 1 ELSE openings
  /\ UNCHANGED <<active, streamsOpen, requestVars>>

\* Any step fails: what was activated is closed, in reverse order.
CreateFail(r) ==
  /\ phase[r] \in {"building", "offered", "activated"}
  /\ phase' = [phase EXCEPT ![r] = "closed"]
  /\ holders' = DropReference(r)
  /\ UNCHANGED <<active, streamsOpen, openings, requestVars>>

\* Plugins activated; createRuntime() returns.
Built(r) ==
  /\ phase[r] = "activated"
  /\ phase' = [phase EXCEPT ![r] = "open"]
  /\ UNCHANGED <<active, streamsOpen, holders, openings, requestVars>>

-----------------------------------------------------------------------------
(* handle() and close()                                                     *)

\* settle() resolves the promise close() waits on, if there is one.
SettlesDispatchesOnly(r, a, s) == phase[r] = "waiting" /\ a = 0
SettlesStreamsOnly(r, a, s) == phase[r] = "waiting" /\ s = 0
SettlesNever(r, a, s) == FALSE
Settles(r, a, s) == phase[r] = "waiting" /\ a = 0 /\ s = 0

\* A dispatch or a stream of r ended, leaving a dispatches and s streams.
LeaveUnsettled(r, a, s) ==
  /\ active' = [active EXCEPT ![r] = a]
  /\ streamsOpen' = [streamsOpen EXCEPT ![r] = s]
  /\ UNCHANGED phase
Leave(r, a, s) ==
  /\ active' = [active EXCEPT ![r] = a]
  /\ streamsOpen' = [streamsOpen EXCEPT ![r] = s]
  /\ phase' = IF Settles(r, a, s)
              THEN [phase EXCEPT ![r] = "releasing"] ELSE phase

\* dispatch() admits a request unless its runtime is closing.
Dispatches(r) == ~Closing(r)

Dispatch(q) ==
  /\ pc[q] = "body"
  /\ Dispatches(on[q])
  /\ active' = [active EXCEPT ![on[q]] = @ + 1]
  /\ pc' = [pc EXCEPT ![q] = "running"]
  /\ UNCHANGED <<phase, streamsOpen, holders, openings, on, answer>>

\* `if (closing) throw new HttpError(503, 'Runtime unavailable')`
DispatchRefused(q) ==
  /\ pc[q] = "body"
  /\ ~Dispatches(on[q])
  /\ pc' = [pc EXCEPT ![q] = "answered"]
  /\ answer' = [answer EXCEPT ![q] = "unavailable"]
  /\ UNCHANGED <<lifeVars, on>>

\* The pipeline ended with a buffered result or threw, or with a stream that
\* admitStream() refuses because the route declares none; finally included.
ReturnBuffered(q) ==
  /\ pc[q] = "running"
  /\ Leave(on[q], active[on[q]] - 1, streamsOpen[on[q]])
  /\ pc' = [pc EXCEPT ![q] = "answered"]
  /\ \E a \in {"ok", "failed"} : answer' = [answer EXCEPT ![q] = a]
  /\ UNCHANGED <<holders, openings, on>>

\* The pipeline ended with a stream.  dispatch()'s finally block settles a
\* waiting close() first; then handle() continues and track() counts the stream.
ReturnStream(q) ==
  /\ pc[q] = "running"
  /\ active' = [active EXCEPT ![on[q]] = @ - 1]
  /\ phase' = IF Settles(on[q], active[on[q]] - 1, streamsOpen[on[q]])
              THEN [phase EXCEPT ![on[q]] = "releasing"] ELSE phase
  /\ streamsOpen' = [streamsOpen EXCEPT ![on[q]] = @ + 1]
  /\ pc' = [pc EXCEPT ![q] = "tracked"]
  /\ UNCHANGED <<holders, openings, on, answer>>

\* end() of a tracked stream: its iterator finished, threw or was returned.
StreamOver(r) == Leave(r, active[r], streamsOpen[r] - 1)

\* close(), up to the await of its egress clients.
CloseBegin(r) ==
  /\ phase[r] = "open"
  /\ phase' = [phase EXCEPT ![r] = "closing"]
  /\ UNCHANGED <<active, streamsOpen, holders, openings, requestVars>>

\* close() waits only when something is in progress at this moment.
Busy(r) == active[r] > 0 \/ streamsOpen[r] > 0
CloseWait(r) ==
  /\ phase[r] = "closing"
  /\ phase' = [phase EXCEPT ![r] = IF Busy(r) THEN "waiting" ELSE "releasing"]
  /\ UNCHANGED <<active, streamsOpen, holders, openings, requestVars>>

\* Pools, policies and plugins are closed, then the extension instances, each
\* of which drops the reference it holds.
Release(r) ==
  /\ phase[r] = "releasing"
  /\ phase' = [phase EXCEPT ![r] = "closed"]
  /\ holders' = DropReference(r)
  /\ UNCHANGED <<active, streamsOpen, openings, requestVars>>

-----------------------------------------------------------------------------
RuntimeTypeOK ==
  /\ phase \in [Runtimes -> Phase]
  /\ active \in [Runtimes -> Nat]
  /\ streamsOpen \in [Runtimes -> Nat]
  /\ holders \subseteq Runtimes
  /\ openings \in Nat
  /\ pc \in [Requests -> Place]
  /\ on \in [Requests -> Runtimes \cup {0}]
  /\ answer \in [Requests -> Answer]

\* The runtime the server starts with is built and open.
RuntimeInit ==
  /\ phase = [r \in Runtimes |-> IF r = 1 THEN "open" ELSE "none"]
  /\ active = [r \in Runtimes |-> 0]
  /\ streamsOpen = [r \in Runtimes |-> 0]
  /\ holders = {1}
  /\ openings = 1
  /\ pc = [q \in Requests |-> "new"]
  /\ on = [q \in Requests |-> 0]
  /\ answer = [q \in Requests |-> "none"]
=============================================================================
