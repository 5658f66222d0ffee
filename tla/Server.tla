------------------------------- MODULE Server -------------------------------
(***************************************************************************)
(* The self-hosted server of packages/core/src/server.ts: admission of     *)
(* requests and probes, delivery of streamed responses, reload() that      *)
(* swaps the serving runtime while requests are in flight, and close().    *)
(*                                                                         *)
(* A request reads its body under the runtime that was current when it was *)
(* admitted and is handed to that one.  The client may leave at any step.  *)
(***************************************************************************)
EXTENDS Runtime

CONSTANTS
  MaxInFlight,   \* maxInFlightRequests
  MaxHealth,     \* maxInFlightHealthRequests
  MaxStreams     \* the StreamHost's maxStreams

ASSUME LimitsAssumption ==
  /\ MaxInFlight \in Nat \ {0}
  /\ MaxHealth \in Nat \ {0}
  /\ MaxStreams \in Nat \ {0}

VARIABLES
  current,       \* the runtime new requests are handed to
  building,      \* the runtime reload() is building, 0 when none is: `reloading`
  retired,       \* replaced runtimes whose close() has not settled
  closing,       \* how far close() has gone
  draining,      \* readiness answers 503
  shuttingDown,  \* no request is served any more
  connected,     \* the requests whose connection is open
  inFlight,      \* the admission counter
  admitted,      \* the requests whose release() has not been called
  healthInFlight \* the probes' own counter

serverVars == <<current, building, retired, closing, draining, shuttingDown>>
hostVars == <<connected, inFlight, admitted, healthInFlight>>
vars == <<lifeVars, requestVars, serverVars, hostVars>>

\* "draining" is close() in its readiness delay, "stopping" is server.close()
\* waiting for connections, "reload" is the wait for a reload in progress,
\* "last" is the close of the serving and the retired runtimes.
ClosePhase == {"serving", "draining", "stopping", "reload", "last", "closed"}

Accepting == closing \in {"serving", "draining", "stopping"}

-----------------------------------------------------------------------------
(* Admission                                                                *)

\* release(): the admission slot of q is given back once.
ReleaseTwice(q) == inFlight' = inFlight - 1 /\ admitted' = admitted \ {q}
ReleaseSlot(q) ==
  /\ admitted' = admitted \ {q}
  /\ inFlight' = IF q \in admitted THEN inFlight - 1 ELSE inFlight

\* A request arrives and is answered without a slot.
AnswerAtOnce(q, a) ==
  /\ pc' = [pc EXCEPT ![q] = "answered"]
  /\ answer' = [answer EXCEPT ![q] = a]
  /\ connected' = connected \cup {q}
  /\ UNCHANGED <<lifeVars, on, serverVars, inFlight, admitted, healthInFlight>>

ArriveShutting(q) ==
  /\ pc[q] = "new" /\ Accepting /\ shuttingDown
  /\ AnswerAtOnce(q, "shutting")

FullPlusOne == inFlight > MaxInFlight
Full == inFlight >= MaxInFlight

ArriveShed(q) ==
  /\ pc[q] = "new" /\ Accepting /\ ~shuttingDown
  /\ Full
  /\ AnswerAtOnce(q, "shed")

ArriveAdmitted(q) ==
  /\ pc[q] = "new" /\ Accepting /\ ~shuttingDown
  /\ ~Full
  /\ pc' = [pc EXCEPT ![q] = "body"]
  /\ on' = [on EXCEPT ![q] = current]
  /\ inFlight' = inFlight + 1
  /\ admitted' = admitted \cup {q}
  /\ connected' = connected \cup {q}
  /\ UNCHANGED <<lifeVars, answer, serverVars, healthInFlight>>

\* /_urlcode/ready: healthy is `!draining && current.healthy`.
Ready == ~draining /\ ~Closing(current)

ArriveProbe(q) ==
  /\ pc[q] = "new" /\ Accepting /\ ~shuttingDown
  /\ healthInFlight < MaxHealth
  /\ pc' = [pc EXCEPT ![q] = "probe"]
  /\ answer' = [answer EXCEPT ![q] = IF Ready THEN "ok" ELSE "failed"]
  /\ healthInFlight' = healthInFlight + 1
  /\ connected' = connected \cup {q}
  /\ UNCHANGED <<lifeVars, on, serverVars, inFlight, admitted>>

ArriveProbeShed(q) ==
  /\ pc[q] = "new" /\ Accepting /\ ~shuttingDown
  /\ healthInFlight >= MaxHealth
  /\ AnswerAtOnce(q, "shed")

-----------------------------------------------------------------------------
(* The request handler                                                      *)

\* The target does not parse, or the body is over its limit: 400 or 413.
BodyRefused(q) ==
  /\ pc[q] = "body"
  /\ pc' = [pc EXCEPT ![q] = "answered"]
  /\ answer' = [answer EXCEPT ![q] = "failed"]
  /\ UNCHANGED <<lifeVars, on>>

BodyRead(q) ==
  /\ q \in connected
  /\ Dispatch(q) \/ DispatchRefused(q) \/ BodyRefused(q)
  /\ UNCHANGED <<serverVars, hostVars>>

\* The client left mid-body: 400 Request aborted, written to nobody.
BodyAborted(q) ==
  /\ pc[q] = "body" /\ q \notin connected
  /\ pc' = [pc EXCEPT ![q] = "answered"]
  /\ answer' = [answer EXCEPT ![q] = "aborted"]
  /\ UNCHANGED <<lifeVars, on, serverVars, hostVars>>

HandlerStep(q) ==
  /\ ReturnBuffered(q) \/ ReturnStream(q)
  /\ UNCHANGED <<serverVars, hostVars>>

\* The response was flushed, or its connection is gone.
Respond(q) ==
  /\ pc[q] = "answered"
  /\ pc' = [pc EXCEPT ![q] = "done"]
  /\ connected' = connected \ {q}
  /\ ReleaseSlot(q)
  /\ UNCHANGED <<lifeVars, on, answer, serverVars, healthInFlight>>

ProbeOver(q) ==
  /\ pc[q] = "probe"
  /\ pc' = [pc EXCEPT ![q] = "done"]
  /\ connected' = connected \ {q}
  /\ healthInFlight' = healthInFlight - 1
  /\ UNCHANGED <<lifeVars, on, answer, serverVars, inFlight, admitted>>

\* 'close' of the response: the handler's signal aborts and the slot is freed
\* while the handler may still be running.
Disconnect(q) ==
  /\ q \in connected /\ pc[q] # "probe"
  /\ connected' = connected \ {q}
  /\ ReleaseSlot(q)
  /\ UNCHANGED <<lifeVars, requestVars, serverVars, healthInFlight>>

-----------------------------------------------------------------------------
(* Streamed responses: the slot is released, then StreamHost.start() admits *)
(* the stream, refuses it or finds its client gone.                         *)

OpenStreams == {q \in Requests : pc[q] = "streaming"}

StartStream(q) ==
  /\ pc[q] = "tracked"
  /\ Cardinality(OpenStreams) < MaxStreams /\ q \in connected
  /\ pc' = [pc EXCEPT ![q] = "streaming"]
  /\ ReleaseSlot(q)
  /\ UNCHANGED <<lifeVars, on, answer, serverVars, connected, healthInFlight>>

\* The producer is cancelled through its iterator's return(), which ends it.
CancelStream(q) ==
  /\ pc[q] = "tracked"
  /\ Cardinality(OpenStreams) >= MaxStreams \/ q \notin connected
  /\ StreamOver(on[q])
  /\ pc' = [pc EXCEPT ![q] = "answered"]
  /\ answer' = [answer EXCEPT ![q] =
                  IF q \in connected THEN "busy" ELSE "aborted"]
  /\ ReleaseSlot(q)
  /\ UNCHANGED <<holders, openings, on, serverVars, connected, healthInFlight>>

\* Complete, failed, over a limit, client gone or ended by the shutdown; a
\* failure before the first chunk goes through the ordinary error path.
EndStream(q) ==
  /\ pc[q] = "streaming"
  /\ StreamOver(on[q])
  /\ \/ /\ pc' = [pc EXCEPT ![q] = "done"]
        /\ answer' = [answer EXCEPT ![q] = "ok"]
        /\ connected' = connected \ {q}
     \/ /\ pc' = [pc EXCEPT ![q] = "answered"]
        /\ answer' = [answer EXCEPT ![q] = "failed"]
        /\ UNCHANGED connected
  /\ UNCHANGED <<holders, openings, on, serverVars,
                 inFlight, admitted, healthInFlight>>

-----------------------------------------------------------------------------
(* reload(): the replacement is built while `current` keeps serving.        *)

Reloads == ~shuttingDown /\ building = 0

ReloadBegin(r) ==
  /\ Reloads
  /\ CreateBegin(r)
  /\ building' = r
  /\ UNCHANGED <<current, retired, closing, draining, shuttingDown, hostVars>>

ReloadStep ==
  /\ building # 0
  /\ Offer(building, current) \/ Activate(building) \/ Built(building)
  /\ UNCHANGED <<serverVars, hostVars>>

\* The rejected reload leaves `current` serving.
ReloadRejected ==
  /\ building # 0
  /\ CreateFail(building)
  /\ building' = 0
  /\ UNCHANGED <<current, retired, closing, draining, shuttingDown, hostVars>>

\* The replacement is built: it serves from now on and the old runtime's
\* close() runs in the background.
Installs == ~shuttingDown

ReloadInstall ==
  /\ building # 0 /\ phase[building] = "open" /\ Installs
  /\ CloseBegin(current)
  /\ current' = building
  /\ retired' = retired \cup {current}
  /\ building' = 0
  /\ UNCHANGED <<closing, draining, shuttingDown, hostVars>>

\* The server began to shut down meanwhile: the replacement is closed instead.
ReloadDiscard ==
  /\ building # 0 /\ phase[building] = "open" /\ ~Installs
  /\ CloseBegin(building)
  /\ UNCHANGED <<serverVars, hostVars>>

ReloadDiscarded ==
  /\ building # 0 /\ phase[building] = "closed"
  /\ building' = 0
  /\ UNCHANGED <<lifeVars, requestVars, current, retired, closing, draining,
                 shuttingDown, hostVars>>

\* The steps of a runtime's close() after its first.
ClosingStep(r) ==
  /\ CloseWait(r) \/ Release(r)
  /\ UNCHANGED <<serverVars, hostVars>>

CleanedUp(r) ==
  /\ r \in retired /\ phase[r] = "closed"
  /\ retired' = retired \ {r}
  /\ UNCHANGED <<lifeVars, requestVars, current, building, closing, draining,
                 shuttingDown, hostVars>>

-----------------------------------------------------------------------------
(* close()                                                                  *)

CloseCalled ==
  /\ closing = "serving"
  /\ closing' = "draining"
  /\ draining' = TRUE
  /\ UNCHANGED <<lifeVars, requestVars, current, building, retired,
                 shuttingDown, hostVars>>

\* The readiness delay is over and the listener closes.
ShutDown ==
  /\ closing = "draining"
  /\ closing' = "stopping"
  /\ shuttingDown' = TRUE
  /\ UNCHANGED <<lifeVars, requestVars, current, building, retired, draining,
                 hostVars>>

\* closeTimeoutMs passed: every connection is closed.
Deadline ==
  /\ closing = "stopping" /\ connected # {}
  /\ connected' = {}
  /\ admitted' = admitted \ connected
  /\ inFlight' = inFlight - Cardinality(admitted \cap connected)
  /\ healthInFlight' = 0
  /\ pc' = [q \in Requests |-> IF pc[q] = "probe" THEN "done" ELSE pc[q]]
  /\ UNCHANGED <<lifeVars, on, answer, serverVars>>

\* server.close() calls back once no connection is left.
ListenerClosed ==
  /\ closing = "stopping" /\ connected = {}
  /\ closing' = "reload"
  /\ UNCHANGED <<lifeVars, requestVars, current, building, retired, draining,
                 shuttingDown, hostVars>>

\* `while (reloading)`, then the serving runtime is closed.
ReloadOverAlways == TRUE
ReloadOver == building = 0

CloseCurrent ==
  /\ closing = "reload" /\ ReloadOver
  /\ CloseBegin(current)
  /\ closing' = "last"
  /\ UNCHANGED <<current, building, retired, draining, shuttingDown, hostVars>>

AwaitsRetiredNot == TRUE
AwaitsRetired == retired = {}
CloseReturns ==
  /\ closing = "last"
  /\ phase[current] = "closed" /\ AwaitsRetired
  /\ closing' = "closed"
  /\ UNCHANGED <<lifeVars, requestVars, current, building, retired, draining,
                 shuttingDown, hostVars>>

\* The server has stopped.
Stopped == closing = "closed" /\ UNCHANGED vars

-----------------------------------------------------------------------------
Init ==
  /\ RuntimeInit
  /\ current = 1 /\ building = 0 /\ retired = {}
  /\ closing = "serving" /\ draining = FALSE /\ shuttingDown = FALSE
  /\ connected = {} /\ inFlight = 0 /\ admitted = {} /\ healthInFlight = 0

\* What clients and operators do.
Environment ==
  \/ \E q \in Requests : \/ ArriveShutting(q) \/ ArriveShed(q)
                         \/ ArriveAdmitted(q)
                         \/ ArriveProbe(q) \/ ArriveProbeShed(q)
                         \/ BodyRead(q) \/ Disconnect(q)
  \/ \E r \in Runtimes : ReloadBegin(r)
  \/ CloseCalled

\* A flushed response needs its client to read it.
Delivery(q) == Respond(q) \/ ProbeOver(q)

\* What the server's own code and timers do.
Program ==
  \/ \E q \in Requests : \/ BodyAborted(q) \/ HandlerStep(q)
                         \/ StartStream(q) \/ CancelStream(q) \/ EndStream(q)
  \/ ReloadStep \/ ReloadRejected \/ ReloadInstall
  \/ ReloadDiscard \/ ReloadDiscarded
  \/ \E r \in Runtimes : ClosingStep(r) \/ CleanedUp(r)
  \/ ShutDown \/ Deadline \/ ListenerClosed \/ CloseCurrent \/ CloseReturns

Next == Environment \/ (\E q \in Requests : Delivery(q)) \/ Program \/ Stopped

\* The program's own steps are taken: handlers are bounded by their timeouts,
\* streams by their idle and duration limits, close() by closeTimeoutMs.
Fairness == WF_vars(Program)

Spec == Init /\ [][Next]_vars /\ Fairness

-----------------------------------------------------------------------------
(* Properties                                                               *)

\* The state has the shape of the server's and the runtimes' variables.
TypeOK ==
  /\ RuntimeTypeOK
  /\ current \in Runtimes
  /\ building \in Runtimes \cup {0}
  /\ retired \subseteq Runtimes
  /\ closing \in ClosePhase
  /\ draining \in BOOLEAN /\ shuttingDown \in BOOLEAN
  /\ connected \subseteq Requests /\ admitted \subseteq Requests
  /\ inFlight \in 0..MaxInFlight /\ healthInFlight \in 0..MaxHealth

Probing == {q \in Requests : pc[q] = "probe"}

\* The admission counters count exactly the requests that own a slot: none is
\* given back twice or kept, whichever of finish, disconnect, stream start and
\* the shutdown deadline comes first (server.ts release(), releaseProbe()).
AdmissionExact ==
  /\ inFlight = Cardinality(admitted)
  /\ healthInFlight = Cardinality(Probing)
  /\ \A q \in admitted : pc[q] \in {"body", "running", "tracked", "answered"}

\* The dispatches in progress under r, and its streams that have not ended.
Dispatching(r) == {q \in Requests : on[q] = r /\ pc[q] = "running"}
Streaming(r) ==
  {q \in Requests : on[q] = r /\ pc[q] \in {"tracked", "streaming"}}

\* What close() waits for is what is really going on: `active` is the number of
\* dispatches in progress and `streamsOpen` the number of tracked streams that
\* have not ended, for every runtime.
CountsExact ==
  \A r \in Runtimes : /\ active[r] = Cardinality(Dispatching(r))
                      /\ streamsOpen[r] = Cardinality(Streaming(r))

\* Every counter of the server and of its runtimes is exact at every step.
CountersExact == AdmissionExact /\ CountsExact

\* A dispatch in progress keeps its runtime's pools and extensions: a retired
\* or stopping runtime goes past the wait of close() only without one.
DispatchKeepsRuntime ==
  \A q \in Requests : pc[q] = "running" => ~Released(on[q])

\* The comment on track() in runtime.ts and RIM-STREAM-001: an admitted stream
\* keeps its runtime's extensions and function modules until the stream ends.
StreamKeepsRuntime ==
  \A q \in Requests :
    pc[q] = "streaming" /\ q \in connected => ~Released(on[q])

\* An admitted request is in flight from body receipt, and a retiring runtime
\* finishes its in-flight requests: only a shutdown refuses one of them.
AdmittedAreServed ==
  \A q \in Requests : answer[q] = "unavailable" => shuttingDown

\* Until the server closes it, the runtime that new requests and hand-offs go
\* to is open and holds its resources, whatever reloads begin, fail, are
\* overtaken by the shutdown or retire.
ServingRuntimeOpen ==
  closing \notin {"last", "closed"} =>
    phase[current] = "open" /\ current \in holders /\ current \notin retired

\* A stream that is open before close() goes past its wait is over when it does
\* (runtime.ts settle(), the retired runtime of test/streaming.test.ts).
WaitsForOpenStreams ==
  [][\A q \in Requests :
       /\ pc[q] \in {"tracked", "streaming"}
       /\ ~Released(on[q]) /\ Released(on[q])'
       => pc'[q] \notin {"tracked", "streaming"}]_vars

\* The exclusive resource is opened once for the life of the server: every
\* activation finds a live reference to share, so no reload closes it and no
\* reload opens it a second time.
OpenedOnce == openings = 1

\* When close() has returned, every runtime ever built is closed, no reference
\* to the resource is left and no dispatch is in progress.
NothingLeftBehind ==
  closing = "closed" =>
    /\ \A r \in Runtimes : phase[r] \in {"none", "closed"}
    /\ holders = {}
    /\ \A q \in Requests : pc[q] # "running"

\* The hand-off contract of extensions.ts is implemented by reload and close.
Handoff == INSTANCE Lease WITH
  Holders <- Runtimes, held <- holders, serving <- current,
  stopped <- Closing(current)
HandoffSpec == Handoff!Spec

\* Once called, close() returns, whatever clients and reloads do.
CloseTerminates == closing = "draining" ~> closing = "closed"

\* A replaced runtime is eventually closed, even if a client never finishes
\* sending its request or reading its answer.
RetiredCloses == \A r \in Runtimes : r \in retired ~> phase[r] = "closed"
=============================================================================
