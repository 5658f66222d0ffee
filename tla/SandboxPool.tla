----------------------------- MODULE SandboxPool -----------------------------
(***************************************************************************)
(* The pool of worker threads that runs sandboxed functions                *)
(* (packages/core/src/functions.ts, SandboxPool) and the protocol of its   *)
(* workers (packages/core/src/function-worker.ts).                         *)
(*                                                                         *)
(* A worker is a thread: what it posts is delivered later, a worker told   *)
(* to terminate may still post until it stops, and everything it posted is *)
(* delivered before its 'exit' event.                                      *)
(***************************************************************************)
EXTENDS Naturals, FiniteSets

CONSTANTS
  Calls,       \* execute() calls
  NoCall,      \* no call
  Size,        \* `size`: the number of slots
  MaxWorkers   \* bound: how many workers are ever spawned

ASSUME SizeAssumption == Size \in Nat \ {0}
ASSUME MaxWorkersAssumption == MaxWorkers \in Nat /\ MaxWorkers >= Size
ASSUME NoCallAssumption == NoCall \notin Calls

Slots == 1..Size
Workers == 1..MaxWorkers   \* in the order they are spawned

VARIABLES
  phase,        \* how far the pool is: start(), serving, the steps of close()
  slots,        \* slots[i]: the worker in slot i
  home,         \* home[w]: the slot worker w was spawned for
  timers,       \* timers[i]: restart timers pending for slot i
  restarts,     \* restarts[i]: consecutive replacement attempts of slot i
  thread,       \* thread[w]: what the thread of w does
  mail,         \* mail[w]: the message of w that is not delivered yet
  job,          \* job[w]: the call w computes
  terminated,   \* the workers whose terminate() was called
  initialized,  \* the workers whose `initialized` is set
  startup,      \* startup[w]: the promise spawn() returned
  ready,        \* the workers whose slot is `ready`
  pending,      \* pending[w]: the call pending on the slot of w
  answer        \* answer[c]: how the promise of call c settled

poolVars == <<phase, slots, home, timers, restarts>>
threadVars == <<thread, mail, job, terminated>>
slotVars == <<initialized, startup, ready, pending>>
vars == <<poolVars, threadVars, slotVars, answer>>

\* "closing" is close() awaiting `starting`, "terminating" is close() awaiting
\* the terminations.
Phase == {"starting", "open", "closing", "terminating", "closed"}
Thread == {"none", "evaluating", "up", "down", "exited"}
Answer == {"new", "pending", "ok", "error", "retired", "died", "deadline",
           "shutdown", "refused"}
Message == {"none", "ready", "startupError", "ok", "error", "retire"}

closed == phase \in {"closing", "terminating", "closed"}

\* `starting`: the spawns inside startup.
Starting == {w \in Workers : startup[w] = "pending"}

\* spawn(i) makes w the worker of slot i.
Spawn(i, w) ==
  /\ thread[w] = "none" /\ \A v \in Workers : v < w => thread[v] # "none"
  /\ slots' = [slots EXCEPT ![i] = w]
  /\ home' = [home EXCEPT ![w] = i]
  /\ thread' = [thread EXCEPT ![w] = "evaluating"]
  /\ startup' = [startup EXCEPT ![w] = "pending"]

-----------------------------------------------------------------------------
(* The thread of a worker                                                   *)

Post(w, m) ==
  /\ mail[w] = "none"
  /\ mail' = [mail EXCEPT ![w] = m]
  /\ UNCHANGED <<poolVars, terminated, slotVars, answer>>

\* The startup evaluation settled and its outcome is posted.
PostStartup(w) ==
  /\ thread[w] = "evaluating"
  /\ \E m \in {"ready", "startupError"} : Post(w, m)
  /\ thread' = [thread EXCEPT ![w] = "up"]
  /\ UNCHANGED job

\* The invocation returned, failed, or exhausted the guest's memory.
PostAnswer(w) ==
  /\ thread[w] = "up" /\ job[w] # NoCall
  /\ \E m \in {"ok", "error", "retire"} : Post(w, m)
  /\ job' = [job EXCEPT ![w] = NoCall]
  /\ UNCHANGED thread

\* The thread stops, because it was told to or because it died.
Stop(w) ==
  /\ thread[w] \in {"evaluating", "up"}
  /\ thread' = [thread EXCEPT ![w] = "down"]
  /\ UNCHANGED <<poolVars, mail, job, terminated, slotVars, answer>>

-----------------------------------------------------------------------------
(* What the pool does about a worker                                        *)

\* scheduleRespawn(i), n times.
Respawn(i, n) ==
  IF closed \/ n = 0
  THEN UNCHANGED <<timers, restarts>>
  ELSE /\ timers' = [timers EXCEPT ![i] = @ + n]
       /\ restarts' = [restarts EXCEPT ![i] = @ + n]

\* A spawn that start() waits for.
Initial(w) == w \in Slots

\* A failure inside startup rejects the spawn and settles it for close(); a
\* replacement's is retried by spawn().catch.
RejectsNever(w) == FALSE
Rejects(w) == startup[w] = "pending" /\ w \notin initialized
Retries(w) == Rejects(w) /\ ~Initial(w)

\* An exit replaces the worker if it had started and its slot is still its own.
ReplacesNever(w) == FALSE
Replaces(w) == w \in initialized /\ slots[home[w]] = w

\* The call pending on w is rejected; the slot of w is not ready any more.
PendingForgotten(w, a) == answer
PendingFails(w, a) == [c \in Calls |-> IF c = pending[w] THEN a ELSE answer[c]]

FailReady(w) == ready
FailUnready(w) == ready \ {w}

\* fail() of worker w; `replaces` adds what the 'exit' handler does after it.
\* A spawn that fails inside start() closes the pool.
Fail(w, replaces) ==
  /\ ready' = FailUnready(w)
  /\ startup' = IF Rejects(w) THEN [startup EXCEPT ![w] = "rejected"] ELSE startup
  /\ pending' = [pending EXCEPT ![w] = NoCall]
  /\ answer' = PendingFails(w, "died")
  /\ terminated' = terminated \cup {w}
  /\ phase' = IF Rejects(w) /\ Initial(w) /\ phase = "starting"
              THEN "closing" ELSE phase
  /\ IF phase' = phase
     THEN Respawn(home[w], IF Retries(w) \/ (replaces /\ Replaces(w)) THEN 1 ELSE 0)
     ELSE timers' = [i \in Slots |-> 0] /\ UNCHANGED restarts
  /\ UNCHANGED <<slots, home, initialized>>

\* The init timeout, the only one that ends a worker inside its evaluation.
InitTimeout(w) ==
  /\ w \in Starting
  /\ Fail(w, FALSE)
  /\ UNCHANGED <<thread, mail, job>>

\* The 'error' event of a thread that died.
ErrorEvent(w) ==
  /\ thread[w] = "down" /\ w \notin terminated
  /\ Fail(w, FALSE)
  /\ UNCHANGED <<thread, mail, job>>

\* The 'exit' event.
Exited(w) ==
  /\ thread[w] = "down" /\ mail[w] = "none"
  /\ thread' = [thread EXCEPT ![w] = "exited"]
  /\ Fail(w, TRUE)
  /\ UNCHANGED <<mail, job>>

Delivered(w) == mail' = [mail EXCEPT ![w] = "none"] /\ UNCHANGED <<thread, job>>

\* 'ready', also when the init timeout has fired meanwhile: `initialized` tells
\* whether it was seen before, not whether the startup has failed.  start()
\* returns with the last of the spawns it waits for.
DeliverReady(w) ==
  /\ mail[w] = "ready"
  /\ Delivered(w)
  /\ initialized' = initialized \cup {w}
  /\ ready' = ready \cup {w}
  /\ startup' = IF startup[w] = "pending"
                THEN [startup EXCEPT ![w] = "resolved"] ELSE startup
  /\ phase' = IF phase = "starting" /\ \A v \in Slots : startup'[v] = "resolved"
              THEN "open" ELSE phase
  /\ UNCHANGED <<slots, home, timers, restarts, terminated, pending, answer>>

DeliverStartupError(w) ==
  /\ mail[w] = "startupError"
  /\ Delivered(w)
  /\ Fail(w, FALSE)

\* An answer to a call that is no longer pending is dropped.
DeliverStale(w) ==
  /\ mail[w] \in {"ok", "error", "retire"} /\ pending[w] = NoCall
  /\ Delivered(w)
  /\ UNCHANGED <<poolVars, terminated, slotVars, answer>>

\* Any answered invocation clears the slot's backoff.
BackoffEased(i) == [restarts EXCEPT ![i] = @ - 1]
BackoffCleared(i) == [restarts EXCEPT ![i] = 0]
DeliverAnswer(w) ==
  /\ mail[w] \in {"ok", "error"} /\ pending[w] # NoCall
  /\ Delivered(w)
  /\ answer' = [answer EXCEPT ![pending[w]] = mail[w]]
  /\ pending' = [pending EXCEPT ![w] = NoCall]
  /\ restarts' = BackoffCleared(home[w])
  /\ UNCHANGED <<phase, slots, home, timers, terminated, initialized, startup, ready>>

\* A worker whose guest exhausted its memory is replaced and keeps its backoff.
RetireClears(w) == restarts' = BackoffCleared(home[w])
RetireKeeps(w) == restarts' = restarts
DeliverRetire(w) ==
  /\ mail[w] = "retire" /\ pending[w] # NoCall
  /\ Delivered(w)
  /\ RetireKeeps(w)
  /\ answer' = PendingFails(w, "retired")
  /\ pending' = [pending EXCEPT ![w] = NoCall]
  /\ ready' = ready \ {w}
  /\ terminated' = terminated \cup {w}
  /\ UNCHANGED <<phase, slots, home, timers, initialized, startup>>

\* The timer of scheduleRespawn(i).
RestartTimer(i, w) ==
  /\ timers[i] > 0
  /\ timers' = [timers EXCEPT ![i] = @ - 1]
  /\ Spawn(i, w)
  /\ UNCHANGED <<phase, restarts, mail, job, terminated, initialized, ready,
                 pending, answer>>

-----------------------------------------------------------------------------
(* execute() and close()                                                    *)

IdleOrBusy(i) == slots[i] \in ready
Idle(i) == slots[i] \in ready /\ pending[slots[i]] = NoCall

\* The first ready idle slot takes the call.
Execute(c) ==
  /\ phase # "starting" /\ answer[c] = "new" /\ ~closed
  /\ \E i \in Slots :
       /\ Idle(i) /\ \A j \in Slots : j < i => ~Idle(j)
       /\ pending' = [pending EXCEPT ![slots[i]] = c]
       /\ job' = [job EXCEPT ![slots[i]] = c]
  /\ answer' = [answer EXCEPT ![c] = "pending"]
  /\ UNCHANGED <<poolVars, thread, mail, terminated, initialized, startup, ready>>

Refuse(c) ==
  /\ phase # "starting" /\ answer[c] = "new"
  /\ closed \/ \A i \in Slots : ~Idle(i)
  /\ answer' = [answer EXCEPT ![c] = "refused"]
  /\ UNCHANGED <<poolVars, threadVars, slotVars>>

\* The deadline of the call pending on w.
CallDeadline(w) ==
  /\ pending[w] # NoCall
  /\ answer' = PendingFails(w, "deadline")
  /\ pending' = [pending EXCEPT ![w] = NoCall]
  /\ ready' = FailUnready(w)
  /\ terminated' = terminated \cup {w}
  /\ UNCHANGED <<poolVars, thread, mail, job, initialized, startup>>

\* close(): no restart any more, and what is pending in a slot is rejected.
InSlots == {slots[i] : i \in Slots}
CloseCalled ==
  /\ phase = "open"
  /\ phase' = "closing"
  /\ timers' = [i \in Slots |-> 0]
  /\ answer' = [c \in Calls |-> IF \E w \in InSlots : pending[w] = c
                                THEN "shutdown" ELSE answer[c]]
  /\ pending' = [w \in Workers |-> IF w \in InSlots THEN NoCall ELSE pending[w]]
  /\ UNCHANGED <<slots, home, restarts, threadVars, initialized, startup, ready>>

\* The spawns inside startup have settled: every slot is terminated.
StartedAlways == TRUE
Started == Starting = {}
CloseTerminates ==
  /\ phase = "closing" /\ Started
  /\ phase' = "terminating"
  /\ terminated' = terminated \cup InSlots
  /\ UNCHANGED <<slots, home, timers, restarts, thread, mail, job, slotVars, answer>>

CloseReturns ==
  /\ phase = "terminating" /\ \A w \in InSlots : thread[w] = "exited"
  /\ phase' = "closed"
  /\ UNCHANGED <<slots, home, timers, restarts, threadVars, slotVars, answer>>

-----------------------------------------------------------------------------
\* start() has spawned a worker for every slot.
Init ==
  /\ phase = "starting"
  /\ slots = [i \in Slots |-> i]
  /\ home = [w \in Workers |-> IF w \in Slots THEN w ELSE 1]
  /\ timers = [i \in Slots |-> 0]
  /\ restarts = [i \in Slots |-> 0]
  /\ thread = [w \in Workers |-> IF w \in Slots THEN "evaluating" ELSE "none"]
  /\ mail = [w \in Workers |-> "none"]
  /\ job = [w \in Workers |-> NoCall]
  /\ terminated = {} /\ initialized = {} /\ ready = {}
  /\ startup = [w \in Workers |-> IF w \in Slots THEN "pending" ELSE "none"]
  /\ pending = [w \in Workers |-> NoCall]
  /\ answer = [c \in Calls |-> "new"]

Deliver(w) ==
  \/ DeliverReady(w) \/ DeliverStartupError(w) \/ DeliverStale(w)
  \/ DeliverAnswer(w) \/ DeliverRetire(w)

Timers(w) == InitTimeout(w) \/ CallDeadline(w)

Closes == CloseTerminates \/ CloseReturns

Next ==
  \/ \E w \in Workers :
       \/ PostStartup(w) \/ PostAnswer(w) \/ Stop(w)
       \/ Deliver(w) \/ ErrorEvent(w) \/ Exited(w) \/ Timers(w)
  \/ \E i \in Slots, w \in Workers : RestartTimer(i, w)
  \/ \E c \in Calls : Execute(c) \/ Refuse(c)
  \/ CloseCalled \/ Closes

\* Timers fire, posted messages and exits are delivered, a terminated thread
\* stops and the promises close() waits on resume it.  A guest owes nothing.
Fairness ==
  /\ \A w \in Workers :
       /\ WF_vars(InitTimeout(w)) /\ WF_vars(CallDeadline(w))
       /\ WF_vars(Deliver(w)) /\ WF_vars(Exited(w))
       /\ WF_vars(Stop(w) /\ w \in terminated)
  /\ WF_vars(\E i \in Slots, w \in Workers : RestartTimer(i, w))
  /\ WF_vars(Closes)

Spec == Init /\ [][Next]_vars /\ Fairness

-----------------------------------------------------------------------------
(* Properties                                                               *)

\* The state has the shape of the pool's, the slots' and the threads' state.
TypeOK ==
  /\ phase \in Phase
  /\ slots \in [Slots -> Workers] /\ home \in [Workers -> Slots]
  /\ timers \in [Slots -> Nat] /\ restarts \in [Slots -> Nat]
  /\ thread \in [Workers -> Thread]
  /\ mail \in [Workers -> Message]
  /\ job \in [Workers -> Calls \cup {NoCall}]
  /\ startup \in [Workers -> {"none", "pending", "resolved", "rejected"}]
  /\ pending \in [Workers -> Calls \cup {NoCall}]
  /\ answer \in [Calls -> Answer]
  /\ terminated \subseteq Workers /\ initialized \subseteq Workers
  /\ ready \subseteq Workers

\* The startup of w failed and its 'ready' was delivered all the same.
Late(w) == w \in initialized /\ startup[w] = "rejected"

\* "A worker exit must never latch a slot off permanently" (scheduleRespawn()):
\* while the pool is not closed, every slot has a worker that serves or may
\* still start, one whose exit will replace it, or a restart timer. However many
\* exits there were: docs/CAPACITY.md:92 says that more than 3 a minute leave the
\* slot unavailable, which the code does not do.
NeverLatched ==
  ~closed => \A i \in Slots :
    \/ timers[i] > 0
    \/ LET w == slots[i] IN
         \/ startup[w] = "pending"
         \/ w \in initialized /\ thread[w] # "exited"

\* A slot is ready only while its worker has not been told to terminate, so no
\* call is handed to a dying worker and `healthy` counts none; the exception is
\* a worker whose 'ready' was delivered after its init timeout.
ReadyServes == \A w \in ready : w \in terminated => Late(w) \/ closed

\* A call is pending on exactly one worker while its promise is unsettled, and
\* on none once it has settled: no answer, deadline, death or close() loses a
\* call or settles one that has moved on.
CallsTracked ==
  \A c \in Calls :
    IF answer[c] = "pending"
    THEN \E w \in Workers : pending[w] = c /\ \A v \in Workers \ {w} : pending[v] # c
    ELSE \A w \in Workers : pending[w] # c

\* #708: only the init timeout terminates a worker inside module evaluation,
\* close() never does (the comments at the timer and in close()).
EvaluationNotCut ==
  [][\A w \in Workers :
       thread[w] = "evaluating" /\ w \in terminated' \ terminated
         => InitTimeout(w)]_vars

\* A slot's backoff starts again only after one of its workers answered a call:
\* deaths, deadlines and exhausted guests keep it (#1092).
BacksOff ==
  [][\A i \in Slots : restarts'[i] < restarts[i] =>
       \E c \in Calls : answer[c] = "pending" /\ answer'[c] \in {"ok", "error"}]_vars

\* The comment in close(): a spawn that settles after `closed` is set is
\* terminated like any other slot, so that no worker outlives close().
NoWorkerLeft ==
  phase = "closed" =>
    \A w \in Workers : thread[w] \in {"evaluating", "up"} => w \in terminated

\* Every call is answered, whatever the guest and its worker do.
CallsAnswered == \A c \in Calls : answer[c] = "pending" ~> answer[c] # "pending"

\* close() returns, whatever the workers do.
CloseCompletes == phase = "closing" ~> phase = "closed"
=============================================================================
