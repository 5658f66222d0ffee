-------------------------- MODULE SandboxPoolProofs --------------------------
(***************************************************************************)
(* Proofs about SandboxPool, for any number of slots, workers and calls.   *)
(* Protocol says what the flags of a worker can be together; it is the     *)
(* strengthening that makes the safety properties inductive. ReplacedInv   *)
(* says which threads run that no slot holds, for what close() leaves.     *)
(***************************************************************************)
EXTENDS SandboxPool, TLAPS

\* A worker that was never spawned, one inside startup, one that failed there
\* and one that serves.
WorkerOK(w) ==
  /\ thread[w] = "none" =>
       /\ w \notin initialized /\ w \notin terminated
       /\ mail[w] = "none" /\ pending[w] = NoCall /\ startup[w] = "none"
  /\ startup[w] = "none" => thread[w] = "none"
  /\ startup[w] = "pending" =>
       w \notin initialized /\ w \notin terminated /\ thread[w] # "exited"
  /\ startup[w] = "resolved" => w \in initialized
  /\ startup[w] = "rejected" => w \in terminated
  /\ w \in terminated /\ w \notin initialized => startup[w] = "rejected"
  /\ mail[w] # "none" => thread[w] \in {"up", "down"}
  /\ thread[w] = "evaluating" \/ mail[w] = "ready" => w \notin initialized
  /\ pending[w] # NoCall \/ w \in ready => w \in initialized

Protocol ==
  /\ \A w \in Workers : WorkerOK(w)
  /\ \A i \in Slots : home[slots[i]] = i /\ thread[slots[i]] # "none"
  /\ phase = "open" => \A w \in Slots : startup[w] = "resolved"

IInv == TypeOK /\ Protocol /\ NeverLatched /\ ReadyServes /\ CallsTracked

LEMMA SlotsAreWorkers == Slots \subseteq Workers
BY SizeAssumption, MaxWorkersAssumption DEF Slots, Workers

-----------------------------------------------------------------------------
(* Steps that end a worker                                                  *)

\* fail() keeps everything; in 'exit' it does so together with the new thread
\* state, and the exit of a worker that had started restarts its slot.
LEMMA FailStep ==
  ASSUME IInv, NEW w \in Workers, NEW replaces \in BOOLEAN, Fail(w, replaces),
         thread[w] # "none", job' \in [Workers -> Calls \cup {NoCall}],
         mail' \in [Workers -> Message],
         \A v \in Workers : mail'[v] = mail[v] \/ mail'[v] = "none",
         \/ thread' = thread
         \/ thread' = [thread EXCEPT ![w] = "exited"] /\ replaces /\ mail[w] = "none"
  PROVE  IInv'
<1> USE DEF IInv
<1>1. TypeOK'
  <2>1. timers' \in [Slots -> Nat] /\ restarts' \in [Slots -> Nat]
    BY DEF TypeOK, Fail, Respawn
  <2>2. answer' \in [Calls -> Answer]
    BY DEF TypeOK, Fail, PendingFails, Answer
  <2>3. thread' \in [Workers -> Thread]
    BY DEF TypeOK, Thread
  <2>4. /\ slots' \in [Slots -> Workers] /\ home' \in [Workers -> Slots]
        /\ startup' \in [Workers -> {"none", "pending", "resolved", "rejected"}]
        /\ pending' \in [Workers -> Calls \cup {NoCall}]
        /\ terminated' \subseteq Workers /\ initialized' \subseteq Workers
        /\ ready' \subseteq Workers /\ phase' \in Phase
    BY DEF TypeOK, Fail, FailUnready, Phase
  <2>5. QED BY <2>1, <2>2, <2>3, <2>4 DEF TypeOK
<1>2. /\ slots' = slots /\ home' = home /\ initialized' = initialized
      /\ terminated' = terminated \cup {w} /\ ready' = ready \ {w}
      /\ pending' = [pending EXCEPT ![w] = NoCall]
      /\ phase' = phase \/ phase' = "closing"
      /\ startup' = IF Rejects(w) THEN [startup EXCEPT ![w] = "rejected"] ELSE startup
  BY DEF Fail, FailUnready
<1>3. \A v \in Workers : WorkerOK(v)'
  BY <1>2 DEF Protocol, WorkerOK, TypeOK, Rejects
<1>4. Protocol'
  <2>1. \A i \in Slots : home'[slots'[i]] = i /\ thread'[slots'[i]] # "none"
    BY <1>2 DEF Protocol, TypeOK
  <2>2. phase' = "open" => \A v \in Slots : startup'[v] = "resolved"
    BY <1>2, SlotsAreWorkers DEF Protocol, WorkerOK, TypeOK, Rejects
  <2>3. QED BY <1>3, <2>1, <2>2 DEF Protocol
<1>5. NeverLatched'
  <2> SUFFICES ASSUME ~closed', NEW i \in Slots
               PROVE  \/ timers'[i] > 0
                      \/ startup'[slots[i]] = "pending"
                      \/ slots[i] \in initialized /\ thread'[slots[i]] # "exited"
    BY <1>2 DEF NeverLatched
  <2>1. phase' = phase /\ ~closed
    BY <1>2 DEF closed
  <2>2. /\ timers \in [Slots -> Nat] /\ home[w] \in Slots /\ slots[i] \in Workers
        /\ startup \in [Workers -> {"none", "pending", "resolved", "rejected"}]
        /\ thread \in [Workers -> Thread] /\ home[slots[i]] = i
    BY DEF TypeOK, Protocol
  <2>3. Respawn(home[w], IF Retries(w) \/ (replaces /\ Replaces(w)) THEN 1 ELSE 0)
    BY <2>1 DEF Fail
  <2>4. timers'[i] = timers[i] \/ timers'[i] = timers[i] + 1
    BY <2>1, <2>2, <2>3 DEF Respawn
  <2>5. CASE slots[i] # w
    BY <1>2, <2>1, <2>2, <2>4, <2>5 DEF NeverLatched
  <2>6. CASE slots[i] = w
    <3>1. Retries(w) \/ (replaces /\ Replaces(w)) => timers'[i] > 0
      BY <2>1, <2>2, <2>3, <2>6 DEF Respawn
    <3>2. Rejects(w) /\ ~Initial(w) => Retries(w)
      BY DEF Retries
    <3>3. ~(Rejects(w) /\ Initial(w))
      BY <2>1 DEF Fail, Rejects, Initial, Protocol, closed, Phase, TypeOK
    <3>4. CASE thread'[w] = "exited" /\ thread[w] # "exited" /\ w \in initialized
      BY <2>2, <2>6, <3>1, <3>4 DEF Replaces
    <3>5. CASE ~(thread'[w] = "exited" /\ thread[w] # "exited" /\ w \in initialized)
      BY <1>2, <2>1, <2>2, <2>4, <2>6, <3>1, <3>2, <3>3, <3>5
      DEF NeverLatched, Rejects, Protocol, WorkerOK
    <3>6. QED BY <3>4, <3>5
  <2>7. QED BY <2>5, <2>6
<1>6. ReadyServes'
  BY <1>2 DEF ReadyServes, Late, Rejects, closed, TypeOK, Protocol, WorkerOK
<1>7. CallsTracked'
  BY <1>2, NoCallAssumption DEF CallsTracked, Fail, PendingFails, TypeOK
<1>8. QED BY <1>1, <1>4, <1>5, <1>6, <1>7

-----------------------------------------------------------------------------
(* The other steps                                                          *)

\* What the thread of a worker does alone.
LEMMA ThreadStep ==
  ASSUME IInv, NEW w \in Workers, PostStartup(w) \/ PostAnswer(w) \/ Stop(w)
  PROVE  IInv'
<1> USE DEF IInv, PostStartup, PostAnswer, Stop, Post, poolVars, slotVars
<1>1. TypeOK'
  BY DEF TypeOK, Thread, Message
<1>2. \A v \in Workers : WorkerOK(v)'
  BY DEF Protocol, WorkerOK, TypeOK
<1>3. Protocol'
  BY <1>2 DEF Protocol, TypeOK
<1>4. NeverLatched'
  BY DEF NeverLatched, closed, TypeOK
<1>5. ReadyServes' /\ CallsTracked'
  BY DEF ReadyServes, CallsTracked, Late, closed
<1>6. QED BY <1>1, <1>3, <1>4, <1>5

\* A delivered message, other than a startup error.
LEMMA DeliverStep ==
  ASSUME IInv, NEW w \in Workers,
         DeliverReady(w) \/ DeliverStale(w) \/ DeliverAnswer(w) \/ DeliverRetire(w)
  PROVE  IInv'
<1> USE DEF IInv, Delivered, poolVars, slotVars, RetireKeeps, PendingFails,
            BackoffCleared
<1>1. CASE DeliverReady(w)
  <2>1. TypeOK'
    BY <1>1 DEF DeliverReady, TypeOK, Message, Phase
  <2>2. \A v \in Workers : WorkerOK(v)'
    BY <1>1 DEF DeliverReady, Protocol, WorkerOK, TypeOK
  <2>3. phase' = "open" => \A v \in Slots : startup'[v] = "resolved"
    BY <1>1, SlotsAreWorkers DEF DeliverReady, Protocol, TypeOK
  <2>4. Protocol'
    BY <1>1, <2>2, <2>3 DEF DeliverReady, Protocol
  <2>5. thread[w] # "exited"
    BY <1>1 DEF DeliverReady, Protocol, WorkerOK
  <2>6. NeverLatched'
    BY <1>1, <2>5 DEF DeliverReady, NeverLatched, closed, TypeOK
  <2>7. ReadyServes'
    BY <1>1 DEF DeliverReady, ReadyServes, Late, closed, Protocol, WorkerOK, TypeOK
  <2>8. CallsTracked'
    BY <1>1 DEF DeliverReady, CallsTracked
  <2>9. QED BY <2>1, <2>4, <2>6, <2>7, <2>8
<1>2. CASE DeliverStale(w)
  BY <1>2 DEF DeliverStale, TypeOK, Message, Protocol, WorkerOK, NeverLatched,
     closed, ReadyServes, Late, CallsTracked
<1>3. CASE DeliverAnswer(w) \/ DeliverRetire(w)
  <2>1. TypeOK'
    BY <1>3 DEF DeliverAnswer, DeliverRetire, TypeOK, Message, Answer
  <2>2. \A v \in Workers : WorkerOK(v)'
    BY <1>3 DEF DeliverAnswer, DeliverRetire, Protocol, WorkerOK, TypeOK
  <2>3. Protocol'
    BY <1>3, <2>2 DEF DeliverAnswer, DeliverRetire, Protocol
  <2>4. NeverLatched'
    BY <1>3 DEF DeliverAnswer, DeliverRetire, NeverLatched, closed
  <2>5. ReadyServes'
    BY <1>3 DEF DeliverAnswer, DeliverRetire, ReadyServes, Late, closed
  <2>6. CallsTracked'
    <3>1. pending[w] \in Calls /\ answer[pending[w]] = "pending"
      BY <1>3 DEF DeliverAnswer, DeliverRetire, CallsTracked, TypeOK
    <3>2. \A v \in Workers \ {w} : pending[v] # pending[w]
      BY <3>1 DEF CallsTracked
    <3>3. pending' = [pending EXCEPT ![w] = NoCall]
      BY <1>3 DEF DeliverAnswer, DeliverRetire
    <3>4. /\ answer'[pending[w]] # "pending"
          /\ \A c \in Calls : c # pending[w] => answer'[c] = answer[c]
      BY <1>3, <3>1 DEF DeliverAnswer, DeliverRetire, TypeOK
    <3>5. QED BY <3>1, <3>2, <3>3, <3>4, NoCallAssumption DEF CallsTracked, TypeOK
  <2>7. QED BY <2>1, <2>3, <2>4, <2>5, <2>6
<1>4. QED BY <1>1, <1>2, <1>3

\* A restart timer puts a fresh worker in its slot.
LEMMA RestartStep ==
  ASSUME IInv, NEW i \in Slots, NEW w \in Workers, RestartTimer(i, w)
  PROVE  IInv'
<1> USE DEF IInv, RestartTimer, Spawn
<1>1. TypeOK'
  BY DEF TypeOK, Thread
<1>2. \A v \in Workers : WorkerOK(v)'
  BY DEF Protocol, WorkerOK, TypeOK
<1>3. \A j \in Slots : home'[slots'[j]] = j /\ thread'[slots'[j]] # "none"
  BY DEF Protocol, TypeOK
<1>4. phase' = "open" => \A v \in Slots : startup'[v] = "resolved"
  BY SlotsAreWorkers DEF Protocol, WorkerOK, TypeOK
<1>5. NeverLatched'
  BY DEF NeverLatched, closed, TypeOK, Protocol
<1>6. ReadyServes' /\ CallsTracked'
  BY DEF ReadyServes, CallsTracked, Late, closed, TypeOK, Protocol, WorkerOK
<1>7. QED BY <1>1, <1>2, <1>3, <1>4, <1>5, <1>6 DEF Protocol

\* What callers and close() do.
LEMMA CallerStep ==
  ASSUME IInv, \/ \E c \in Calls : Execute(c) \/ Refuse(c)
               \/ CloseCalled \/ Closes
  PROVE  IInv'
<1> USE DEF IInv, poolVars, slotVars, threadVars
<1>1. ASSUME NEW c \in Calls, Execute(c)
      PROVE  IInv'
  <2>1. PICK i \in Slots :
          /\ Idle(i)
          /\ pending' = [pending EXCEPT ![slots[i]] = c]
          /\ job' = [job EXCEPT ![slots[i]] = c]
    BY <1>1 DEF Execute
  <2>2. slots[i] \in Workers /\ slots[i] \in ready /\ pending[slots[i]] = NoCall
    BY <2>1 DEF Idle, TypeOK
  <2>3. TypeOK'
    BY <1>1, <2>1 DEF Execute, TypeOK, Answer
  <2>4. \A v \in Workers : WorkerOK(v)'
    BY <1>1, <2>1, <2>2 DEF Execute, Protocol, WorkerOK, TypeOK
  <2>5. Protocol' /\ NeverLatched' /\ ReadyServes'
    BY <1>1, <2>4 DEF Execute, Protocol, NeverLatched, ReadyServes, Late, closed
  <2>6. CallsTracked'
    BY <1>1, <2>1, <2>2, NoCallAssumption DEF Execute, CallsTracked, TypeOK
  <2>7. QED BY <2>3, <2>5, <2>6
<1>2. ASSUME NEW c \in Calls, Refuse(c)  PROVE IInv'
  BY <1>2 DEF Refuse, TypeOK, Answer, Protocol, WorkerOK, NeverLatched, ReadyServes,
     Late, closed, CallsTracked
<1>3. CASE CloseCalled
  <2>1. TypeOK'
    BY <1>3 DEF CloseCalled, TypeOK, Phase, Answer
  <2>2. \A v \in Workers : WorkerOK(v)'
    BY <1>3 DEF CloseCalled, Protocol, WorkerOK, TypeOK
  <2>3. Protocol' /\ NeverLatched' /\ ReadyServes'
    BY <1>3, <2>2 DEF CloseCalled, Protocol, NeverLatched, ReadyServes, Late, closed
  <2>4. CallsTracked'
    <3>1. /\ answer' = [c \in Calls |-> IF \E w \in InSlots : pending[w] = c
                                        THEN "shutdown" ELSE answer[c]]
          /\ pending' = [w \in Workers |-> IF w \in InSlots THEN NoCall ELSE pending[w]]
          /\ InSlots \subseteq Workers
      BY <1>3 DEF CloseCalled, InSlots, TypeOK
    <3> HIDE DEF IInv
    <3>2. CallsTracked
      BY DEF IInv
    <3>3. QED BY <3>1, <3>2, NoCallAssumption DEF CallsTracked
  <2>5. QED BY <2>1, <2>3, <2>4
<1>4. CASE CloseTerminates
  <2>1. terminated' = terminated \cup InSlots /\ InSlots \subseteq Workers
    BY <1>4 DEF CloseTerminates, InSlots, TypeOK
  <2>2. TypeOK'
    BY <1>4, <2>1 DEF CloseTerminates, TypeOK, Phase
  <2>3. \A v \in InSlots : thread[v] # "none" /\ startup[v] \in {"resolved", "rejected"}
    BY <1>4 DEF CloseTerminates, Started, Starting, InSlots, Protocol, WorkerOK, TypeOK
  <2>4. \A v \in Workers : WorkerOK(v)'
    BY <1>4, <2>1, <2>3 DEF CloseTerminates, Protocol, WorkerOK
  <2>5. Protocol' /\ NeverLatched' /\ ReadyServes' /\ CallsTracked'
    BY <1>4, <2>4 DEF CloseTerminates, Protocol, NeverLatched, ReadyServes, Late,
       closed, CallsTracked
  <2>6. QED BY <2>2, <2>5
<1>5. CASE CloseReturns
  BY <1>5 DEF CloseReturns, TypeOK, Phase, Protocol, WorkerOK, NeverLatched,
     ReadyServes, Late, closed, CallsTracked
<1>6. QED BY <1>1, <1>2, <1>3, <1>4, <1>5 DEF Closes

\* The deadline of a call unreadies the slot of its worker.
LEMMA DeadlineStep ==
  ASSUME IInv, NEW w \in Workers, CallDeadline(w)
  PROVE  IInv'
<1> USE DEF IInv, CallDeadline, PendingFails, FailUnready, poolVars
<1>1. TypeOK'
  BY DEF TypeOK, Answer
<1>2. \A v \in Workers : WorkerOK(v)'
  BY DEF Protocol, WorkerOK, TypeOK
<1>3. Protocol' /\ NeverLatched' /\ ReadyServes'
  BY <1>2 DEF Protocol, NeverLatched, ReadyServes, Late, closed
<1>4. CallsTracked'
  BY NoCallAssumption DEF CallsTracked, TypeOK
<1>5. QED BY <1>1, <1>3, <1>4

-----------------------------------------------------------------------------
(* The theorems                                                             *)

LEMMA PoolInit == Init => IInv
<1> SUFFICES ASSUME Init  PROVE IInv
  OBVIOUS
<1> USE SlotsAreWorkers, NoCallAssumption, SizeAssumption DEF Init
<1>1. TypeOK
  BY DEF TypeOK, Phase, Thread, Message, Answer, Slots
<1>2. Protocol
  BY DEF Protocol, WorkerOK
<1>3. NeverLatched /\ ReadyServes /\ CallsTracked
  BY DEF NeverLatched, ReadyServes, CallsTracked, closed
<1>4. QED BY <1>1, <1>2, <1>3 DEF IInv

LEMMA PoolStep == IInv /\ [Next]_vars => IInv'
<1> SUFFICES ASSUME IInv, [Next]_vars  PROVE IInv'
  OBVIOUS
<1>1. ASSUME NEW w \in Workers,
             \/ InitTimeout(w) \/ ErrorEvent(w) \/ Exited(w)
             \/ DeliverStartupError(w)
      PROVE  IInv'
  <2>1. job \in [Workers -> Calls \cup {NoCall}] /\ mail \in [Workers -> Message]
    BY DEF IInv, TypeOK
  <2>2. thread[w] # "none"
    BY <1>1 DEF InitTimeout, ErrorEvent, Exited, DeliverStartupError, Starting,
       IInv, Protocol, WorkerOK
  <2>3. CASE Exited(w)
    BY <2>1, <2>2, <2>3, FailStep DEF Exited
  <2>4. CASE InitTimeout(w) \/ ErrorEvent(w)
    BY <2>1, <2>2, <2>4, FailStep DEF InitTimeout, ErrorEvent
  <2>5. CASE DeliverStartupError(w)
    <3>1. /\ mail' \in [Workers -> Message]
          /\ \A v \in Workers : mail'[v] = mail[v] \/ mail'[v] = "none"
      BY <2>1, <2>5 DEF DeliverStartupError, Delivered, Message
    <3>2. QED BY <2>1, <2>2, <2>5, <3>1, FailStep DEF DeliverStartupError, Delivered
  <2>6. QED BY <1>1, <2>3, <2>4, <2>5
<1>2. CASE UNCHANGED vars
  BY <1>2 DEF vars, poolVars, threadVars, slotVars, IInv, TypeOK, Protocol, WorkerOK,
     NeverLatched, ReadyServes, Late, CallsTracked, closed
<1>3. QED
  BY <1>1, <1>2, ThreadStep, DeliverStep, RestartStep, CallerStep, DeadlineStep
  DEF Next, Deliver, Timers

LEMMA PoolInvariant == Spec => []IInv
BY PoolInit, PoolStep, PTL DEF Spec

\* Every reachable state has the type of the pool's variables.
THEOREM PoolTypeCorrect == Spec => []TypeOK
BY PoolInvariant, PTL DEF IInv

\* No exit, timeout or failed restart latches a slot off.
THEOREM SlotsRecover == Spec => []NeverLatched
BY PoolInvariant, PTL DEF IInv

\* A ready slot's worker has not been told to terminate, but for a late start.
THEOREM ReadySlotsServe == Spec => []ReadyServes
BY PoolInvariant, PTL DEF IInv

\* A call is pending on one worker until its promise settles, then on none.
THEOREM CallsAreTracked == Spec => []CallsTracked
BY PoolInvariant, PTL DEF IInv

\* #708: nothing but the init timeout terminates a worker that still evaluates
\* its modules: when it does not, its startup has settled or it is inside
\* `starting`, which close() awaits.
THEOREM EvaluationCompletes == Spec => EvaluationNotCut
<1>1. IInv /\ [Next]_vars =>
        [\A w \in Workers :
           thread[w] = "evaluating" /\ w \in terminated' \ terminated
             => InitTimeout(w)]_vars
  <2> SUFFICES ASSUME IInv, Next, NEW w \in Workers, thread[w] = "evaluating",
                      w \in terminated' \ terminated
               PROVE  InitTimeout(w)
    BY DEF vars, threadVars
  <2>1. /\ w \notin initialized /\ startup[w] = "pending" /\ pending[w] = NoCall
        /\ mail[w] = "none"
    BY DEF IInv, Protocol, WorkerOK, TypeOK
  <2>2. ASSUME NEW v \in Workers,
               PostStartup(v) \/ PostAnswer(v) \/ Stop(v) \/ DeliverReady(v)
                 \/ DeliverStale(v) \/ DeliverAnswer(v)
        PROVE  FALSE
    BY <2>2 DEF PostStartup, PostAnswer, Post, Stop, DeliverReady, DeliverStale,
       DeliverAnswer
  <2>3. ASSUME NEW v \in Workers,
               \/ DeliverStartupError(v) \/ ErrorEvent(v) \/ Exited(v)
               \/ DeliverRetire(v) \/ CallDeadline(v)
        PROVE  FALSE
    BY <2>1, <2>3 DEF DeliverStartupError, ErrorEvent, Exited, Fail, DeliverRetire,
       CallDeadline
  <2>4. ASSUME NEW v \in Workers, InitTimeout(v)  PROVE v = w
    BY <2>4 DEF InitTimeout, Fail
  <2>5. ASSUME CloseTerminates  PROVE FALSE
    BY <2>1, <2>5 DEF CloseTerminates, Started, Starting
  <2>6. ASSUME \/ CloseCalled \/ CloseReturns
               \/ \E i \in Slots, v \in Workers : RestartTimer(i, v)
               \/ \E c \in Calls : Execute(c) \/ Refuse(c)
        PROVE  FALSE
    BY <2>6 DEF CloseCalled, CloseReturns, RestartTimer, Execute, Refuse, threadVars
  <2>7. QED
    BY <2>2, <2>3, <2>4, <2>5, <2>6 DEF Next, Deliver, Timers, Closes
<1>2. QED BY PoolInvariant, <1>1, PTL DEF Spec, EvaluationNotCut

\* The backoff of a slot shrinks only in a step that answers a call with what
\* its function returned or threw: deaths, deadlines, exhausted guests, restarts
\* and close() keep it or raise it.
THEOREM BackoffKept == Spec => BacksOff
<1>1. IInv /\ [Next]_vars =>
        [\A i \in Slots : restarts'[i] < restarts[i] =>
           \E c \in Calls : answer[c] = "pending" /\ answer'[c] \in {"ok", "error"}]_vars
  <2> SUFFICES ASSUME IInv, Next, NEW i \in Slots, restarts'[i] < restarts[i]
               PROVE  \E c \in Calls : answer[c] = "pending" /\ answer'[c] \in {"ok", "error"}
    BY DEF vars, poolVars
  <2>1. restarts \in [Slots -> Nat]
    BY DEF IInv, TypeOK
  <2>2. ASSUME restarts' = restarts  PROVE FALSE
    BY <2>1, <2>2
  <2>3. ASSUME NEW w \in Workers, NEW replaces, Fail(w, replaces)  PROVE FALSE
    BY <2>1, <2>3 DEF Fail, Respawn
  <2>4. ASSUME NEW w \in Workers, DeliverAnswer(w)
        PROVE  \E c \in Calls : answer[c] = "pending" /\ answer'[c] \in {"ok", "error"}
    <3>1. PICK c \in Calls : c = pending[w]
      BY <2>4 DEF DeliverAnswer, IInv, TypeOK
    <3>2. answer[c] = "pending"
      BY <3>1 DEF IInv, CallsTracked
    <3>3. answer'[c] = mail[w] /\ mail[w] \in {"ok", "error"}
      BY <2>4, <3>1 DEF DeliverAnswer, IInv, TypeOK
    <3>4. QED BY <3>2, <3>3
  <2>5. ASSUME NEW w \in Workers,
               \/ PostStartup(w) \/ PostAnswer(w) \/ Stop(w) \/ DeliverReady(w)
               \/ DeliverStale(w) \/ DeliverRetire(w) \/ CallDeadline(w)
        PROVE  restarts' = restarts
    BY <2>5 DEF PostStartup, PostAnswer, Post, Stop, DeliverReady, DeliverStale,
       DeliverRetire, RetireKeeps, CallDeadline, poolVars
  <2>6. ASSUME \/ CloseCalled \/ CloseTerminates \/ CloseReturns
               \/ \E j \in Slots, w \in Workers : RestartTimer(j, w)
               \/ \E c \in Calls : Execute(c) \/ Refuse(c)
        PROVE  restarts' = restarts
    BY <2>6 DEF CloseCalled, CloseTerminates, CloseReturns, RestartTimer, Execute,
       Refuse, poolVars
  <2>7. ASSUME NEW w \in Workers,
               DeliverStartupError(w) \/ ErrorEvent(w) \/ Exited(w) \/ InitTimeout(w)
        PROVE  FALSE
    BY <2>3, <2>7 DEF DeliverStartupError, ErrorEvent, Exited, InitTimeout
  <2>8. QED
    BY <2>2, <2>4, <2>5, <2>6, <2>7 DEF Next, Deliver, Timers, Closes
<1>2. QED BY PoolInvariant, <1>1, PTL DEF Spec, BacksOff

\* The first outcome of a call is its last: whatever is delivered, times out or
\* dies later, no settled promise is settled again (spawn()'s `pending` slot).
THEOREM OutcomesFinal ==
  Spec => [][\A c \in Calls : answer[c] \notin {"new", "pending"}
                                => answer'[c] = answer[c]]_vars
<1>1. IInv /\ [Next]_vars =>
        [\A c \in Calls : answer[c] \notin {"new", "pending"}
                            => answer'[c] = answer[c]]_vars
  <2> SUFFICES ASSUME IInv, Next, NEW c \in Calls, answer[c] \notin {"new", "pending"}
               PROVE  answer'[c] = answer[c]
    BY DEF vars
  <2>1. /\ answer \in [Calls -> Answer]
        /\ \A w \in Workers : pending[w] # c
    BY DEF IInv, TypeOK, CallsTracked
  <2>2. ASSUME NEW w \in Workers, NEW replaces, Fail(w, replaces)
        PROVE  answer'[c] = answer[c]
    BY <2>1, <2>2 DEF Fail, PendingFails
  <2>3. ASSUME NEW w \in Workers,
               \/ DeliverStartupError(w) \/ ErrorEvent(w) \/ Exited(w) \/ InitTimeout(w)
        PROVE  answer'[c] = answer[c]
    BY <2>2, <2>3 DEF DeliverStartupError, ErrorEvent, Exited, InitTimeout
  <2>4. ASSUME NEW w \in Workers, DeliverAnswer(w) \/ DeliverRetire(w) \/ CallDeadline(w)
        PROVE  answer'[c] = answer[c]
    BY <2>1, <2>4 DEF DeliverAnswer, DeliverRetire, CallDeadline, PendingFails
  <2>5. ASSUME NEW d \in Calls, Execute(d) \/ Refuse(d)  PROVE answer'[c] = answer[c]
    BY <2>1, <2>5 DEF Execute, Refuse
  <2>6. ASSUME CloseCalled  PROVE answer'[c] = answer[c]
    <3>1. \A w \in InSlots : pending[w] # c
      BY <2>1 DEF InSlots, IInv, TypeOK
    <3>2. QED BY <2>6, <3>1 DEF CloseCalled
  <2>7. ASSUME \/ CloseTerminates \/ CloseReturns
               \/ \E i \in Slots, w \in Workers : RestartTimer(i, w)
               \/ \E w \in Workers : \/ PostStartup(w) \/ PostAnswer(w) \/ Stop(w)
                                     \/ DeliverReady(w) \/ DeliverStale(w)
        PROVE  answer' = answer
    BY <2>7 DEF CloseTerminates, CloseReturns, RestartTimer, PostStartup, PostAnswer,
       Post, Stop, DeliverReady, DeliverStale
  <2>8. QED
    BY <2>3, <2>4, <2>5, <2>6, <2>7 DEF Next, Deliver, Timers, Closes
<1>2. QED BY PoolInvariant, <1>1, PTL DEF Spec

-----------------------------------------------------------------------------
(* What close() leaves running                                              *)

\* As long as no 'ready' came after its init timeout, a slot is respawned only
\* for a worker that is gone: at most one timer runs for it, and a thread that
\* was not told to terminate is that of its slot.
NoneLate == \A w \in Workers : ~Late(w)
Gone(w) == startup[w] = "rejected" \/ thread[w] = "exited"

Replacements ==
  /\ \A w \in Workers : thread[w] # "none" /\ w \notin terminated => slots[home[w]] = w
  /\ \A i \in Slots : timers[i] <= 1 /\ (timers[i] = 1 => Gone(slots[i]))
  /\ phase \in {"terminating", "closed"} =>
       \A w \in Workers : thread[w] # "none" => w \in terminated

ReplacedInv ==
  /\ \A w \in Workers : thread[w] = "exited" => w \in terminated
  /\ closed => \A i \in Slots : timers[i] = 0
  /\ NoneLate => Replacements

\* A late 'ready' is never forgotten, and a startup that failed stays failed.
LEMMA LateKept ==
  ASSUME IInv, Next
  PROVE  /\ NoneLate' => NoneLate
         /\ \A w \in Workers : startup[w] = "rejected" => startup'[w] = "rejected"
<1>1. ASSUME NEW w \in Workers, startup[w] = "rejected"  PROVE startup'[w] = "rejected"
  <2>1. thread[w] # "none"
    BY <1>1 DEF IInv, Protocol, WorkerOK
  <2>2. ASSUME NEW v \in Workers, NEW replaces, Fail(v, replaces)
        PROVE  startup'[w] = "rejected"
    BY <1>1, <2>2 DEF Fail, IInv, TypeOK
  <2>3. ASSUME NEW v \in Workers, DeliverReady(v)  PROVE startup'[w] = "rejected"
    BY <1>1, <2>3 DEF DeliverReady, IInv, TypeOK
  <2>4. ASSUME NEW i \in Slots, NEW v \in Workers, RestartTimer(i, v)
        PROVE  startup'[w] = "rejected"
    BY <1>1, <2>1, <2>4 DEF RestartTimer, Spawn, IInv, TypeOK
  <2>5. ASSUME NEW v \in Workers,
               \/ PostStartup(v) \/ PostAnswer(v) \/ Stop(v) \/ DeliverStale(v)
               \/ DeliverAnswer(v) \/ DeliverRetire(v) \/ CallDeadline(v)
        PROVE  startup' = startup
    BY <2>5 DEF PostStartup, PostAnswer, Post, Stop, DeliverStale, DeliverAnswer,
       DeliverRetire, CallDeadline, slotVars
  <2>6. ASSUME \/ CloseCalled \/ CloseTerminates \/ CloseReturns
               \/ \E c \in Calls : Execute(c) \/ Refuse(c)
        PROVE  startup' = startup
    BY <2>6 DEF CloseCalled, CloseTerminates, CloseReturns, Execute, Refuse, slotVars
  <2>7. QED
    BY <1>1, <2>2, <2>3, <2>4, <2>5, <2>6
       DEF Next, Deliver, Timers, Closes, DeliverStartupError, ErrorEvent, Exited, InitTimeout
<1>2. initialized \subseteq initialized'
  BY DEF Next, Deliver, Timers, Closes, PostStartup, PostAnswer, Post, Stop, DeliverReady,
     DeliverStartupError, DeliverStale, DeliverAnswer, DeliverRetire, ErrorEvent, Exited,
     InitTimeout, CallDeadline, Fail, RestartTimer, Execute, Refuse, CloseCalled,
     CloseTerminates, CloseReturns, slotVars
<1>3. QED BY <1>1, <1>2 DEF NoneLate, Late

\* A failure of worker v, in a step that changes no other thread.
LEMMA FailReplaces ==
  ASSUME IInv, ReplacedInv, NoneLate, NEW v \in Workers, NEW replaces \in BOOLEAN,
         Fail(v, replaces), thread[v] # "none",
         \/ thread' = thread /\ ~replaces
         \/ thread' = [thread EXCEPT ![v] = "exited"] /\ replaces /\ thread[v] = "down"
  PROVE  Replacements' /\ (closed' => \A i \in Slots : timers'[i] = 0)
<1> DEFINE h == home[v]
           n == IF Retries(v) \/ (replaces /\ Replaces(v)) THEN 1 ELSE 0
<1>1. /\ h \in Slots /\ v \in terminated' /\ terminated \subseteq terminated'
      /\ slots' = slots /\ home' = home /\ initialized' = initialized
      /\ timers \in [Slots -> Nat]
      /\ startup' = IF Rejects(v) THEN [startup EXCEPT ![v] = "rejected"] ELSE startup
  BY DEF Fail, IInv, TypeOK
<1>2. \A w \in Workers : thread'[w] # "none" => thread[w] # "none"
  BY DEF IInv, TypeOK
<1>3. Replacements
  BY DEF ReplacedInv
<1>4. \A w \in Workers : Gone(w) => Gone(w)'
  BY <1>1 DEF Gone, IInv, TypeOK
<1>5. \A w \in Workers : thread'[w] # "none" /\ w \notin terminated' => slots'[home'[w]] = w
  BY <1>1, <1>2, <1>3 DEF Replacements
<1>6. \/ phase' = phase /\ Respawn(h, n)
      \/ phase' = "closing" /\ phase = "starting" /\ timers' = [i \in Slots |-> 0]
  BY DEF Fail
<1>7. phase' \in {"terminating", "closed"} =>
        \A w \in Workers : thread'[w] # "none" => w \in terminated'
  BY <1>1, <1>2, <1>3, <1>6 DEF Replacements
<1>8. ASSUME n = 1, ~closed
      PROVE  timers[h] = 0 /\ slots[h] = v /\ Gone(v)'
  <2>1. CASE Retries(v)
    <3>1. startup[v] = "pending" /\ startup'[v] = "rejected"
      BY <1>1, <2>1 DEF Retries, Rejects, IInv, TypeOK
    <3>2. v \notin terminated /\ ~Gone(v)
      BY <3>1 DEF IInv, Protocol, WorkerOK, Gone
    <3>3. slots[h] = v
      BY <1>3, <3>2 DEF Replacements
    <3>4. timers[h] = 0
      BY <1>1, <1>3, <3>2, <3>3 DEF Replacements
    <3>5. QED BY <3>1, <3>3, <3>4 DEF Gone
  <2>2. CASE replaces /\ Replaces(v)
    <3>1. slots[h] = v /\ v \in initialized /\ thread[v] = "down" /\ thread'[v] = "exited"
      BY <2>2 DEF Replaces, IInv, TypeOK
    <3>2. ~Gone(v)
      BY <3>1 DEF Gone, NoneLate, Late
    <3>3. timers[h] = 0
      BY <1>1, <1>3, <3>1, <3>2 DEF Replacements
    <3>4. QED BY <3>1, <3>3 DEF Gone
  <2>3. QED BY <1>8, <2>1, <2>2
<1>9. ASSUME NEW i \in Slots
      PROVE  timers'[i] <= 1 /\ (timers'[i] = 1 => Gone(slots[i])')
  <2>0. slots[i] \in Workers /\ slots'[i] = slots[i]
    BY <1>1 DEF IInv, TypeOK
  <2>1. CASE timers'[i] = timers[i]
    BY <1>3, <1>4, <2>0, <2>1 DEF Replacements
  <2>2. CASE timers' = [j \in Slots |-> 0]
    BY <2>2
  <2>3. CASE ~closed /\ n = 1 /\ timers' = [timers EXCEPT ![h] = @ + 1] /\ i = h
    BY <1>1, <1>8, <2>0, <2>3
  <2>4. timers' = timers \/ timers' = [j \in Slots |-> 0]
          \/ (~closed /\ n = 1 /\ timers' = [timers EXCEPT ![h] = @ + 1])
    BY <1>6 DEF Respawn
  <2>5. QED BY <1>1, <2>1, <2>2, <2>3, <2>4
<1>10. closed' => \A i \in Slots : timers'[i] = 0
  BY <1>6 DEF Respawn, closed, ReplacedInv
<1>11. QED BY <1>1, <1>5, <1>7, <1>9, <1>10 DEF Replacements

LEMMA ReplacedInit == Init => ReplacedInv
<1> SUFFICES ASSUME Init PROVE ReplacedInv
  OBVIOUS
<1>1. Slots \subseteq Workers
  BY SlotsAreWorkers
<1>2. \A w \in Workers : thread[w] # "none" => w \in Slots /\ slots[home[w]] = w
  BY <1>1 DEF Init
<1>3. QED BY <1>2 DEF Init, ReplacedInv, Replacements, closed

\* A step that starts no thread, leaves the slots, the startups and the timers
\* and takes back no order to terminate.
LEMMA QuietKeeps ==
  ASSUME IInv, ReplacedInv, UNCHANGED <<slots, home, timers>>, phase' = phase,
         \A w \in Workers : /\ thread'[w] # "none" => thread[w] # "none"
                            /\ thread'[w] = "exited" <=> thread[w] = "exited"
                            /\ startup[w] = "rejected" => startup'[w] = "rejected",
         terminated \subseteq terminated', NoneLate' => NoneLate
  PROVE  ReplacedInv'
<1>1. \A i \in Slots : slots[i] \in Workers /\ timers'[i] = timers[i] /\ slots'[i] = slots[i]
  BY DEF IInv, TypeOK
<1>2. closed' = closed
  BY DEF closed
<1>3. NoneLate' => Replacements'
  BY <1>1 DEF ReplacedInv, Replacements, Gone
<1>4. QED BY <1>1, <1>2, <1>3 DEF ReplacedInv

LEMMA ReplacedStep == IInv /\ ReplacedInv /\ [Next]_vars => ReplacedInv'
<1> SUFFICES ASSUME IInv, ReplacedInv, [Next]_vars PROVE ReplacedInv'
  OBVIOUS
<1>1. CASE UNCHANGED vars
  BY <1>1 DEF vars, poolVars, threadVars, slotVars, ReplacedInv, Replacements, NoneLate,
     Late, Gone, closed
<1>2. ASSUME Next  PROVE ReplacedInv'
  <2>1. /\ NoneLate' => NoneLate
        /\ \A w \in Workers : startup[w] = "rejected" => startup'[w] = "rejected"
    BY <1>2, LateKept
  <2>2. ASSUME NEW w \in Workers,
               \/ PostStartup(w) \/ PostAnswer(w) \/ Stop(w) \/ DeliverStale(w)
               \/ DeliverAnswer(w) \/ DeliverRetire(w) \/ CallDeadline(w)
        PROVE  ReplacedInv'
    <3>1. UNCHANGED <<slots, home, timers, phase>> /\ terminated \subseteq terminated'
      BY <2>2 DEF PostStartup, PostAnswer, Post, Stop, DeliverStale, DeliverAnswer,
         DeliverRetire, CallDeadline, Delivered, poolVars
    <3>2. \A v \in Workers : /\ thread'[v] # "none" => thread[v] # "none"
                             /\ thread'[v] = "exited" <=> thread[v] = "exited"
      BY <2>2 DEF PostStartup, PostAnswer, Post, Stop, DeliverStale, DeliverAnswer,
         DeliverRetire, CallDeadline, Delivered, IInv, TypeOK
    <3>3. QED BY <2>1, <3>1, <3>2, QuietKeeps
  <2>3. ASSUME NEW c \in Calls, Execute(c) \/ Refuse(c)  PROVE ReplacedInv'
    <3>1. UNCHANGED <<slots, home, timers, phase, thread, terminated>>
      BY <2>3 DEF Execute, Refuse, poolVars, threadVars
    <3>2. QED BY <2>1, <3>1, QuietKeeps
  <2>4. ASSUME NEW w \in Workers, DeliverReady(w)  PROVE ReplacedInv'
    <3>1. /\ UNCHANGED <<slots, home, timers, thread, terminated>>
          /\ phase' = phase \/ (phase = "starting" /\ phase' = "open")
      BY <2>4 DEF DeliverReady, Delivered
    <3>2. \A i \in Slots : slots[i] \in Workers
      BY DEF IInv, TypeOK
    <3>3. NoneLate' => Replacements'
      BY <2>1, <3>1, <3>2 DEF ReplacedInv, Replacements, Gone
    <3>4. closed' => \A i \in Slots : timers'[i] = 0
      BY <3>1 DEF ReplacedInv, closed
    <3>5. QED BY <3>1, <3>3, <3>4 DEF ReplacedInv
  <2>5. ASSUME NEW w \in Workers,
               \/ InitTimeout(w) \/ ErrorEvent(w) \/ Exited(w) \/ DeliverStartupError(w)
        PROVE  ReplacedInv'
    <3>1. PICK replaces \in BOOLEAN :
            /\ Fail(w, replaces)
            /\ \/ thread' = thread /\ ~replaces
               \/ thread' = [thread EXCEPT ![w] = "exited"] /\ replaces /\ thread[w] = "down"
      BY <2>5 DEF InitTimeout, ErrorEvent, Exited, DeliverStartupError, Delivered
    <3>2. thread[w] # "none"
      BY <2>5 DEF InitTimeout, ErrorEvent, Exited, DeliverStartupError, Starting, IInv,
         Protocol, WorkerOK
    <3>3. \A v \in Workers : thread'[v] = "exited" => v \in terminated'
      BY <3>1 DEF Fail, ReplacedInv, IInv, TypeOK
    <3>4. closed' => \A i \in Slots : timers'[i] = 0
      BY <3>1 DEF Fail, Respawn, closed, ReplacedInv
    <3>5. NoneLate' => Replacements'
      BY <2>1, <3>1, <3>2, FailReplaces
    <3>6. QED BY <3>3, <3>4, <3>5 DEF ReplacedInv
  <2>6. ASSUME NEW i \in Slots, NEW w \in Workers, RestartTimer(i, w)  PROVE ReplacedInv'
    <3>1. /\ timers[i] > 0 /\ timers' = [timers EXCEPT ![i] = @ - 1]
          /\ thread[w] = "none" /\ slots' = [slots EXCEPT ![i] = w]
          /\ home' = [home EXCEPT ![w] = i] /\ thread' = [thread EXCEPT ![w] = "evaluating"]
          /\ startup' = [startup EXCEPT ![w] = "pending"]
          /\ UNCHANGED <<phase, terminated>>
      BY <2>6 DEF RestartTimer, Spawn
    <3>2. /\ timers \in [Slots -> Nat] /\ slots \in [Slots -> Workers]
          /\ home \in [Workers -> Slots] /\ thread \in [Workers -> Thread]
          /\ startup \in [Workers -> {"none", "pending", "resolved", "rejected"}]
      BY DEF IInv, TypeOK
    <3>3. ~closed
      BY <3>1 DEF ReplacedInv
    <3>4. ASSUME NoneLate  PROVE Replacements'
      <4>1. Replacements /\ timers[i] = 1 /\ Gone(slots[i])
        BY <3>1, <3>2, <3>4 DEF ReplacedInv, Replacements
      <4>2. slots[i] \in terminated /\ slots[i] # w
        BY <3>1, <3>2, <4>1 DEF Gone, ReplacedInv, IInv, Protocol, WorkerOK
      <4>3. ASSUME NEW v \in Workers, thread'[v] # "none", v \notin terminated'
            PROVE  slots'[home'[v]] = v
        <5>1. CASE v = w
          BY <3>1, <3>2, <5>1
        <5>2. CASE v # w
          <6>1. thread[v] # "none" /\ slots[home[v]] = v /\ home'[v] = home[v]
            BY <3>1, <3>2, <4>1, <4>3, <5>2 DEF Replacements
          <6>2. home[v] # i
            BY <3>1, <4>2, <4>3, <6>1
          <6>3. QED BY <3>1, <3>2, <6>1, <6>2
        <5>3. QED BY <5>1, <5>2
      <4>4. ASSUME NEW j \in Slots
            PROVE  timers'[j] <= 1 /\ (timers'[j] = 1 => Gone(slots[j])')
        <5>1. CASE j = i
          BY <3>1, <3>2, <4>1, <5>1
        <5>2. CASE j # i
          <6>1. timers'[j] = timers[j] /\ slots'[j] = slots[j] /\ slots[j] \in Workers
            BY <3>1, <3>2, <5>2
          <6>2. timers[j] = 1 => slots[j] # w
            BY <3>1, <4>1 DEF Replacements, Gone, IInv, Protocol, WorkerOK
          <6>3. QED BY <3>1, <3>2, <4>1, <6>1, <6>2 DEF Replacements, Gone
        <5>3. QED BY <5>1, <5>2
      <4>5. phase' \notin {"terminating", "closed"}
        BY <3>1, <3>3 DEF closed
      <4>6. QED BY <4>3, <4>4, <4>5 DEF Replacements
    <3>5. closed' = closed
      BY <3>1 DEF closed
    <3>6. \A v \in Workers : thread'[v] = "exited" => v \in terminated'
      BY <3>1, <3>2 DEF ReplacedInv
    <3>7. QED BY <2>1, <3>3, <3>4, <3>5, <3>6 DEF ReplacedInv
  <2>7. ASSUME CloseCalled  PROVE ReplacedInv'
    <3>1. /\ phase' = "closing" /\ timers' = [i \in Slots |-> 0]
          /\ UNCHANGED <<slots, home, thread, terminated>>
      BY <2>7 DEF CloseCalled, threadVars
    <3>2. QED BY <2>1, <3>1 DEF ReplacedInv, Replacements
  <2>8. ASSUME CloseTerminates  PROVE ReplacedInv'
    <3>1. /\ phase = "closing" /\ phase' = "terminating"
          /\ terminated' = terminated \cup InSlots
          /\ UNCHANGED <<slots, home, timers, thread, startup>>
      BY <2>8 DEF CloseTerminates, slotVars
    <3>2. \A w \in Workers : home[w] \in Slots
      BY DEF IInv, TypeOK
    <3>3. NoneLate =>
            \A w \in Workers : thread[w] # "none" => w \in terminated'
      BY <3>1, <3>2 DEF ReplacedInv, Replacements, InSlots
    <3>4. closed
      BY <3>1 DEF closed
    <3>5. QED BY <2>1, <3>1, <3>3, <3>4 DEF ReplacedInv, Replacements
  <2>9. ASSUME CloseReturns  PROVE ReplacedInv'
    <3>1. /\ phase = "terminating" /\ phase' = "closed"
          /\ UNCHANGED <<slots, home, timers, thread, terminated, startup>>
      BY <2>9 DEF CloseReturns, threadVars, slotVars
    <3>2. closed
      BY <3>1 DEF closed
    <3>3. QED BY <2>1, <3>1, <3>2 DEF ReplacedInv, Replacements, Gone
  <2>10. QED
    BY <1>2, <2>2, <2>3, <2>4, <2>5, <2>6, <2>7, <2>8, <2>9 DEF Next, Deliver, Timers, Closes
<1>3. QED BY <1>1, <1>2

\* What the comment in close() promises holds unless some 'ready' was delivered
\* after the init timeout of its worker: a late start is the only way a thread
\* outlives close().
THEOREM OnlyLateWorkersLeft == Spec => [](NoneLate => NoWorkerLeft)
<1>1. IInv /\ ReplacedInv => (NoneLate => NoWorkerLeft)
  BY DEF ReplacedInv, Replacements, NoWorkerLeft
<1>2. QED BY PoolInit, PoolStep, ReplacedInit, ReplacedStep, <1>1, PTL DEF Spec
=============================================================================
