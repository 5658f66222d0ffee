-------------------------- MODULE StreamHostProofs --------------------------
(***************************************************************************)
(* Proofs about StreamHost, for any streams, limits and chunk sizes.  Loop *)
(* says how the producer, the bytes written and the response go together   *)
(* at each point of run(); it makes the safety properties inductive.       *)
(***************************************************************************)
EXTENDS StreamHost, FiniteSetTheorems, TLAPS

LoopOK(q) ==
  /\ run[q] = "none" =>
       /\ reason[q] = "none" /\ response[q] = "none" /\ bytes[q] = 0
       /\ started[q] = "waiting" /\ producer[q] = "idle" /\ produced[q] = 0
  /\ run[q] = "pull" /\ reason[q] = "none" =>
       produced[q] = bytes[q] /\ producer[q] = "working"
  /\ run[q] = "drain" => produced[q] = bytes[q] /\ producer[q] = "idle"
  /\ run[q] = "step" =>
       /\ produced[q] = bytes[q] + step[q].size /\ producer[q] # "working"
       /\ step[q].kind = "done" => producer[q] = "done" /\ step[q].size = 0
       /\ step[q].kind # "none"
       /\ step[q].kind = "chunk" => producer[q] = "idle"
  /\ Running(q) =>
       /\ response[q] \in {"none", "head"}
       /\ response[q] = "none" => bytes[q] = 0 /\ started[q] = "waiting"
       /\ response[q] = "head" => started[q] = "resolved"
       /\ reason[q] # "none" => reason[q] # "complete" /\ q \in aborted
  /\ response[q] = "complete" => producer[q] \in {"done", "idle"}

Loop == \A q \in Streams : LoopOK(q)

IInv == TypeOK /\ Loop /\ HonestEnding /\ ProducerStopped /\ SlotsExact

\* A set that changes by one stream stays finite.
LEMMA OpenFinite ==
  ASSUME TypeOK, NEW q \in Streams
  PROVE  /\ IsFiniteSet(open) /\ Cardinality(open) \in Nat
         /\ Cardinality(open \ {q}) <= Cardinality(open)
         /\ Cardinality(open \cup {q}) <= Cardinality(open) + 1
<1>1. IsFiniteSet(open)
  BY StreamsAssumption, FS_Subset DEF TypeOK
<1>2. Cardinality(open) \in Nat
  BY <1>1, FS_CardinalityType
<1>3. Cardinality(open \ {q}) <= Cardinality(open)
  BY <1>1, <1>2, FS_RemoveElement
<1>4. Cardinality(open \cup {q}) <= Cardinality(open) + 1
  <2>1. q \in open => open \cup {q} = open
    OBVIOUS
  <2>2. q \notin open => Cardinality(open \cup {q}) = Cardinality(open) + 1
    BY <1>1, FS_AddElement
  <2>3. CASE q \in open
    <3>1. Cardinality(open \cup {q}) = Cardinality(open)
      BY <2>1, <2>3
    <3>2. QED BY <1>2, <3>1
  <2>4. CASE q \notin open
    BY <1>2, <2>2, <2>4
  <2>5. QED BY <2>3, <2>4
<1>5. QED BY <1>1, <1>2, <1>3, <1>4

-----------------------------------------------------------------------------
(* One lemma per kind of step                                               *)

\* start(), with or without a stream.
LEMMA StartStep == ASSUME IInv, NEW q \in Streams, Start(q)  PROVE IInv'
<1> USE DEF IInv, Unpulled, clientVars
<1>1. TypeOK'
  BY DEF Start, StartInvalid, StartBodyless, StartRefused, StartGone, StartStream,
         TypeOK, Reason, Response
<1>2. CASE StartInvalid(q) \/ StartBodyless(q) \/ StartRefused(q) \/ StartGone(q)
  <2> USE <1>2 DEF StartInvalid, StartBodyless, StartRefused, StartGone, TypeOK
  <2>1. Loop'
    BY DEF Loop, LoopOK, Running
  <2>2. HonestEnding'
    BY DEF Loop, LoopOK, HonestEnding
  <2>3. ProducerStopped'
    BY DEF Loop, LoopOK, ProducerStopped
  <2>4. SlotsExact'
    BY DEF SlotsExact, Running
  <2>5. QED BY <1>1, <2>1, <2>2, <2>3, <2>4
<1>3. CASE StartStream(q)
  <2> USE <1>3 DEF StartStream
  <2>1. Loop'
    BY DEF Loop, LoopOK, Running, TypeOK
  <2>2. HonestEnding' /\ ProducerStopped'
    BY DEF HonestEnding, ProducerStopped, TypeOK
  <2>3. open' = {x \in Streams : Running(x)'}
    BY DEF SlotsExact, Running, TypeOK
  <2>4. Cardinality(open') <= MaxStreams
    <3>1. open' = open \cup {q} /\ ~(Cardinality(open) >= MaxStreams)
      BY DEF AtCapacity
    <3>2. Cardinality(open) \in Nat /\ Cardinality(open \cup {q}) <= Cardinality(open) + 1
      BY OpenFinite
    <3>3. Cardinality(open') \in Nat
      <4>1. open' \in SUBSET Streams
        BY <1>1 DEF TypeOK
      <4>2. QED BY <4>1, StreamsAssumption, FS_Subset, FS_CardinalityType
    <3>4. QED BY <3>1, <3>2, <3>3, StreamLimitsAssumption
  <2>5. QED BY <1>1, <2>1, <2>2, <2>3, <2>4 DEF SlotsExact
<1>4. QED BY <1>2, <1>3 DEF Start

\* stop(), from a timer, the client or the shutdown.
LEMMA StopStep ==
  ASSUME IInv, \/ \E q \in Streams : IdleTimeout(q) \/ MaxDuration(q) \/ ClientCloses(q)
               \/ EndAll
  PROVE  IInv'
<1> USE DEF IInv, producerVars
<1>1. /\ UNCHANGED <<run, step, bytes, response, started, open, producerVars>>
      /\ aborted \subseteq aborted' /\ aborted' \subseteq Streams
      /\ gone' \subseteq Streams
      /\ reason' \in [Streams -> Reason]
      /\ \A x \in Streams :
           \/ reason'[x] = reason[x]
           \/ /\ x \in open /\ x \in aborted' /\ reason[x] = "none"
              /\ reason'[x] \notin {"none", "complete"}
  BY DEF IdleTimeout, MaxDuration, ClientCloses, EndAll, StopFirst, TypeOK, Reason
<1>2. TypeOK'
  BY <1>1 DEF TypeOK
<1>3. Loop'
  BY <1>1 DEF Loop, LoopOK, Running, SlotsExact
<1>4. HonestEnding' /\ ProducerStopped' /\ SlotsExact'
  BY <1>1 DEF HonestEnding, ProducerStopped, SlotsExact, Running
<1>5. QED BY <1>2, <1>3, <1>4

\* next() settles.
LEMMA SettleStep == ASSUME IInv, NEW q \in Streams, Settle(q)  PROVE IInv'
<1> USE DEF IInv, Settle, clientVars
<1>1. PICK s \in Step \ {Other("none")} :
        /\ producer' = [producer EXCEPT ![q] =
             CASE s.kind = "done" -> "done"
               [] s.kind = "error" -> "threw"
               [] OTHER -> "idle"]
        /\ produced' = [produced EXCEPT ![q] = @ + s.size]
        /\ IF run[q] = "pull" /\ reason[q] = "none"
           THEN /\ run' = [run EXCEPT ![q] = "step"]
                /\ step' = [step EXCEPT ![q] = s]
           ELSE UNCHANGED <<run, step>>
  OBVIOUS
<1>2. /\ s.size \in Nat /\ s.kind \in {"chunk", "bad", "done", "error"}
      /\ s.kind = "done" => s.size = 0
  BY SizesAssumption DEF Step, Chunk, Other
<1>3. TypeOK'
  BY <1>1, <1>2 DEF TypeOK
<1>4. Loop'
  BY <1>1, <1>2 DEF Loop, LoopOK, Running, TypeOK
<1>5. HonestEnding'
  BY <1>1 DEF HonestEnding, Loop, LoopOK, TypeOK
<1>6. ProducerStopped' /\ SlotsExact'
  BY <1>1 DEF ProducerStopped, SlotsExact, Running, TypeOK
<1>7. QED BY <1>3, <1>4, <1>5, <1>6

\* The loop is left.
LEMMA EndStep ==
  ASSUME IInv, NEW q \in Streams, NEW why \in Reason \ {"none"}, Running(q),
         End(q, why),
         why = "complete" => producer[q] = "done" /\ produced[q] = bytes[q]
  PROVE  IInv'
<1> USE DEF IInv, End, EndsWith, Committed, Cancels, LeaveFreed
<1>1. TypeOK'
  BY DEF TypeOK, Response, Step, Other
<1>2. Loop'
  BY DEF Loop, LoopOK, Running, TypeOK, Reason
<1>3. HonestEnding'
  BY DEF HonestEnding, Loop, LoopOK, TypeOK
<1>4. ProducerStopped'
  BY DEF ProducerStopped, TypeOK
<1>5. open' = {x \in Streams : Running(x)'}
  BY DEF SlotsExact, Running, TypeOK
<1>6. Cardinality(open') <= MaxStreams
  <2>1. open' \in SUBSET Streams /\ IsFiniteSet(open')
    BY StreamsAssumption, FS_Subset DEF TypeOK
  <2>2. Cardinality(open') \in Nat
    BY <2>1, FS_CardinalityType
  <2>3. QED BY <2>2, OpenFinite, StreamLimitsAssumption DEF SlotsExact
<1>7. QED BY <1>1, <1>2, <1>3, <1>4, <1>5, <1>6 DEF SlotsExact

\* A chunk is written, or the client drained the last one.
LEMMA WriteStep ==
  ASSUME IInv, NEW q \in Streams, ResumeWrites(q) \/ Drain(q)
  PROVE  IInv'
<1> USE DEF IInv, Pull, clientVars
<1>1. CASE ResumeWrites(q)
  <2>1. TypeOK'
    <3>1. step[q].size \in Nat
      BY <1>1, SizesAssumption DEF ResumeWrites, TypeOK, Step, Chunk
    <3>2. bytes' \in [Streams -> 0..MaxBytes]
      BY <1>1, <3>1, StreamLimitsAssumption DEF ResumeWrites, TypeOK, Fits
    <3>3. step' \in [Streams -> Step]
      BY <1>1 DEF ResumeWrites, TypeOK, Step, Other
    <3>4. QED BY <1>1, <3>2, <3>3 DEF ResumeWrites, TypeOK, Response
  <2>2. Loop'
    <3>1. \A x \in Streams \ {q} : LoopOK(x)'
      BY <1>1 DEF ResumeWrites, Loop, LoopOK, Running, TypeOK
    <3>2. LoopOK(q)'
      <4>1. producer[q] \in {"idle", "threw", "done"} /\ reason[q] = "none"
        BY <1>1 DEF ResumeWrites, Loop, LoopOK, TypeOK, StoppedFirst
      <4>2. bytes'[q] = produced[q] /\ produced' = produced
        BY <1>1 DEF ResumeWrites, Loop, LoopOK, TypeOK
      <4>3. run'[q] = "drain" => producer'[q] = "idle"
        BY <1>1 DEF ResumeWrites, TypeOK, Loop, LoopOK
      <4>4. QED BY <1>1, <4>1, <4>2, <4>3 DEF ResumeWrites, LoopOK, Running, TypeOK
    <3>3. QED BY <3>1, <3>2 DEF Loop
  <2>3. HonestEnding' /\ ProducerStopped'
    BY <1>1 DEF ResumeWrites, HonestEnding, ProducerStopped, TypeOK
  <2>4. SlotsExact'
    BY <1>1 DEF ResumeWrites, SlotsExact, Running, TypeOK
  <2>5. QED BY <2>1, <2>2, <2>3, <2>4
<1>2. CASE Drain(q)
  <2>1. TypeOK' /\ Loop'
    BY <1>2 DEF Drain, TypeOK, Loop, LoopOK, Running
  <2>2. HonestEnding' /\ ProducerStopped' /\ SlotsExact'
    BY <1>2 DEF Drain, HonestEnding, ProducerStopped, SlotsExact, Running, TypeOK
  <2>3. QED BY <2>1, <2>2
<1>3. QED BY <1>1, <1>2

-----------------------------------------------------------------------------
(* The theorems                                                             *)

LEMMA HostInit == Init => IInv
<1> SUFFICES ASSUME Init  PROVE IInv
  OBVIOUS
<1>1. TypeOK
  BY StreamLimitsAssumption DEF Init, TypeOK, Step, Other, Reason, Response
<1>2. Loop /\ HonestEnding /\ ProducerStopped
  BY DEF Init, Loop, LoopOK, Running, HonestEnding, ProducerStopped
<1>3. SlotsExact
  BY StreamLimitsAssumption, FS_EmptySet DEF Init, SlotsExact, Running
<1>4. QED BY <1>1, <1>2, <1>3 DEF IInv

LEMMA HostStep == IInv /\ [Next]_vars => IInv'
<1> SUFFICES ASSUME IInv, [Next]_vars  PROVE IInv'
  OBVIOUS
<1>1. \A q \in Streams : reason[q] \in Reason
  BY DEF IInv, TypeOK
<1>2. ASSUME NEW q \in Streams, Woken(q) \/ ResumeStopped(q)
      PROVE  IInv'
  <2>1. Running(q) /\ reason[q] \in Reason \ {"none"} /\ reason[q] # "complete"
    BY <1>1, <1>2 DEF Woken, Waits, ResumeStopped, StoppedFirst, Running, IInv, Loop,
                      LoopOK
  <2>2. End(q, reason[q])
    BY <1>2 DEF Woken, ResumeStopped
  <2>3. QED BY <2>1, <2>2, EndStep
<1>3. ASSUME NEW q \in Streams, ResumeEnds(q)
      PROVE  IInv'
  <2>1. Running(q)
    BY <1>3 DEF ResumeEnds, Running
  <2>2. CASE step[q].kind = "done" /\ End(q, "complete")
    <3>1. producer[q] = "done" /\ produced[q] = bytes[q]
      BY <1>3, <2>2 DEF ResumeEnds, IInv, Loop, LoopOK, TypeOK
    <3>2. QED BY <2>1, <2>2, <3>1, EndStep DEF Reason
  <2>3. CASE End(q, "error")
    BY <2>1, <2>3, EndStep DEF Reason
  <2>4. CASE End(q, "max-bytes")
    BY <2>1, <2>4, EndStep DEF Reason
  <2>5. QED BY <1>3, <2>2, <2>3, <2>4 DEF ResumeEnds
<1>4. CASE UNCHANGED vars
  BY <1>4 DEF vars, hostVars, clientVars, producerVars, IInv, TypeOK, Loop, LoopOK,
     Running, HonestEnding, ProducerStopped, SlotsExact
<1>5. QED
  BY <1>2, <1>3, <1>4, StartStep, StopStep, SettleStep, WriteStep DEF Next, Resume

LEMMA HostInvariant == Spec => []IInv
BY HostInit, HostStep, PTL DEF Spec

\* The state keeps its type, and no stream sends more than maxBytes.
THEOREM StreamTypeCorrect == Spec => []TypeOK
BY HostInvariant, PTL DEF IInv

\* A truncated or failed stream never looks complete to its client.
THEOREM StreamsEndHonestly == Spec => []HonestEnding
BY HostInvariant, PTL DEF IInv

\* No way for a stream to end leaves its producer running.
THEOREM ProducersStop == Spec => []ProducerStopped
BY HostInvariant, PTL DEF IInv

\* The stream capacity counts exactly the streams being delivered.
THEOREM StreamSlotsExact == Spec => []SlotsExact
BY HostInvariant, PTL DEF IInv

\* The first reason for which a stream ends is the one it keeps.
THEOREM FirstReasonKept == Spec => FirstReasonWins
<1>1. IInv /\ [Next]_vars =>
        [\A q \in Streams : reason[q] # "none" => reason'[q] = reason[q]]_vars
  <2> SUFFICES ASSUME IInv, Next, NEW x \in Streams, reason[x] # "none"
               PROVE  reason'[x] = reason[x]
    BY DEF vars
  <2>1. reason \in [Streams -> Reason]
    BY DEF IInv, TypeOK
  <2>2. ASSUME NEW q \in Streams, Start(q)  PROVE reason'[x] = reason[x]
    BY <2>1, <2>2 DEF Start, StartInvalid, StartBodyless, StartRefused, StartGone,
       StartStream, IInv, Loop, LoopOK
  <2>3. ASSUME NEW q \in Streams, Woken(q) \/ Resume(q)
        PROVE  reason'[x] = reason[x]
    BY <2>1, <2>3 DEF Woken, Resume, ResumeStopped, ResumeEnds, ResumeWrites,
       StoppedFirst, End
  <2>4. QED
    BY <2>1, <2>2, <2>3 DEF Next, IdleTimeout, MaxDuration, ClientCloses, EndAll,
       StopFirst, Settle, Drain
<1>2. QED BY HostInvariant, <1>1, PTL DEF Spec, FirstReasonWins
=============================================================================
