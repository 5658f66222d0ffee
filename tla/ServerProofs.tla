---------------------------- MODULE ServerProofs ----------------------------
(***************************************************************************)
(* Proofs about Server, for any number of requests, runtimes and for any   *)
(* limits.  IInv is the inductive invariant: the type, exact counters and  *)
(* Life, which says which runtimes can be alive and who refers to them.    *)
(***************************************************************************)
EXTENDS Server, FiniteSetTheorems, TLAPS

\* Which phases go with holding the resource, with being the serving runtime,
\* with being built or retired, and what a shutdown excludes.
Life ==
  /\ holders = {r \in Runtimes : phase[r] \in
                 {"activated", "open", "closing", "waiting", "releasing"}}
  /\ openings = 1
  /\ current \notin retired /\ building # current /\ building \notin retired
  /\ \A r \in retired : Closing(r)
  /\ building # 0 => phase[building] # "none" /\ closing \notin {"last", "closed"}
  /\ IF closing \in {"last", "closed"} THEN Closing(current)
                                       ELSE phase[current] = "open"
  /\ shuttingDown <=> closing \in {"stopping", "reload", "last", "closed"}
  /\ \A r \in Runtimes : phase[r] \notin {"none", "closed"} =>
                           r \in retired \/ r = current \/ r = building
  /\ closing = "closed" => retired = {} /\ phase[current] = "closed"
  /\ \A q \in Requests :
       /\ pc[q] \in {"body", "running", "tracked", "streaming"} => on[q] # 0
       /\ on[q] # 0 => phase[on[q]] = "open" \/ Closing(on[q])

IInv == TypeOK /\ CountersExact /\ Life /\ DispatchKeepsRuntime

-----------------------------------------------------------------------------
(* Counting requests                                                        *)

\* The cardinality of a set that loses or gains one element.
LEMMA CardMove ==
  ASSUME NEW S, NEW T, NEW q, IsFiniteSet(S)
  PROVE  /\ Cardinality(S) \in Nat
         /\ (q \in S /\ T = S \ {q}) =>
              Cardinality(T) = Cardinality(S) - 1 /\ Cardinality(T) \in Nat
         /\ (q \notin S /\ T = S \cup {q}) => Cardinality(T) = Cardinality(S) + 1
<1>1. Cardinality(S) \in Nat
  BY FS_CardinalityType
<1>2. ASSUME q \in S, T = S \ {q}
      PROVE  Cardinality(T) = Cardinality(S) - 1 /\ Cardinality(T) \in Nat
  BY <1>1, <1>2, FS_RemoveElement, FS_CardinalityType
<1>3. ASSUME q \notin S, T = S \cup {q}
      PROVE  Cardinality(T) = Cardinality(S) + 1
  BY <1>3, FS_AddElement
<1>4. QED BY <1>1, <1>2, <1>3

\* What moving one request does to the dispatches close() waits for.
LEMMA DispatchCounts ==
  ASSUME TypeOK, CountsExact, NEW q \in Requests, NEW v \in Place,
         pc' = [pc EXCEPT ![q] = v], on' = on, NEW r \in Runtimes
  PROVE  /\ Cardinality(Dispatching(r)') \in Nat
         /\ (on[q] # r \/ (pc[q] = "running" <=> v = "running")) =>
              Cardinality(Dispatching(r)') = active[r]
         /\ (on[q] = r /\ pc[q] = "running" /\ v # "running") =>
              Cardinality(Dispatching(r)') = active[r] - 1
         /\ (on[q] = r /\ pc[q] # "running" /\ v = "running") =>
              Cardinality(Dispatching(r)') = active[r] + 1
<1>1. IsFiniteSet(Dispatching(r)) /\ active[r] = Cardinality(Dispatching(r))
  BY RequestsAssumption, FS_Subset DEF Dispatching, CountsExact
<1>2. ASSUME on[q] # r \/ (pc[q] = "running" <=> v = "running")
      PROVE  Dispatching(r)' = Dispatching(r)
  BY <1>2 DEF Dispatching, TypeOK, RuntimeTypeOK
<1>3. ASSUME on[q] = r, pc[q] = "running", v # "running"
      PROVE  Dispatching(r)' = Dispatching(r) \ {q} /\ q \in Dispatching(r)
  BY <1>3 DEF Dispatching, TypeOK, RuntimeTypeOK
<1>4. ASSUME on[q] = r, pc[q] # "running", v = "running"
      PROVE  Dispatching(r)' = Dispatching(r) \cup {q} /\ q \notin Dispatching(r)
  BY <1>4 DEF Dispatching, TypeOK, RuntimeTypeOK
<1>5. QED BY <1>1, <1>2, <1>3, <1>4, CardMove

\* The same for the streams.
LEMMA StreamCounts ==
  ASSUME TypeOK, CountsExact, NEW q \in Requests, NEW v \in Place,
         pc' = [pc EXCEPT ![q] = v], on' = on, NEW r \in Runtimes
  PROVE  /\ Cardinality(Streaming(r)') \in Nat
         /\ (on[q] # r \/ (pc[q] \in {"tracked", "streaming"} <=>
                           v \in {"tracked", "streaming"})) =>
              Cardinality(Streaming(r)') = streamsOpen[r]
         /\ (on[q] = r /\ pc[q] \in {"tracked", "streaming"}
                       /\ v \notin {"tracked", "streaming"}) =>
              Cardinality(Streaming(r)') = streamsOpen[r] - 1
         /\ (on[q] = r /\ pc[q] \notin {"tracked", "streaming"}
                       /\ v \in {"tracked", "streaming"}) =>
              Cardinality(Streaming(r)') = streamsOpen[r] + 1
<1>1. IsFiniteSet(Streaming(r)) /\ streamsOpen[r] = Cardinality(Streaming(r))
  BY RequestsAssumption, FS_Subset DEF Streaming, CountsExact
<1>2. ASSUME on[q] # r \/ (pc[q] \in {"tracked", "streaming"} <=>
                           v \in {"tracked", "streaming"})
      PROVE  Streaming(r)' = Streaming(r)
  BY <1>2 DEF Streaming, TypeOK, RuntimeTypeOK
<1>3. ASSUME on[q] = r, pc[q] \in {"tracked", "streaming"},
             v \notin {"tracked", "streaming"}
      PROVE  Streaming(r)' = Streaming(r) \ {q} /\ q \in Streaming(r)
  BY <1>3 DEF Streaming, TypeOK, RuntimeTypeOK
<1>4. ASSUME on[q] = r, pc[q] \notin {"tracked", "streaming"},
             v \in {"tracked", "streaming"}
      PROVE  Streaming(r)' = Streaming(r) \cup {q} /\ q \notin Streaming(r)
  BY <1>4 DEF Streaming, TypeOK, RuntimeTypeOK
<1>5. QED BY <1>1, <1>2, <1>3, <1>4, CardMove

\* The same for the probes in flight.
LEMMA ProbeCounts ==
  ASSUME TypeOK, AdmissionExact, NEW q \in Requests, NEW v \in Place,
         pc' = [pc EXCEPT ![q] = v]
  PROVE  /\ Cardinality(Probing') \in Nat
         /\ (pc[q] = "probe" <=> v = "probe") =>
              Cardinality(Probing') = healthInFlight
         /\ (pc[q] = "probe" /\ v # "probe") =>
              Cardinality(Probing') = healthInFlight - 1
         /\ (pc[q] # "probe" /\ v = "probe") =>
              Cardinality(Probing') = healthInFlight + 1
<1>1. IsFiniteSet(Probing) /\ healthInFlight = Cardinality(Probing)
  BY RequestsAssumption, FS_Subset DEF Probing, AdmissionExact
<1>2. ASSUME pc[q] = "probe" <=> v = "probe"  PROVE Probing' = Probing
  BY <1>2 DEF Probing, TypeOK, RuntimeTypeOK
<1>3. ASSUME pc[q] = "probe", v # "probe"
      PROVE  Probing' = Probing \ {q} /\ q \in Probing
  BY <1>3 DEF Probing, TypeOK, RuntimeTypeOK
<1>4. ASSUME pc[q] # "probe", v = "probe"
      PROVE  Probing' = Probing \cup {q} /\ q \notin Probing
  BY <1>4 DEF Probing, TypeOK, RuntimeTypeOK
<1>5. QED BY <1>1, <1>2, <1>3, <1>4, CardMove

\* release() keeps the admission counter exact.
LEMMA SlotReleased ==
  ASSUME TypeOK, AdmissionExact, NEW q \in Requests, ReleaseSlot(q)
  PROVE  /\ inFlight' = Cardinality(admitted') /\ inFlight' \in 0..MaxInFlight
         /\ admitted' = admitted \ {q}
<1>1. IsFiniteSet(admitted) /\ Cardinality(admitted) \in Nat
  BY RequestsAssumption, FS_Subset, FS_CardinalityType DEF TypeOK
<1>2. Cardinality(admitted \ {q}) =
        IF q \in admitted THEN Cardinality(admitted) - 1 ELSE Cardinality(admitted)
  BY <1>1, FS_RemoveElement
<1>3. Cardinality(admitted \ {q}) \in Nat
  BY <1>1, FS_RemoveElement, FS_CardinalityType
<1>4. QED BY <1>1, <1>2, <1>3, LimitsAssumption
          DEF ReleaseSlot, AdmissionExact, TypeOK

-----------------------------------------------------------------------------
(* The counters of the runtimes                                             *)

Counted ==
  CountsExact /\ active \in [Runtimes -> Nat] /\ streamsOpen \in [Runtimes -> Nat]

\* A step that moves no request into or out of a dispatch or a stream.
LEMMA QuietMove ==
  ASSUME TypeOK, CountsExact, NEW q \in Requests, NEW v \in Place,
         pc' = [pc EXCEPT ![q] = v], on' = on,
         pc[q] = "running" <=> v = "running",
         pc[q] \in {"tracked", "streaming"} <=> v \in {"tracked", "streaming"},
         UNCHANGED <<active, streamsOpen>>
  PROVE  Counted'
<1>1. ASSUME NEW r \in Runtimes
      PROVE  /\ active'[r] = Cardinality(Dispatching(r)')
             /\ streamsOpen'[r] = Cardinality(Streaming(r)')
  BY DispatchCounts, StreamCounts
<1>2. QED BY <1>1 DEF Counted, CountsExact, TypeOK, RuntimeTypeOK

LEMMA CountedStep == IInv /\ [Next]_vars => Counted'
<1> SUFFICES ASSUME IInv, [Next]_vars  PROVE Counted'
  OBVIOUS
<1> USE DEF IInv, CountersExact
<1>1. ASSUME UNCHANGED <<pc, on, active, streamsOpen>>  PROVE Counted'
  BY <1>1 DEF Counted, CountsExact, Dispatching, Streaming, TypeOK, RuntimeTypeOK
<1>2. ASSUME NEW q \in Requests, NEW a, AnswerAtOnce(q, a), pc[q] = "new"
      PROVE  Counted'
  BY <1>2, QuietMove DEF AnswerAtOnce, lifeVars, Place
<1>3. ASSUME NEW q \in Requests, ArriveAdmitted(q)  PROVE Counted'
  <2>1. /\ pc' = [pc EXCEPT ![q] = "body"] /\ pc[q] = "new"
        /\ on' = [on EXCEPT ![q] = current]
        /\ UNCHANGED <<active, streamsOpen>>
    BY <1>3 DEF ArriveAdmitted, lifeVars
  <2>2. ASSUME NEW r \in Runtimes
        PROVE  Dispatching(r)' = Dispatching(r) /\ Streaming(r)' = Streaming(r)
    BY <2>1 DEF Dispatching, Streaming, TypeOK, RuntimeTypeOK
  <2>3. QED BY <2>1, <2>2 DEF Counted, CountsExact, TypeOK, RuntimeTypeOK
<1>4. ASSUME NEW q \in Requests, ArriveProbe(q)  PROVE Counted'
  BY <1>4, QuietMove DEF ArriveProbe, lifeVars, Place
<1>5. ASSUME NEW q \in Requests, Dispatch(q)  PROVE Counted'
  <2>1. /\ pc' = [pc EXCEPT ![q] = "running"] /\ pc[q] = "body" /\ on' = on
        /\ active' = [active EXCEPT ![on[q]] = @ + 1] /\ streamsOpen' = streamsOpen
    BY <1>5 DEF Dispatch
  <2>2. ASSUME NEW r \in Runtimes
        PROVE  /\ active'[r] = Cardinality(Dispatching(r)') /\ active'[r] \in Nat
               /\ streamsOpen'[r] = Cardinality(Streaming(r)')
    <3>1. /\ Cardinality(Dispatching(r)') \in Nat
          /\ Cardinality(Dispatching(r)') = IF on[q] = r THEN active[r] + 1 ELSE active[r]
      <4>1. "running" \in Place
        BY DEF Place
      <4>2. QED BY <2>1, <4>1, DispatchCounts
    <3>2. /\ Cardinality(Streaming(r)') \in Nat
          /\ Cardinality(Streaming(r)') = streamsOpen[r]
      <4>1. /\ "running" \in Place
            /\ pc[q] \in {"tracked", "streaming"} <=>
                 "running" \in {"tracked", "streaming"}
        BY <2>1 DEF Place
      <4>2. QED BY <2>1, <4>1, StreamCounts DEF CountsExact
    <3>3. QED BY <2>1, <3>1, <3>2 DEF TypeOK, RuntimeTypeOK
  <2>3. QED BY <2>1, <2>2 DEF Counted, CountsExact, TypeOK, RuntimeTypeOK
<1>6. ASSUME NEW q \in Requests, DispatchRefused(q) \/ BodyRefused(q)
      PROVE  Counted'
  BY <1>6, QuietMove DEF DispatchRefused, BodyRefused, lifeVars, Place
<1>7. ASSUME NEW q \in Requests, ReturnBuffered(q)  PROVE Counted'
  <2>1. /\ pc' = [pc EXCEPT ![q] = "answered"] /\ pc[q] = "running" /\ on' = on
        /\ active' = [active EXCEPT ![on[q]] = active[on[q]] - 1]
        /\ streamsOpen' = [streamsOpen EXCEPT ![on[q]] = streamsOpen[on[q]]]
    BY <1>7 DEF ReturnBuffered, Leave
  <2>2. ASSUME NEW r \in Runtimes
        PROVE  /\ active'[r] = Cardinality(Dispatching(r)') /\ active'[r] \in Nat
               /\ streamsOpen'[r] = Cardinality(Streaming(r)')
    <3>1. /\ Cardinality(Dispatching(r)') \in Nat
          /\ Cardinality(Dispatching(r)') = IF on[q] = r THEN active[r] - 1 ELSE active[r]
      <4>1. "answered" \in Place
        BY DEF Place
      <4>2. QED BY <2>1, <4>1, DispatchCounts
    <3>2. /\ Cardinality(Streaming(r)') \in Nat
          /\ Cardinality(Streaming(r)') = streamsOpen[r]
      <4>1. /\ "answered" \in Place
            /\ pc[q] \in {"tracked", "streaming"} <=>
                 "answered" \in {"tracked", "streaming"}
        BY <2>1 DEF Place
      <4>2. QED BY <2>1, <4>1, StreamCounts DEF CountsExact
    <3>3. QED BY <2>1, <3>1, <3>2 DEF TypeOK, RuntimeTypeOK
  <2>3. QED BY <2>1, <2>2 DEF Counted, CountsExact, TypeOK, RuntimeTypeOK
<1>8. ASSUME NEW q \in Requests, ReturnStream(q)  PROVE Counted'
  <2>1. /\ pc' = [pc EXCEPT ![q] = "tracked"] /\ pc[q] = "running" /\ on' = on
        /\ active' = [active EXCEPT ![on[q]] = @ - 1]
        /\ streamsOpen' = [streamsOpen EXCEPT ![on[q]] = @ + 1]
    BY <1>8 DEF ReturnStream
  <2>2. ASSUME NEW r \in Runtimes
        PROVE  /\ active'[r] = Cardinality(Dispatching(r)') /\ active'[r] \in Nat
               /\ streamsOpen'[r] = Cardinality(Streaming(r)')
               /\ streamsOpen'[r] \in Nat
    <3>1. /\ Cardinality(Dispatching(r)') \in Nat
          /\ Cardinality(Dispatching(r)') = IF on[q] = r THEN active[r] - 1 ELSE active[r]
      <4>1. "tracked" \in Place
        BY DEF Place
      <4>2. QED BY <2>1, <4>1, DispatchCounts
    <3>2. /\ Cardinality(Streaming(r)') \in Nat
          /\ Cardinality(Streaming(r)') = IF on[q] = r THEN streamsOpen[r] + 1 ELSE streamsOpen[r]
      <4>1. /\ "tracked" \in Place /\ "tracked" \in {"tracked", "streaming"}
            /\ pc[q] \notin {"tracked", "streaming"}
        BY <2>1 DEF Place
      <4>2. QED BY <2>1, <4>1, StreamCounts DEF CountsExact
    <3>3. QED BY <2>1, <3>1, <3>2 DEF TypeOK, RuntimeTypeOK
  <2>3. QED BY <2>1, <2>2 DEF Counted, CountsExact, TypeOK, RuntimeTypeOK
<1>9. ASSUME NEW q \in Requests, NEW v \in {"answered", "done"},
             pc[q] \in {"tracked", "streaming"}, StreamOver(on[q]),
             pc' = [pc EXCEPT ![q] = v], on' = on
      PROVE  Counted'
  <2>1. /\ active' = [active EXCEPT ![on[q]] = active[on[q]]]
        /\ streamsOpen' = [streamsOpen EXCEPT ![on[q]] = streamsOpen[on[q]] - 1]
    BY <1>9 DEF StreamOver, Leave
  <2>2. ASSUME NEW r \in Runtimes
        PROVE  /\ active'[r] = Cardinality(Dispatching(r)')
               /\ streamsOpen'[r] = Cardinality(Streaming(r)')
               /\ streamsOpen'[r] \in Nat
    <3>1. /\ Cardinality(Dispatching(r)') \in Nat
          /\ Cardinality(Dispatching(r)') = active[r]
      <4>1. v \in Place /\ (pc[q] = "running" <=> v = "running")
        BY <1>9 DEF Place
      <4>2. QED BY <1>9, <4>1, DispatchCounts
    <3>2. /\ Cardinality(Streaming(r)') \in Nat
          /\ Cardinality(Streaming(r)') = IF on[q] = r THEN streamsOpen[r] - 1 ELSE streamsOpen[r]
      <4>1. v \in Place /\ v \notin {"tracked", "streaming"}
        BY <1>9 DEF Place
      <4>2. QED BY <1>9, <4>1, StreamCounts DEF CountsExact
    <3>3. QED BY <2>1, <3>1, <3>2 DEF TypeOK, RuntimeTypeOK
  <2>3. QED BY <2>1, <2>2 DEF Counted, CountsExact, TypeOK, RuntimeTypeOK
<1>10. ASSUME NEW q \in Requests, BodyAborted(q) \/ Respond(q) \/ ProbeOver(q)
       PROVE  Counted'
  BY <1>10, QuietMove DEF BodyAborted, Respond, ProbeOver, lifeVars, Place
<1>11. ASSUME NEW q \in Requests, StartStream(q)  PROVE Counted'
  BY <1>11, QuietMove DEF StartStream, lifeVars, Place
<1>12. CASE Deadline
  <2>1. /\ pc' = [q \in Requests |-> IF pc[q] = "probe" THEN "done" ELSE pc[q]]
        /\ UNCHANGED <<on, active, streamsOpen>>
    BY <1>12 DEF Deadline, lifeVars
  <2>2. ASSUME NEW r \in Runtimes
        PROVE  Dispatching(r)' = Dispatching(r) /\ Streaming(r)' = Streaming(r)
    BY <2>1 DEF Dispatching, Streaming
  <2>3. QED BY <2>1, <2>2 DEF Counted, CountsExact, TypeOK, RuntimeTypeOK
<1>13. ASSUME NEW q \in Requests, CancelStream(q) \/ EndStream(q)  PROVE Counted'
  BY <1>9, <1>13 DEF CancelStream, EndStream
<1>14. ASSUME NEW q \in Requests,
              ArriveShutting(q) \/ ArriveShed(q) \/ ArriveProbeShed(q)
       PROVE  Counted'
  BY <1>2, <1>14 DEF ArriveShutting, ArriveShed, ArriveProbeShed
<1>15. ASSUME NEW q \in Requests, Disconnect(q)  PROVE Counted'
  BY <1>1, <1>15 DEF Disconnect, lifeVars, requestVars
<1>16. ASSUME NEW r \in Runtimes, ReloadBegin(r) \/ ClosingStep(r) \/ CleanedUp(r)
       PROVE  Counted'
  BY <1>1, <1>16 DEF ReloadBegin, ClosingStep, CleanedUp, CreateBegin, CloseWait,
                     Release, lifeVars, requestVars
<1>17. CASE ReloadStep \/ ReloadRejected \/ ReloadInstall \/ ReloadDiscard
            \/ ReloadDiscarded
  BY <1>1, <1>17 DEF ReloadStep, ReloadRejected, ReloadInstall, ReloadDiscard,
     ReloadDiscarded, Offer, Activate, Built, CreateFail, CloseBegin, lifeVars,
     requestVars
<1>18. CASE CloseCalled \/ ShutDown \/ ListenerClosed \/ CloseCurrent
            \/ CloseReturns \/ UNCHANGED vars
  BY <1>1, <1>18 DEF CloseCalled, ShutDown, ListenerClosed, CloseCurrent,
     CloseReturns, CloseBegin, vars, lifeVars, requestVars
<1>19. QED
  BY <1>3, <1>4, <1>5, <1>6, <1>7, <1>8, <1>10, <1>11, <1>12, <1>13, <1>14,
     <1>15, <1>16, <1>17, <1>18
  DEF Next, Environment, Delivery, Program, BodyRead, HandlerStep, Stopped

-----------------------------------------------------------------------------
(* The counters of the server                                               *)

Slots == /\ inFlight = Cardinality(admitted) /\ inFlight \in 0..MaxInFlight
         /\ admitted \subseteq Requests
         /\ \A q \in admitted : pc[q] \in {"body", "running", "tracked", "answered"}

Probes == /\ healthInFlight = Cardinality(Probing)
          /\ healthInFlight \in 0..MaxHealth

\* A slot that is kept: its request does not move to an end.
LEMMA SlotsKept ==
  ASSUME TypeOK, AdmissionExact, NEW q \in Requests, NEW v \in Place,
         pc' = [pc EXCEPT ![q] = v], UNCHANGED <<inFlight, admitted>>,
         q \in admitted => v \in {"body", "running", "tracked", "answered"}
  PROVE  Slots'
BY DEF Slots, TypeOK, RuntimeTypeOK, AdmissionExact

LEMMA SlotsStep == IInv /\ [Next]_vars => Slots'
<1> SUFFICES ASSUME IInv, [Next]_vars  PROVE Slots'
  OBVIOUS
<1> USE DEF IInv, CountersExact
<1>1. ASSUME UNCHANGED <<pc, inFlight, admitted>>  PROVE Slots'
  BY <1>1 DEF Slots, AdmissionExact, TypeOK
<1>2. ASSUME NEW q \in Requests, NEW a, AnswerAtOnce(q, a), pc[q] = "new"
      PROVE  Slots'
  BY <1>2, SlotsKept DEF AnswerAtOnce, AdmissionExact, Place
<1>3. ASSUME NEW q \in Requests, ArriveAdmitted(q)  PROVE Slots'
  <2>1. /\ pc' = [pc EXCEPT ![q] = "body"] /\ pc[q] = "new" /\ q \notin admitted
        /\ inFlight < MaxInFlight /\ inFlight' = inFlight + 1
        /\ admitted' = admitted \cup {q} /\ inFlight = Cardinality(admitted)
    BY <1>3, LimitsAssumption
       DEF ArriveAdmitted, AdmissionExact, TypeOK, Full
  <2>2. IsFiniteSet(admitted)
    BY RequestsAssumption, FS_Subset DEF TypeOK
  <2>3. Cardinality(admitted') = Cardinality(admitted) + 1
    BY <2>1, <2>2, CardMove
  <2>4. QED BY <2>1, <2>3, LimitsAssumption
            DEF Slots, AdmissionExact, TypeOK, RuntimeTypeOK
<1>4. ASSUME NEW q \in Requests, ArriveProbe(q)  PROVE Slots'
  BY <1>4, SlotsKept DEF ArriveProbe, AdmissionExact, Place
<1>5. ASSUME NEW q \in Requests, BodyRead(q)  PROVE Slots'
  BY <1>5, SlotsKept
  DEF BodyRead, Dispatch, DispatchRefused, BodyRefused, hostVars, Place
<1>6. ASSUME NEW q \in Requests, BodyAborted(q)  PROVE Slots'
  BY <1>6, SlotsKept DEF BodyAborted, hostVars, Place
<1>7. ASSUME NEW q \in Requests, HandlerStep(q)  PROVE Slots'
  BY <1>7, SlotsKept DEF HandlerStep, ReturnBuffered, ReturnStream, hostVars, Place
<1>8. ASSUME NEW q \in Requests, ReleaseSlot(q), NEW v \in Place,
             pc' = [pc EXCEPT ![q] = v] \/ pc' = pc
      PROVE  Slots'
  BY <1>8, SlotReleased DEF Slots, AdmissionExact, TypeOK, RuntimeTypeOK
<1>9. ASSUME NEW q \in Requests,
             Respond(q) \/ Disconnect(q) \/ StartStream(q) \/ CancelStream(q)
      PROVE  Slots'
  BY <1>8, <1>9 DEF Respond, Disconnect, StartStream, CancelStream, requestVars,
                    Place
<1>10. ASSUME NEW q \in Requests, ProbeOver(q)  PROVE Slots'
  BY <1>10, SlotsKept DEF ProbeOver, AdmissionExact, Place
<1>11. ASSUME NEW q \in Requests, EndStream(q)  PROVE Slots'
  BY <1>11, SlotsKept DEF EndStream, AdmissionExact, Place
<1>12. CASE Deadline
  <2>1. IsFiniteSet(admitted) /\ inFlight = Cardinality(admitted)
    BY RequestsAssumption, FS_Subset DEF AdmissionExact, TypeOK
  <2>2. inFlight' = Cardinality(admitted') /\ inFlight' \in Nat
    BY <1>12, <2>1, FS_Difference, FS_CardinalityType DEF Deadline
  <2>3. Cardinality(admitted') <= Cardinality(admitted)
    BY <1>12, <2>1, FS_Subset DEF Deadline
  <2>4. QED BY <1>12, <2>1, <2>2, <2>3, LimitsAssumption
            DEF Deadline, Slots, AdmissionExact, TypeOK
<1>13. ASSUME NEW q \in Requests,
              ArriveShutting(q) \/ ArriveShed(q) \/ ArriveProbeShed(q)
       PROVE  Slots'
  BY <1>2, <1>13 DEF ArriveShutting, ArriveShed, ArriveProbeShed
<1>14. ASSUME NEW r \in Runtimes, ReloadBegin(r) \/ ClosingStep(r) \/ CleanedUp(r)
       PROVE  Slots'
  BY <1>1, <1>14 DEF ReloadBegin, ClosingStep, CleanedUp, CreateBegin, CloseWait,
                     Release, hostVars, requestVars
<1>15. CASE ReloadStep \/ ReloadRejected \/ ReloadInstall \/ ReloadDiscard
            \/ ReloadDiscarded
  BY <1>1, <1>15 DEF ReloadStep, ReloadRejected, ReloadInstall, ReloadDiscard,
     ReloadDiscarded, Offer, Activate, Built, CreateFail, CloseBegin, hostVars,
     requestVars
<1>16. CASE CloseCalled \/ ShutDown \/ ListenerClosed \/ CloseCurrent
            \/ CloseReturns \/ UNCHANGED vars
  BY <1>1, <1>16 DEF CloseCalled, ShutDown, ListenerClosed, CloseCurrent,
     CloseReturns, CloseBegin, vars, hostVars, requestVars
<1>17. QED
  BY <1>3, <1>4, <1>5, <1>6, <1>7, <1>9, <1>10, <1>11, <1>12, <1>13, <1>14,
     <1>15, <1>16
  DEF Next, Environment, Delivery, Program, Stopped

\* A step that moves a request other than into or out of a probe.
LEMMA ProbesKept ==
  ASSUME TypeOK, AdmissionExact, NEW q \in Requests, NEW v \in Place,
         pc' = [pc EXCEPT ![q] = v], UNCHANGED healthInFlight,
         pc[q] # "probe", v # "probe"
  PROVE  Probes'
BY ProbeCounts DEF Probes, TypeOK

LEMMA ProbesStep == IInv /\ [Next]_vars => Probes'
<1> SUFFICES ASSUME IInv, [Next]_vars  PROVE Probes'
  OBVIOUS
<1> USE DEF IInv, CountersExact
<1>1. ASSUME UNCHANGED <<pc, healthInFlight>>  PROVE Probes'
  BY <1>1 DEF Probes, AdmissionExact, TypeOK, Probing
<1>2. ASSUME NEW q \in Requests, NEW a, AnswerAtOnce(q, a), pc[q] = "new"
      PROVE  Probes'
  BY <1>2, ProbesKept DEF AnswerAtOnce, Place
<1>3. ASSUME NEW q \in Requests, ArriveAdmitted(q)  PROVE Probes'
  BY <1>3, ProbesKept DEF ArriveAdmitted, Place
<1>4. ASSUME NEW q \in Requests, ArriveProbe(q)  PROVE Probes'
  <2>1. /\ pc' = [pc EXCEPT ![q] = "probe"] /\ pc[q] = "new" /\ "probe" \in Place
        /\ healthInFlight < MaxHealth /\ healthInFlight' = healthInFlight + 1
    BY <1>4 DEF ArriveProbe, Place
  <2>2. Cardinality(Probing') = healthInFlight + 1
    BY <2>1, ProbeCounts
  <2>3. QED BY <2>1, <2>2, LimitsAssumption DEF Probes, TypeOK
<1>5. ASSUME NEW q \in Requests, BodyRead(q)  PROVE Probes'
  BY <1>5, ProbesKept
  DEF BodyRead, Dispatch, DispatchRefused, BodyRefused, hostVars, Place
<1>6. ASSUME NEW q \in Requests, BodyAborted(q) \/ Respond(q)  PROVE Probes'
  BY <1>6, ProbesKept DEF BodyAborted, Respond, hostVars, Place
<1>7. ASSUME NEW q \in Requests, HandlerStep(q)  PROVE Probes'
  BY <1>7, ProbesKept DEF HandlerStep, ReturnBuffered, ReturnStream, hostVars, Place
<1>8. ASSUME NEW q \in Requests, StartStream(q) \/ CancelStream(q) \/ EndStream(q)
      PROVE  Probes'
  BY <1>8, ProbesKept DEF StartStream, CancelStream, EndStream, Place
<1>9. ASSUME NEW q \in Requests, ProbeOver(q)  PROVE Probes'
  <2>1. /\ pc' = [pc EXCEPT ![q] = "done"] /\ pc[q] = "probe" /\ "done" \in Place
        /\ healthInFlight' = healthInFlight - 1
    BY <1>9 DEF ProbeOver, Place
  <2>2. Cardinality(Probing') = healthInFlight - 1 /\ Cardinality(Probing') \in Nat
    BY <2>1, ProbeCounts
  <2>3. QED BY <2>1, <2>2, LimitsAssumption DEF Probes, TypeOK
<1>10. CASE Deadline
  <2>1. Probing' = {} /\ healthInFlight' = 0
    BY <1>10 DEF Deadline, Probing
  <2>2. QED BY <2>1, FS_EmptySet, LimitsAssumption DEF Probes
<1>11. ASSUME NEW q \in Requests,
              ArriveShutting(q) \/ ArriveShed(q) \/ ArriveProbeShed(q)
       PROVE  Probes'
  BY <1>2, <1>11 DEF ArriveShutting, ArriveShed, ArriveProbeShed
<1>12. ASSUME NEW q \in Requests, Disconnect(q)  PROVE Probes'
  BY <1>1, <1>12 DEF Disconnect, requestVars
<1>13. ASSUME NEW r \in Runtimes, ReloadBegin(r) \/ ClosingStep(r) \/ CleanedUp(r)
       PROVE  Probes'
  BY <1>1, <1>13 DEF ReloadBegin, ClosingStep, CleanedUp, CreateBegin, CloseWait,
                     Release, hostVars, requestVars
<1>14. CASE ReloadStep \/ ReloadRejected \/ ReloadInstall \/ ReloadDiscard
            \/ ReloadDiscarded
  BY <1>1, <1>14 DEF ReloadStep, ReloadRejected, ReloadInstall, ReloadDiscard,
     ReloadDiscarded, Offer, Activate, Built, CreateFail, CloseBegin, hostVars,
     requestVars
<1>15. CASE CloseCalled \/ ShutDown \/ ListenerClosed \/ CloseCurrent
            \/ CloseReturns \/ UNCHANGED vars
  BY <1>1, <1>15 DEF CloseCalled, ShutDown, ListenerClosed, CloseCurrent,
     CloseReturns, CloseBegin, vars, hostVars, requestVars
<1>16. QED
  BY <1>3, <1>4, <1>5, <1>6, <1>7, <1>8, <1>9, <1>10, <1>11, <1>12, <1>13,
     <1>14, <1>15
  DEF Next, Environment, Delivery, Program, Stopped

-----------------------------------------------------------------------------
(* The type                                                                 *)

\* The variables that are not counters.
Shape ==
  /\ phase \in [Runtimes -> Phase] /\ holders \subseteq Runtimes /\ openings \in Nat
  /\ pc \in [Requests -> Place] /\ on \in [Requests -> Runtimes \cup {0}]
  /\ answer \in [Requests -> Answer]
  /\ current \in Runtimes /\ building \in Runtimes \cup {0}
  /\ retired \subseteq Runtimes /\ closing \in ClosePhase
  /\ draining \in BOOLEAN /\ shuttingDown \in BOOLEAN /\ connected \subseteq Requests

LEMMA ShapeStep == TypeOK /\ [Next]_vars => Shape'
<1> SUFFICES ASSUME TypeOK, [Next]_vars  PROVE Shape'
  OBVIOUS
<1> USE DEF TypeOK, RuntimeTypeOK, Shape, Phase, Place, Answer, ClosePhase
<1>1. ASSUME NEW q \in Requests, NEW a \in {"shutting", "shed"}, AnswerAtOnce(q, a)
      PROVE  Shape'
  BY <1>1 DEF AnswerAtOnce, lifeVars, serverVars
<1>2. ASSUME NEW q \in Requests, ArriveAdmitted(q) \/ ArriveProbe(q)  PROVE Shape'
  BY <1>2 DEF ArriveAdmitted, ArriveProbe, lifeVars, serverVars
<1>3. ASSUME NEW q \in Requests, BodyRead(q) \/ BodyAborted(q)  PROVE Shape'
  BY <1>3 DEF BodyRead, Dispatch, DispatchRefused, BodyRefused, BodyAborted, lifeVars,
              serverVars, hostVars
<1>4. ASSUME NEW r \in Runtimes, NEW a, NEW s, Leave(r, a, s)
      PROVE  phase' \in [Runtimes -> Phase]
  BY <1>4 DEF Leave
<1>5. ASSUME NEW q \in Requests, HandlerStep(q)  PROVE Shape'
  BY <1>5 DEF HandlerStep, ReturnBuffered, ReturnStream, Leave, serverVars, hostVars
<1>6. ASSUME NEW q \in Requests,
             Respond(q) \/ Disconnect(q) \/ StartStream(q) \/ ProbeOver(q)
      PROVE  Shape'
  BY <1>6 DEF Respond, Disconnect, StartStream, ProbeOver, ReleaseSlot, lifeVars,
              requestVars, serverVars
<1>7. ASSUME NEW q \in Requests, CancelStream(q) \/ EndStream(q)  PROVE Shape'
  BY <1>7 DEF CancelStream, EndStream, StreamOver, Leave, ReleaseSlot, serverVars
<1>8. CASE Deadline
  BY <1>8 DEF Deadline, lifeVars, serverVars
<1>9. ASSUME NEW q \in Requests,
             ArriveShutting(q) \/ ArriveShed(q) \/ ArriveProbeShed(q)
      PROVE  Shape'
  BY <1>1, <1>9 DEF ArriveShutting, ArriveShed, ArriveProbeShed
<1>10. ASSUME NEW r \in Runtimes, ReloadBegin(r) \/ ClosingStep(r) \/ CleanedUp(r)
       PROVE  Shape'
  BY <1>10 DEF ReloadBegin, ClosingStep, CleanedUp, CreateBegin, CloseWait,
               Release, DropReference, serverVars, hostVars, lifeVars, requestVars
<1>11. CASE ReloadStep \/ ReloadRejected
  BY <1>11 DEF ReloadStep, ReloadRejected, Offer, Activate, Built, CreateFail,
     TakeReference, DropReference, serverVars, hostVars, lifeVars, requestVars
<1>12. CASE ReloadInstall \/ ReloadDiscard \/ ReloadDiscarded
  BY <1>12 DEF ReloadInstall, ReloadDiscard, ReloadDiscarded, CloseBegin,
     serverVars, hostVars, lifeVars, requestVars
<1>13. CASE CloseCalled \/ ShutDown \/ ListenerClosed \/ CloseCurrent
            \/ CloseReturns \/ UNCHANGED vars
  BY <1>13 DEF CloseCalled, ShutDown, ListenerClosed, CloseCurrent,
     CloseReturns, CloseBegin, vars, serverVars, hostVars, lifeVars, requestVars
<1>14. QED
  BY <1>2, <1>3, <1>5, <1>6, <1>7, <1>8, <1>9, <1>10, <1>11, <1>12, <1>13
  DEF Next, Environment, Delivery, Program, Stopped

\* Type and counters together.
LEMMA TypeStep == IInv /\ [Next]_vars => TypeOK' /\ CountersExact'
BY CountedStep, SlotsStep, ProbesStep, ShapeStep
DEF Counted, Slots, Probes, Shape, TypeOK, RuntimeTypeOK, CountersExact,
    AdmissionExact, IInv
-----------------------------------------------------------------------------
(* The life of the runtimes                                                 *)

LEMMA LifeStep == IInv /\ [Next]_vars => Life'
<1> SUFFICES ASSUME IInv, [Next]_vars  PROVE Life'
  OBVIOUS
<1> USE DEF IInv, TypeOK, RuntimeTypeOK, Closing
<1>0. 0 \notin Runtimes
  BY DEF Runtimes
<1>1. ASSUME UNCHANGED <<phase, holders, openings, on, serverVars>>,
             \A q \in Requests :
               pc'[q] \in {"body", "running", "tracked", "streaming"} => on[q] # 0
      PROVE  Life'
  BY <1>1 DEF Life, serverVars
<1>2. ASSUME NEW q \in Requests, ArriveAdmitted(q)  PROVE Life'
  BY <1>0, <1>2 DEF ArriveAdmitted, Life, lifeVars, serverVars, Accepting
<1>3. ASSUME NEW q \in Requests, NEW a,
             AnswerAtOnce(q, a) \/ ArriveProbe(q) \/ BodyAborted(q) \/ Respond(q)
             \/ ProbeOver(q) \/ Disconnect(q)
      PROVE  Life'
  BY <1>1, <1>3 DEF AnswerAtOnce, ArriveProbe, BodyAborted, Respond, ProbeOver,
                    Disconnect, lifeVars, requestVars, Life
<1>4. ASSUME NEW q \in Requests, BodyRead(q) \/ StartStream(q)  PROVE Life'
  BY <1>1, <1>4
  DEF BodyRead, Dispatch, DispatchRefused, BodyRefused, StartStream, lifeVars, Life
<1>5. ASSUME NEW q \in Requests, pc[q] \in {"running", "tracked", "streaming"},
             NEW v \in Place, pc' = [pc EXCEPT ![q] = v],
             UNCHANGED <<holders, openings, on, serverVars>>,
             \/ phase' = phase
             \/ /\ phase[on[q]] = "waiting"
                /\ phase' = [phase EXCEPT ![on[q]] = "releasing"]
      PROVE  Life'
  <2>1. on[q] \in Runtimes
    BY <1>5 DEF Life
  <2>2. CASE phase' = phase
    BY <1>1, <1>5, <2>2 DEF Life
  <2>3. CASE /\ phase[on[q]] = "waiting"
             /\ phase' = [phase EXCEPT ![on[q]] = "releasing"]
    <3>1. holders' = {r \in Runtimes : phase'[r] \in
                       {"activated", "open", "closing", "waiting", "releasing"}}
      BY <1>5, <2>1, <2>3 DEF Life
    <3>2. QED BY <1>5, <2>1, <2>3, <3>1 DEF Life, serverVars
  <2>4. QED BY <1>5, <2>2, <2>3
<1>6. ASSUME NEW q \in Requests, HandlerStep(q)  PROVE Life'
  BY <1>5, <1>6 DEF HandlerStep, ReturnBuffered, ReturnStream, Leave, Settles, Place
<1>7. ASSUME NEW q \in Requests, CancelStream(q) \/ EndStream(q)  PROVE Life'
  BY <1>5, <1>7 DEF CancelStream, EndStream, StreamOver, Leave, Settles, Place
<1>8. CASE Deadline
  BY <1>1, <1>8 DEF Deadline, lifeVars, Life
<1>9. ASSUME NEW q \in Requests,
             ArriveShutting(q) \/ ArriveShed(q) \/ ArriveProbeShed(q)
      PROVE  Life'
  BY <1>3, <1>9 DEF ArriveShutting, ArriveShed, ArriveProbeShed
<1>10. ASSUME NEW r \in Runtimes, ReloadBegin(r)  PROVE Life'
  BY <1>0, <1>10 DEF ReloadBegin, Reloads, CreateBegin, Life, requestVars
<1>11. CASE ReloadStep
  BY <1>11 DEF ReloadStep, Offer, Activate, Built, TakeReference, Life,
               requestVars, serverVars
<1>12. CASE ReloadRejected
  BY <1>0, <1>12 DEF ReloadRejected, CreateFail, DropReference, Life, requestVars
<1>13. CASE ReloadInstall
  BY <1>0, <1>13 DEF ReloadInstall, Installs, CloseBegin, Life, requestVars
<1>14. CASE ReloadDiscard
  BY <1>14 DEF ReloadDiscard, CloseBegin, Life, requestVars, serverVars
<1>15. CASE ReloadDiscarded
  BY <1>0, <1>15 DEF ReloadDiscarded, Life, lifeVars, requestVars
<1>16. ASSUME NEW r \in Runtimes, ClosingStep(r)  PROVE Life'
  BY <1>16 DEF ClosingStep, CloseWait, Release, DropReference, Life, requestVars,
               serverVars
<1>17. ASSUME NEW r \in Runtimes, CleanedUp(r)  PROVE Life'
  BY <1>17 DEF CleanedUp, Life, lifeVars, requestVars
<1>18. CASE CloseCalled \/ ShutDown \/ ListenerClosed
  BY <1>18 DEF CloseCalled, ShutDown, ListenerClosed, Life, lifeVars, requestVars
<1>19. CASE CloseCurrent
  BY <1>19 DEF CloseCurrent, ReloadOver, CloseBegin, Life, requestVars
<1>20. CASE CloseReturns
  BY <1>20 DEF CloseReturns, AwaitsRetired, Life, lifeVars, requestVars
<1>21. CASE UNCHANGED vars
  BY <1>21 DEF vars, Life, lifeVars, requestVars, serverVars
<1>22. QED
  BY <1>2, <1>3, <1>4, <1>6, <1>7, <1>8, <1>9, <1>10, <1>11, <1>12, <1>13,
     <1>14, <1>15, <1>16, <1>17, <1>18, <1>19, <1>20, <1>21
  DEF Next, Environment, Delivery, Program, Stopped

-----------------------------------------------------------------------------
(* What a dispatch in progress keeps alive                                  *)

LEMMA EmptyCount ==
  ASSUME NEW S \in SUBSET Requests, Cardinality(S) = 0  PROVE S = {}
BY RequestsAssumption, FS_Subset, FS_EmptySet

LEMMA DispatchStep == IInv /\ [Next]_vars => DispatchKeepsRuntime'
<1> SUFFICES ASSUME IInv, [Next]_vars  PROVE DispatchKeepsRuntime'
  OBVIOUS
<1> USE DEF IInv, TypeOK, RuntimeTypeOK, DispatchKeepsRuntime, Released
<1>1. Counted'
  BY CountedStep
<1>2. ASSUME NEW q \in Requests, NEW v \in Place \ {"running"},
             pc' = [pc EXCEPT ![q] = v] \/ pc' = pc, UNCHANGED phase,
             on' = on \/ (pc[q] = "new" /\ v = "body"
                         /\ on' = [on EXCEPT ![q] = current])
      PROVE  DispatchKeepsRuntime'
  BY <1>2
<1>3. ASSUME NEW q \in Requests, NEW a,
             \/ AnswerAtOnce(q, a) \/ ArriveAdmitted(q) \/ ArriveProbe(q)
             \/ BodyAborted(q) \/ Respond(q) \/ ProbeOver(q) \/ Disconnect(q)
             \/ StartStream(q) \/ DispatchRefused(q) \/ BodyRefused(q)
      PROVE  DispatchKeepsRuntime'
  BY <1>2, <1>3 DEF AnswerAtOnce, ArriveAdmitted, ArriveProbe, BodyAborted, Respond,
     ProbeOver, Disconnect, StartStream, DispatchRefused, BodyRefused, lifeVars, requestVars,
     Place
<1>4. ASSUME NEW q \in Requests, Dispatch(q)  PROVE DispatchKeepsRuntime'
  BY <1>4 DEF Dispatch, Dispatches, Closing
<1>5. ASSUME NEW q \in Requests, pc[q] \in {"running", "tracked", "streaming"},
             NEW v \in Place \ {"running"}, pc' = [pc EXCEPT ![q] = v], on' = on,
             \/ phase' = phase
             \/ /\ active'[on[q]] = 0
                /\ phase' = [phase EXCEPT ![on[q]] = "releasing"]
      PROVE  DispatchKeepsRuntime'
  <2>1. on[q] \in Runtimes
    BY <1>5 DEF Life
  <2>2. CASE phase' = phase
    BY <1>2, <1>5, <2>2
  <2>3. CASE /\ active'[on[q]] = 0
             /\ phase' = [phase EXCEPT ![on[q]] = "releasing"]
    <3>1. ASSUME NEW r \in Runtimes, active'[r] = 0
          PROVE  \A x \in Requests : ~(on'[x] = r /\ pc'[x] = "running")
      <4>1. Dispatching(r)' = {}
        BY <1>1, <3>1, EmptyCount DEF Counted, CountsExact, Dispatching
      <4>2. QED BY <4>1 DEF Dispatching
    <3>2. QED BY <1>5, <2>1, <2>3, <3>1
  <2>4. QED BY <1>5, <2>2, <2>3
<1>6. ASSUME NEW q \in Requests, HandlerStep(q) \/ CancelStream(q) \/ EndStream(q)
      PROVE  DispatchKeepsRuntime'
  <2>1. on[q] \in Runtimes /\ pc[q] \in {"running", "tracked", "streaming"}
    BY <1>6 DEF HandlerStep, ReturnBuffered, ReturnStream, CancelStream, EndStream,
                Life
  <2>2. QED BY <1>5, <1>6, <2>1
     DEF HandlerStep, ReturnBuffered, ReturnStream, CancelStream, EndStream,
         StreamOver, Leave, Settles, Place
<1>7. CASE Deadline
  BY <1>7 DEF Deadline, lifeVars
<1>8. ASSUME NEW q \in Requests,
             ArriveShutting(q) \/ ArriveShed(q) \/ ArriveProbeShed(q)
      PROVE  DispatchKeepsRuntime'
  BY <1>3, <1>8 DEF ArriveShutting, ArriveShed, ArriveProbeShed
<1>9. ASSUME UNCHANGED <<pc, on>>, NEW r \in Runtimes, NEW p \in Phase,
             phase' = [phase EXCEPT ![r] = p],
             p \in {"releasing", "closed"} =>
               \/ Released(r)
               \/ active[r] = 0
               \/ phase[r] \in {"building", "offered", "activated"}
      PROVE  DispatchKeepsRuntime'
  <2>1. ASSUME NEW x \in Requests, on[x] = r, pc[x] = "running"
        PROVE  /\ active[r] # 0 /\ ~Released(r)
               /\ phase[r] \notin {"building", "offered", "activated"}
    <3>1. active[r] # 0
      <4>1. x \in Dispatching(r)
        BY <2>1 DEF Dispatching
      <4>2. QED BY <4>1, EmptyCount DEF CountersExact, CountsExact, Dispatching
    <3>2. QED BY <2>1, <3>1 DEF Life, Closing, Runtimes
  <2>2. QED BY <1>9, <2>1
<1>10. ASSUME NEW r \in Runtimes, ReloadBegin(r) \/ ClosingStep(r)
       PROVE  DispatchKeepsRuntime'
  BY <1>9, <1>10 DEF ReloadBegin, CreateBegin, ClosingStep, CloseWait, Release, Busy,
                     requestVars, Phase
<1>11. CASE ReloadStep \/ ReloadRejected \/ ReloadInstall \/ ReloadDiscard
            \/ CloseCurrent
  BY <1>9, <1>11 DEF ReloadStep, ReloadRejected, ReloadInstall, ReloadDiscard,
     CloseCurrent, Offer, Activate, Built, CreateFail, CloseBegin, requestVars, Phase
<1>12. CASE \/ ReloadDiscarded \/ CloseCalled \/ ShutDown \/ ListenerClosed
            \/ CloseReturns \/ UNCHANGED vars
            \/ \E r \in Runtimes : CleanedUp(r)
  BY <1>12 DEF ReloadDiscarded, CloseCalled, ShutDown, ListenerClosed, CloseReturns,
     CleanedUp, vars, lifeVars, requestVars
<1>13. QED
  BY <1>3, <1>4, <1>6, <1>7, <1>8, <1>10, <1>11, <1>12
  DEF Next, Environment, Delivery, Program, BodyRead, Stopped
-----------------------------------------------------------------------------
(* The theorems                                                             *)

LEMMA InitIInv == Init => IInv
<1> SUFFICES ASSUME Init  PROVE IInv
  OBVIOUS
<1>1. 1 \in Runtimes /\ 0 \notin Runtimes
  BY MaxRuntimesAssumption DEF Runtimes
<1>2. \A r \in Runtimes : Dispatching(r) = {} /\ Streaming(r) = {}
  BY DEF Init, RuntimeInit, Dispatching, Streaming
<1>3. Probing = {}
  BY DEF Init, RuntimeInit, Probing
<1>4. TypeOK
  <2>1. RuntimeTypeOK
    BY <1>1 DEF Init, RuntimeInit, RuntimeTypeOK, Phase, Place, Answer
  <2>2. inFlight \in 0..MaxInFlight /\ healthInFlight \in 0..MaxHealth
    BY LimitsAssumption DEF Init
  <2>3. QED BY <1>1, <2>1, <2>2 DEF Init, TypeOK, ClosePhase
<1>5. CountersExact
  BY <1>2, <1>3, FS_EmptySet
     DEF Init, RuntimeInit, CountersExact, AdmissionExact, CountsExact
<1>6. Life
  BY <1>1 DEF Init, RuntimeInit, Life, Closing
<1>7. DispatchKeepsRuntime
  BY DEF Init, RuntimeInit, DispatchKeepsRuntime
<1>8. QED BY <1>4, <1>5, <1>6, <1>7 DEF IInv

LEMMA Inductive == Spec => []IInv
<1>1. IInv /\ [Next]_vars => IInv'
  BY TypeStep, LifeStep, DispatchStep DEF IInv
<1>2. QED BY InitIInv, <1>1, PTL DEF Spec

\* Every reachable state has the type of the server's variables.
THEOREM TypeCorrect == Spec => []TypeOK
BY Inductive, PTL DEF IInv

\* The admission, dispatch, stream and probe counters are exact: release() and
\* settle() lose and repeat nothing, for any number of requests and any limits.
THEOREM CountersCorrect == Spec => []CountersExact
BY Inductive, PTL DEF IInv

\* close() of a runtime never goes past its wait while a dispatch is in progress.
THEOREM DispatchSafe == Spec => []DispatchKeepsRuntime
BY Inductive, PTL DEF IInv

\* The serving runtime is open and holds its resources until the server closes it.
THEOREM ServingSafe == Spec => []ServingRuntimeOpen
<1>1. IInv => ServingRuntimeOpen
  BY DEF IInv, Life, TypeOK, ServingRuntimeOpen
<1>2. QED BY Inductive, <1>1, PTL

\* The exclusive resource is opened once, however many reloads there are.
THEOREM OpenedOnceSafe == Spec => []OpenedOnce
<1>1. IInv => OpenedOnce
  BY DEF IInv, Life, OpenedOnce
<1>2. QED BY Inductive, <1>1, PTL

\* When close() has returned, nothing is left: no runtime, reference or dispatch.
THEOREM CloseComplete == Spec => []NothingLeftBehind
<1>1. IInv => NothingLeftBehind
  <2> SUFFICES ASSUME IInv, closing = "closed"
               PROVE  /\ \A r \in Runtimes : phase[r] \in {"none", "closed"}
                      /\ holders = {}
                      /\ \A q \in Requests : pc[q] # "running"
    BY DEF NothingLeftBehind
  <2>1. building = 0 /\ retired = {} /\ phase[current] = "closed"
    BY DEF IInv, Life
  <2>2. \A r \in Runtimes : phase[r] \in {"none", "closed"}
    BY <2>1 DEF IInv, Life, TypeOK, RuntimeTypeOK, Runtimes
  <2>3. holders = {}
    BY <2>2 DEF IInv, Life
  <2>4. ASSUME NEW q \in Requests, pc[q] = "running"  PROVE FALSE
    <3>1. on[q] \in Runtimes
      BY <2>4 DEF IInv, Life, TypeOK, RuntimeTypeOK
    <3>2. phase[on[q]] \notin {"none"} /\ ~Released(on[q])
      BY <2>4, <3>1 DEF IInv, Life, DispatchKeepsRuntime, Closing, Runtimes
    <3>3. QED BY <2>2, <3>1, <3>2 DEF Released
  <2>5. QED BY <2>2, <2>3, <2>4
<1>2. QED BY Inductive, <1>1, PTL

-----------------------------------------------------------------------------
(* The hand-off contract                                                    *)

\* A step of the server is a step of the contract, or none: only Activate,
\* CreateFail, ReloadInstall, Release and CloseCurrent touch what it speaks of.
LEMMA HandoffStep ==
  IInv /\ [Next]_vars => [Handoff!Next]_(Handoff!leaseVars)
<1> SUFFICES ASSUME IInv, [Next]_vars
             PROVE  [Handoff!Next]_(Handoff!leaseVars)
  OBVIOUS
<1> DEFINE Still == UNCHANGED <<holders, current>> /\ Closing(current)' = Closing(current)
<1>1. Still => [Handoff!Next]_(Handoff!leaseVars)
  BY DEF Handoff!leaseVars
<1>2. /\ phase \in [Runtimes -> Phase] /\ current \in Runtimes
      /\ building \in Runtimes \cup {0} /\ on \in [Requests -> Runtimes \cup {0}]
  BY DEF IInv, TypeOK, RuntimeTypeOK
<1>3. holders = {r \in Runtimes : phase[r] \in
                   {"activated", "open", "closing", "waiting", "releasing"}}
  BY DEF IInv, Life
<1>4. building # 0 => phase[current] = "open" /\ building # current
  BY DEF IInv, Life
<1>5. ASSUME NEW r \in Runtimes, NEW p \in Phase,
             phase' = [phase EXCEPT ![r] = p], UNCHANGED <<holders, current>>,
             r = current => (p \in {"closing", "waiting", "releasing", "closed"}
                               <=> Closing(r))
      PROVE  Still
  BY <1>2, <1>5 DEF Closing
<1>6. UNCHANGED <<holders, current, phase>> => Still
  BY DEF Closing
<1>7. ASSUME building # 0, Activate(building), UNCHANGED serverVars
      PROVE  Handoff!Take(building)
  <2>1. current \in holders /\ building \notin holders /\ ~Closing(current)
    BY <1>2, <1>3, <1>4, <1>7 DEF Activate, Closing
  <2>2. Closing(current)' = Closing(current)
    BY <1>2, <1>4, <1>7 DEF Activate, Closing, serverVars
  <2>3. QED BY <1>7, <2>1, <2>2 DEF Activate, TakeReference, serverVars, Handoff!Take
<1>8. ASSUME building # 0, CreateFail(building), current' = current
      PROVE  [Handoff!Next]_(Handoff!leaseVars)
  <2>1. Closing(current)' = Closing(current)
    BY <1>2, <1>4, <1>8 DEF CreateFail, Closing
  <2>2. CASE building \in holders
    BY <1>2, <1>4, <1>8, <2>1, <2>2
    DEF CreateFail, DropReference, Handoff!Drop, Handoff!Next
  <2>3. CASE building \notin holders
    <3>1. holders' = holders
      BY <1>8, <2>3 DEF CreateFail, DropReference
    <3>2. QED BY <1>1, <1>8, <2>1, <3>1
  <2>4. QED BY <2>2, <2>3
<1>9. ReloadInstall => Handoff!Switch(building) /\ building \in Runtimes
  BY <1>2, <1>3, <1>4
  DEF ReloadInstall, CloseBegin, Handoff!Switch, Closing, Runtimes
<1>10. ASSUME NEW r \in Runtimes, Release(r), current' = current
       PROVE  Handoff!Drop(r)
  <2>1. Closing(current)' = Closing(current) /\ (r = current => Closing(current))
    BY <1>2, <1>10 DEF Release, Closing
  <2>2. r \in holders
    BY <1>3, <1>10 DEF Release
  <2>3. QED BY <1>10, <2>1, <2>2 DEF Release, DropReference, Handoff!Drop
<1>11. CloseCurrent => Handoff!Stop
  BY <1>2 DEF CloseCurrent, CloseBegin, Handoff!Stop, Closing
<1>12. ASSUME NEW q \in Requests, HandlerStep(q) \/ CancelStream(q) \/ EndStream(q)
       PROVE  Still
  <2>1. on[q] \in Runtimes /\ UNCHANGED <<holders, current>>
    BY <1>2, <1>12 DEF HandlerStep, ReturnBuffered, ReturnStream, CancelStream,
                       EndStream, serverVars, IInv, Life
  <2>2. \/ phase' = phase
        \/ phase[on[q]] = "waiting" /\ phase' = [phase EXCEPT ![on[q]] = "releasing"]
    BY <1>12 DEF HandlerStep, ReturnBuffered, ReturnStream, CancelStream,
                 EndStream, StreamOver, Leave, Settles
  <2>3. QED BY <1>5, <1>6, <2>1, <2>2 DEF Closing, Phase
<1>13. ASSUME NEW r \in Runtimes, ReloadBegin(r) \/ ClosingStep(r)
       PROVE  [Handoff!Next]_(Handoff!leaseVars)
  <2>1. CASE ReloadBegin(r)
    BY <1>1, <1>5, <2>1 DEF ReloadBegin, CreateBegin, Closing, Phase
  <2>2. CASE CloseWait(r) /\ UNCHANGED serverVars
    BY <1>1, <1>5, <2>2 DEF CloseWait, Closing, Phase, serverVars
  <2>3. CASE Release(r) /\ UNCHANGED serverVars
    BY <1>10, <2>3 DEF serverVars, Handoff!Next
  <2>4. QED BY <1>13, <2>1, <2>2, <2>3 DEF ClosingStep
<1>14. CASE ReloadStep \/ ReloadRejected \/ ReloadDiscard
  <2>1. building # 0 /\ building \in Runtimes /\ current' = current
    BY <1>2, <1>14 DEF ReloadStep, ReloadRejected, ReloadDiscard, serverVars
  <2>2. CASE Offer(building, current) \/ Built(building) \/ CloseBegin(building)
    BY <1>1, <1>4, <1>5, <2>1, <2>2 DEF Offer, Built, CloseBegin, Phase
  <2>3. CASE Activate(building) /\ UNCHANGED serverVars
    BY <1>7, <2>1, <2>3 DEF Handoff!Next
  <2>4. QED BY <1>8, <1>14, <2>1, <2>2, <2>3
            DEF ReloadStep, ReloadRejected, ReloadDiscard
<1>15. CASE ReloadInstall \/ CloseCurrent
  BY <1>9, <1>11, <1>15 DEF Handoff!Next
<1>16. ASSUME NEW q \in Requests,
              \/ ArriveShutting(q) \/ ArriveShed(q) \/ ArriveAdmitted(q)
              \/ ArriveProbe(q) \/ ArriveProbeShed(q) \/ BodyRead(q)
              \/ Disconnect(q) \/ Delivery(q) \/ BodyAborted(q) \/ StartStream(q)
       PROVE  Still
  BY <1>6, <1>16 DEF ArriveShutting, ArriveShed, ArriveAdmitted, ArriveProbe,
     ArriveProbeShed, AnswerAtOnce, BodyRead, Dispatch, DispatchRefused, BodyRefused,
     Disconnect,
     Delivery, Respond, ProbeOver, BodyAborted, StartStream, lifeVars, serverVars
<1>17. CASE \/ ReloadDiscarded \/ CloseCalled \/ ShutDown \/ ListenerClosed
            \/ CloseReturns \/ Deadline \/ UNCHANGED vars
            \/ \E r \in Runtimes : CleanedUp(r)
  BY <1>1, <1>6, <1>17 DEF ReloadDiscarded, CloseCalled, ShutDown, ListenerClosed,
     CloseReturns, Deadline, CleanedUp, vars, lifeVars, serverVars
<1>18. QED
  BY <1>1, <1>12, <1>13, <1>14, <1>15, <1>16, <1>17
  DEF Next, Environment, Program, Stopped

\* Reload and close() of the server implement the hand-off contract of
\* extensions.ts: a replacement takes its reference while the serving runtime
\* has one, and the serving runtime keeps its own until the server stops.
THEOREM HandoffRefined == Spec => HandoffSpec
<1>1. Init => Handoff!Init
  BY MaxRuntimesAssumption
  DEF Init, RuntimeInit, Handoff!Init, Closing, Runtimes
<1>2. QED BY Inductive, HandoffStep, <1>1, PTL DEF Spec, HandoffSpec, Handoff!Spec

-----------------------------------------------------------------------------
(* What close() waits for                                                   *)

\* A runtime goes past its wait in a step that finds, or leaves, none of its
\* streams open.
LEMMA WaitOver ==
  ASSUME IInv, [Next]_vars, NEW r \in Runtimes, ~Released(r), Released(r)'
  PROVE  \/ streamsOpen[r] = 0
         \/ streamsOpen'[r] = 0 /\ on' = on
         \/ phase[r] \in {"building", "offered", "activated"}
<1>1. /\ phase \in [Runtimes -> Phase] /\ building \in Runtimes \cup {0}
      /\ active \in [Runtimes -> Nat] /\ streamsOpen \in [Runtimes -> Nat]
      /\ current \in Runtimes
  BY DEF IInv, TypeOK, RuntimeTypeOK
<1>2. phase' # phase
  BY DEF Released
<1>3. ASSUME NEW q \in Requests, HandlerStep(q) \/ CancelStream(q) \/ EndStream(q)
      PROVE  \/ streamsOpen[r] = 0
             \/ streamsOpen'[r] = 0 /\ on' = on
  BY <1>1, <1>2, <1>3
  DEF HandlerStep, ReturnBuffered, ReturnStream, CancelStream, EndStream,
      StreamOver, Leave, Settles, Released
<1>4. ASSUME NEW x \in Runtimes, ReloadBegin(x) \/ ClosingStep(x)
      PROVE  streamsOpen[r] = 0
  BY <1>1, <1>4
  DEF ReloadBegin, CreateBegin, ClosingStep, CloseWait, Release, Busy, Released
<1>5. CASE ReloadStep \/ ReloadRejected \/ ReloadInstall \/ ReloadDiscard
           \/ CloseCurrent
  BY <1>1, <1>5
  DEF ReloadStep, ReloadRejected, ReloadInstall, ReloadDiscard, CloseCurrent, Offer,
      Activate, Built, CreateFail, CloseBegin, Released
<1>6. ASSUME NEW q \in Requests,
             \/ ArriveShutting(q) \/ ArriveShed(q) \/ ArriveAdmitted(q)
             \/ ArriveProbe(q) \/ ArriveProbeShed(q) \/ BodyRead(q)
             \/ Disconnect(q) \/ Delivery(q) \/ BodyAborted(q) \/ StartStream(q)
      PROVE  FALSE
  BY <1>2, <1>6 DEF ArriveShutting, ArriveShed, ArriveAdmitted, ArriveProbe,
     ArriveProbeShed, AnswerAtOnce, BodyRead, Dispatch, DispatchRefused, BodyRefused,
     Disconnect,
     Delivery, Respond, ProbeOver, BodyAborted, StartStream, lifeVars
<1>7. CASE \/ ReloadDiscarded \/ CloseCalled \/ ShutDown \/ ListenerClosed
           \/ CloseReturns \/ Deadline \/ UNCHANGED vars
           \/ \E x \in Runtimes : CleanedUp(x)
  BY <1>2, <1>7 DEF ReloadDiscarded, CloseCalled, ShutDown, ListenerClosed,
     CloseReturns, Deadline, CleanedUp, vars, lifeVars
<1>8. QED
  BY <1>3, <1>4, <1>5, <1>6, <1>7 DEF Next, Environment, Program, Stopped

\* A stream that is open before close() goes past its wait is over when it does.
THEOREM StreamsWaitedFor == Spec => WaitsForOpenStreams
<1>1. IInv /\ IInv' /\ [Next]_vars =>
        [\A q \in Requests :
           /\ pc[q] \in {"tracked", "streaming"}
           /\ ~Released(on[q]) /\ Released(on[q])'
           => pc'[q] \notin {"tracked", "streaming"}]_vars
  <2> SUFFICES ASSUME IInv, IInv', [Next]_vars, NEW q \in Requests,
                      pc[q] \in {"tracked", "streaming"},
                      ~Released(on[q]), Released(on[q])',
                      pc'[q] \in {"tracked", "streaming"}
               PROVE  FALSE
    OBVIOUS
  <2>1. on'[q] = on[q] /\ on[q] \in Runtimes
    <3>1. on[q] \in Runtimes
      BY DEF IInv, Life, TypeOK, RuntimeTypeOK
    <3>2. on' = on \/ \E x \in Requests : ArriveAdmitted(x)
      BY DEF Next, Environment, Program, Stopped, ArriveShutting, ArriveShed,
         ArriveProbe, ArriveProbeShed, AnswerAtOnce, BodyRead, Dispatch,
         DispatchRefused, BodyRefused, Disconnect, Delivery, Respond, ProbeOver,
         BodyAborted,
         StartStream, HandlerStep, ReturnBuffered, ReturnStream, CancelStream,
         EndStream, ReloadBegin, CreateBegin, ClosingStep, CloseWait, Release,
         ReloadStep, ReloadRejected, ReloadInstall, ReloadDiscard, CloseCurrent,
         Offer, Activate, Built, CreateFail, CloseBegin, ReloadDiscarded, CloseCalled,
         ShutDown, ListenerClosed, CloseReturns, Deadline, CleanedUp, vars,
         lifeVars, requestVars
    <3>3. ASSUME NEW x \in Requests, ArriveAdmitted(x)  PROVE x # q
      BY <3>3 DEF ArriveAdmitted
    <3>4. on \in [Requests -> Runtimes \cup {0}]
      BY DEF IInv, TypeOK, RuntimeTypeOK
    <3>5. QED BY <3>1, <3>2, <3>3, <3>4 DEF ArriveAdmitted
  <2>2. q \in Streaming(on[q]) /\ Streaming(on[q]) # {}
    BY DEF Streaming
  <2>3. streamsOpen[on[q]] # 0
    BY <2>1, <2>2, EmptyCount DEF IInv, CountersExact, CountsExact, Streaming
  <2>4. phase[on[q]] \notin {"building", "offered", "activated"}
    BY <2>1 DEF IInv, Life, Closing, Runtimes
  <2>5. streamsOpen'[on[q]] = 0 /\ on' = on
    BY <2>1, <2>3, <2>4, WaitOver
  <2>6. {x \in Requests : on'[x] = on[q] /\ pc'[x] \in {"tracked", "streaming"}} = {}
    BY <2>1, <2>5, EmptyCount DEF IInv, CountersExact, CountsExact, Streaming
  <2>7. QED BY <2>1, <2>6
<1>2. QED BY Inductive, <1>1, PTL DEF Spec, WaitsForOpenStreams
=============================================================================
