----------------------------- MODULE StreamHost -----------------------------
(***************************************************************************)
(* Delivery of streamed responses over node:http                           *)
(* (packages/core/src/http-stream.ts, StreamHost).  start() pulls a        *)
(* producer chunk by chunk and bounds it; timers, the client, the request  *)
(* signal and a shutdown may end it while the loop waits for the producer  *)
(* or for the client to drain what was written.                            *)
(*                                                                         *)
(* Producers, clients and timers are the environment.  A chunk is its size.*)
(***************************************************************************)
EXTENDS Naturals, FiniteSets

CONSTANTS
  Streams,     \* the streamed results handed to start()
  MaxStreams,  \* limits.maxStreams
  MaxBytes,    \* limits.maxBytes
  Sizes        \* the sizes a chunk can have

ASSUME StreamsAssumption == IsFiniteSet(Streams)
ASSUME StreamLimitsAssumption == MaxStreams \in Nat \ {0} /\ MaxBytes \in Nat \ {0}
ASSUME SizesAssumption == Sizes \subseteq Nat

VARIABLES
  run,       \* run[q]: where run() of stream q is
  step,      \* step[q]: what the settled next() gave, until run() resumes
  reason,    \* reason[q]: why q ended, "none" before
  bytes,     \* bytes[q]: body bytes written
  response,  \* response[q]: what the client has been sent
  started,   \* started[q]: the promise start() returned
  open,      \* the `open` set
  aborted,   \* the streams whose request signal is aborted
  gone,      \* the streams whose client has left
  producer,  \* producer[q]: the state of the iterator
  produced,  \* produced[q]: the bytes its chunks carried so far
  returned   \* the producers cancelled through return()

hostVars == <<run, step, reason, bytes, response, started, open>>
clientVars == <<aborted, gone>>
producerVars == <<producer, produced, returned>>
vars == <<hostVars, clientVars, producerVars>>

Reason == {"none", "complete", "client-closed", "idle-timeout", "max-duration",
           "max-bytes", "error", "shutdown"}
Chunk == [kind : {"chunk"}, size : Sizes]
Step == Chunk \cup [kind : {"none", "bad", "done", "error"}, size : {0}]
Other(k) == [kind |-> k, size |-> 0]

\* "head" is a response with its header committed, "complete" one that ended
\* with the terminating chunk, "truncated" one whose connection was cut.
Response == {"none", "head", "complete", "truncated"}

Committed(q) == response[q] # "none"
Running(q) == run[q] \in {"pull", "step", "drain"}

-----------------------------------------------------------------------------
(* start()                                                                  *)

\* The producer is never pulled: it is returned and its signal aborted.
Unpulled(q) ==
  /\ run' = [run EXCEPT ![q] = "over"]
  /\ returned' = returned \cup {q}
  /\ UNCHANGED <<step, bytes, open, gone, producer, produced>>

\* prepareStream() refuses the result.
StartInvalid(q) ==
  /\ run[q] = "none"
  /\ Unpulled(q)
  /\ aborted' = aborted \cup {q}
  /\ started' = [started EXCEPT ![q] = "rejected"]
  /\ UNCHANGED <<reason, response>>

\* HEAD, or a status without a body.
StartBodyless(q) ==
  /\ run[q] = "none"
  /\ Unpulled(q)
  /\ aborted' = aborted \cup {q}
  /\ started' = [started EXCEPT ![q] = "resolved"]
  /\ response' = [response EXCEPT ![q] = "complete"]
  /\ reason' = [reason EXCEPT ![q] = "complete"]

AtCapacity == Cardinality(open) >= MaxStreams

StartRefused(q) ==
  /\ run[q] = "none" /\ AtCapacity
  /\ Unpulled(q)
  /\ aborted' = aborted \cup {q}
  /\ started' = [started EXCEPT ![q] = "rejected"]
  /\ UNCHANGED <<reason, response>>

StartGone(q) ==
  /\ run[q] = "none" /\ ~AtCapacity /\ q \in aborted
  /\ Unpulled(q)
  /\ started' = [started EXCEPT ![q] = "resolved"]
  /\ reason' = [reason EXCEPT ![q] = "client-closed"]
  /\ UNCHANGED <<response, aborted>>

\* The stream opens and next() is called.
StartStream(q) ==
  /\ run[q] = "none" /\ ~AtCapacity /\ q \notin aborted
  /\ open' = open \cup {q}
  /\ run' = [run EXCEPT ![q] = "pull"]
  /\ producer' = [producer EXCEPT ![q] = "working"]
  /\ UNCHANGED <<step, reason, bytes, response, started, clientVars, produced,
                 returned>>

-----------------------------------------------------------------------------
(* stop(): the first reason wins, and aborts the request signal.            *)

StopFirst(S, why) ==
  /\ reason' = [q \in Streams |->
                  IF q \in S /\ reason[q] = "none" THEN why ELSE reason[q]]
  /\ aborted' = aborted \cup {q \in S : reason[q] = "none"}
  /\ UNCHANGED <<run, step, bytes, response, started, open, producerVars>>

IdleTimeout(q) ==
  /\ q \in open /\ reason[q] = "none"
  /\ StopFirst({q}, "idle-timeout")
  /\ UNCHANGED gone

MaxDuration(q) ==
  /\ q \in open /\ reason[q] = "none"
  /\ StopFirst({q}, "max-duration")
  /\ UNCHANGED gone

\* endAll() at the close deadline.
EndAll ==
  /\ \E q \in open : reason[q] = "none"
  /\ StopFirst(open, "shutdown")
  /\ UNCHANGED gone

\* 'close' of an unfinished response: server.ts aborts the request signal,
\* which stops the stream if it is open.
ClientCloses(q) ==
  /\ q \notin gone /\ response[q] # "complete"
  /\ gone' = gone \cup {q}
  /\ aborted' = aborted \cup {q}
  /\ reason' = IF q \in open /\ reason[q] = "none"
               THEN [reason EXCEPT ![q] = "client-closed"] ELSE reason
  /\ UNCHANGED <<run, step, bytes, response, started, open, producerVars>>

-----------------------------------------------------------------------------
(* run()                                                                    *)

\* next() settles.  A loop that was stopped meanwhile no longer looks.
Settle(q) ==
  /\ producer[q] = "working"
  /\ \E s \in Step \ {Other("none")} :
       /\ producer' = [producer EXCEPT ![q] =
            CASE s.kind = "done" -> "done"
              [] s.kind = "error" -> "threw"
              [] OTHER -> "idle"]
       /\ produced' = [produced EXCEPT ![q] = @ + s.size]
       /\ IF run[q] = "pull" /\ reason[q] = "none"
          THEN /\ run' = [run EXCEPT ![q] = "step"]
               /\ step' = [step EXCEPT ![q] = s]
          ELSE UNCHANGED <<run, step>>
  /\ UNCHANGED <<reason, bytes, response, started, open, clientVars, returned>>

\* What the client of a stream that ended for reason why has been sent.
EndsAlways(q, why) == "complete"
EndsWith(q, why) ==
  IF why = "complete" THEN "complete"
  ELSE IF Committed(q) \/ why = "client-closed" THEN "truncated"
  ELSE "none"

\* The loop is left: the slot is freed, a producer that is not done is
\* returned, the response is ended or truncated, and start() settles if the
\* first chunk did not settle it.
LeaveKept(q) == open
LeaveFreed(q) == open \ {q}
CancelsDone(why) == why = "complete"
Cancels(why) == why # "complete"
End(q, why) ==
  /\ open' = LeaveFreed(q)
  /\ run' = [run EXCEPT ![q] = "over"]
  /\ step' = [step EXCEPT ![q] = Other("none")]
  /\ reason' = [reason EXCEPT ![q] = why]
  /\ aborted' = IF why = "complete" THEN aborted ELSE aborted \cup {q}
  /\ returned' = IF Cancels(why) THEN returned \cup {q} ELSE returned
  /\ response' = [response EXCEPT ![q] = EndsWith(q, why)]
  /\ started' = [started EXCEPT ![q] =
       IF @ # "waiting" THEN @
       ELSE IF response'[q] = "none" THEN "rejected" ELSE "resolved"]
  /\ UNCHANGED <<bytes, gone, producer, produced>>

\* stop() wakes the loop out of its wait.
WaitsOnPull(q) == run[q] = "pull"
Waits(q) == run[q] \in {"pull", "drain"}
Woken(q) ==
  /\ Waits(q) /\ reason[q] # "none"
  /\ End(q, reason[q])

\* run() resumes with a settled next().  A stop that came first wins.
StoppedNever(q) == FALSE
StoppedFirst(q) == reason[q] # "none"
FitsBefore(q) == bytes[q] <= MaxBytes
Fits(q) == bytes[q] + step[q].size <= MaxBytes

ResumeStopped(q) ==
  /\ run[q] = "step" /\ StoppedFirst(q)
  /\ End(q, reason[q])

ResumeEnds(q) ==
  /\ run[q] = "step" /\ ~StoppedFirst(q)
  /\ \/ step[q].kind \in {"error", "bad"} /\ End(q, "error")
     \/ step[q].kind = "done" /\ End(q, "complete")
     \/ step[q].kind = "chunk" /\ ~Fits(q) /\ End(q, "max-bytes")

\* A chunk is written, behind the header if it is the first, and the loop pulls
\* again or waits for 'drain'.
Pull(q) ==
  /\ run' = [run EXCEPT ![q] = "pull"]
  /\ producer' = [producer EXCEPT ![q] = "working"]

ResumeWrites(q) ==
  /\ run[q] = "step" /\ ~StoppedFirst(q)
  /\ step[q].kind = "chunk" /\ Fits(q)
  /\ response' = [response EXCEPT ![q] = "head"]
  /\ started' = [started EXCEPT ![q] = "resolved"]
  /\ bytes' = [bytes EXCEPT ![q] = @ + step[q].size]
  /\ step' = [step EXCEPT ![q] = Other("none")]
  /\ \/ Pull(q)
     \/ step[q].size > 0 /\ run' = [run EXCEPT ![q] = "drain"] /\ UNCHANGED producer
  /\ UNCHANGED <<reason, open, clientVars, produced, returned>>

Drain(q) ==
  /\ run[q] = "drain" /\ reason[q] = "none"
  /\ Pull(q)
  /\ UNCHANGED <<step, reason, bytes, response, started, open, clientVars, produced,
                 returned>>

-----------------------------------------------------------------------------
Init ==
  /\ run = [q \in Streams |-> "none"]
  /\ step = [q \in Streams |-> Other("none")]
  /\ reason = [q \in Streams |-> "none"]
  /\ bytes = [q \in Streams |-> 0]
  /\ response = [q \in Streams |-> "none"]
  /\ started = [q \in Streams |-> "waiting"]
  /\ open = {} /\ aborted = {} /\ gone = {}
  /\ producer = [q \in Streams |-> "idle"]
  /\ produced = [q \in Streams |-> 0]
  /\ returned = {}

Start(q) == \/ StartInvalid(q) \/ StartBodyless(q) \/ StartRefused(q)
            \/ StartGone(q) \/ StartStream(q)

Resume(q) == ResumeStopped(q) \/ ResumeEnds(q) \/ ResumeWrites(q)

Next ==
  \/ \E q \in Streams :
       \/ Start(q) \/ IdleTimeout(q) \/ MaxDuration(q) \/ ClientCloses(q)
       \/ Settle(q) \/ Woken(q) \/ Resume(q) \/ Drain(q)
  \/ EndAll

\* The duration timer fires and the loop resumes; the producer and the client
\* owe nothing.
Fairness ==
  \A q \in Streams : /\ WF_vars(MaxDuration(q))
                     /\ WF_vars(Woken(q)) /\ WF_vars(Resume(q))

Spec == Init /\ [][Next]_vars /\ Fairness

-----------------------------------------------------------------------------
(* Properties                                                               *)

\* The shape of the state; a stream never sends more than its byte limit.
TypeOK ==
  /\ run \in [Streams -> {"none", "pull", "step", "drain", "over"}]
  /\ step \in [Streams -> Step]
  /\ reason \in [Streams -> Reason]
  /\ bytes \in [Streams -> 0..MaxBytes]
  /\ response \in [Streams -> Response]
  /\ started \in [Streams -> {"waiting", "resolved", "rejected"}]
  /\ producer \in [Streams -> {"idle", "working", "done", "threw"}]
  /\ produced \in [Streams -> Nat]
  /\ open \subseteq Streams /\ aborted \subseteq Streams
  /\ gone \subseteq Streams /\ returned \subseteq Streams

\* The client is never shown a complete body that is not whole: the chunked body
\* is terminated only when the producer is done, or was not to be pulled, and
\* all its bytes were written; a stream that ended otherwise is truncated if a
\* byte was sent, and goes to the host's error path only if nothing was.
HonestEnding ==
  \A q \in Streams : run[q] = "over" =>
    /\ response[q] = "complete" =>
         (producer[q] = "done" \/ q \in returned) /\ bytes[q] = produced[q]
    /\ bytes[q] > 0 /\ reason[q] # "complete" => response[q] = "truncated"
    /\ started[q] = "rejected" => response[q] = "none" /\ bytes[q] = 0

\* start() owns the producer: when the stream is over the producer was pulled to
\* its end or returned, and its signal is aborted unless the stream is complete.
ProducerStopped ==
  \A q \in Streams : run[q] = "over" =>
    /\ producer[q] = "done" \/ q \in returned
    /\ reason[q] # "complete" => q \in aborted

\* The capacity counts the streams that are being delivered and no other: a
\* slot is freed by every way a stream can end, and refused ones never take one.
SlotsExact ==
  /\ open = {q \in Streams : Running(q)}
  /\ Cardinality(open) <= MaxStreams

\* A stream ends for one reason: a timer, the client, the shutdown and the end
\* of the producer racing each other never overwrite the first.
FirstReasonWins ==
  [][\A q \in Streams : reason[q] # "none" => reason'[q] = reason[q]]_vars

\* Every open stream ends, whatever its producer and its client do.
StreamEnds == \A q \in Streams : q \in open ~> q \notin open
=============================================================================
