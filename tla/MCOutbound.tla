----------------------------- MODULE MCOutbound -----------------------------
(* Two dispatches under a runtime that closes, the first before the second, *)
(* and one under another runtime of the process, which records its signals. *)
EXTENDS Outbound

CONSTANTS r1, r2

MCRuntimes == {r1, r2}
MCDispatches == 1..3
MCRecording == {r2}

MCNext ==
  \/ \E x \in Requests :
       LookupSettles(x) \/ UpstreamEnds(x) \/ TimeoutFires(x) \/ Deliver(x)
  \/ \E d \in Dispatches :
       \/ Program(d)
       \/ d < 3 /\ (\A e \in 1..(d - 1) : dispatch[e] # "idle") /\ Dispatch(d, r1)
       \/ d = 3 /\ Dispatch(d, r2)
  \/ Close(r1) \/ CloseDrained(r1) \/ CloseSettled(r1)
MCSpec == Init /\ [][MCNext]_vars /\ Fairness
=============================================================================
