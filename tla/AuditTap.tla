------------------------------ MODULE AuditTap ------------------------------
(***************************************************************************)
(* The audit log of the store and its tap (packages/store/src/audit.ts):   *)
(* what one recorded event, one peek and one ack do to the database. The   *)
(* log is a record: seq is the last sequence number given, kept the events *)
(* still stored, forwarded the acknowledged ones among them, and consumer, *)
(* peeked and lost are the row of store_audit_tap.                         *)
(*                                                                         *)
(* Two fields are history, for the properties: handed, every event a peek  *)
(* has returned, and dropped, every event pruned before a sink got it      *)
(* although the tap had a consumer.                                        *)
(***************************************************************************)
EXTENDS Naturals, FiniteSets

CONSTANT Batch   \* the `limit` of a peek

ASSUME BatchAssumption == Batch \in Nat \ {0}

EmptyLog ==
  [seq |-> 0, kept |-> {}, forwarded |-> {}, consumer |-> FALSE,
   peeked |-> 0, lost |-> 0, handed |-> {}, dropped |-> {}]

\* What the log loses when its newest event is `newest` and `retention` stay.
Pruned(events, newest, retention) == {s \in events : s + retention <= newest}

\* The pruned events that count as a loss.
Lost(log, pruned) ==
  IF log.consumer THEN {s \in pruned \ log.forwarded : s > log.peeked} ELSE {}

\* n events of one transaction, each pruning the log to its newest `retention`.
Recorded(log, n, retention) ==
  LET newest == log.seq + n
      events == log.kept \cup (log.seq + 1)..newest
      pruned == Pruned(events, newest, retention)
      unseen == IF log.consumer THEN pruned \ log.handed ELSE {}
  IN  [log EXCEPT !.seq = newest,
                  !.kept = events \ pruned,
                  !.forwarded = @ \ pruned,
                  !.lost = @ + Cardinality(Lost(log, pruned)),
                  !.dropped = @ \cup unseen]

\* The oldest unforwarded events, at most Batch of them.
Unforwarded(log) ==
  LET waiting == log.kept \ log.forwarded
  IN  {s \in waiting : Cardinality({t \in waiting : t < s}) < Batch}

\* The newest seq of a batch, 0 for an empty one.
Newest(batch) ==
  IF batch = {} THEN 0 ELSE CHOOSE s \in batch : \A t \in batch : t <= s

Later(m, n) == IF m < n THEN n ELSE m

\* A peek that returns `batch` without marking it: it has been marked before.
Handed(log, batch) == [log EXCEPT !.handed = @ \cup batch]

\* The transaction of a peek that marks what it returns.
Marked(log, batch) ==
  [Handed(log, batch) EXCEPT !.consumer = TRUE,
                             !.peeked = Later(@, Newest(batch))]

\* ack: what is no longer stored is ignored.
Acknowledged(log, ids) ==
  [log EXCEPT !.consumer = TRUE, !.forwarded = @ \cup (ids \cap log.kept)]
=============================================================================
