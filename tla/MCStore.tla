------------------------------ MODULE MCStore ------------------------------
(* Store checked one workload at a time: each behaviour takes the steps of  *)
(* one of five groups of operations that interact, so that every group can  *)
(* be explored in full. Together they are all the actions of Store.         *)
EXTENDS Store, TLC

CONSTANTS p1, p2, s1, s2, s3, a1, a2, b1, c1, x1, y1, r1, r2, r3, k1, k2

VARIABLE workload

MCProcesses == {p1, p2}
MCRegistrations == {s1, s2, s3}
MCActivations == {a1, a2, b1, c1}
MCProcessOf == [i \in MCRegistrations |-> IF i = s3 THEN p2 ELSE p1]
MCStoreOf == [a \in MCActivations |-> IF a = b1 THEN s2 ELSE IF a = c1 THEN s3 ELSE s1]
MCPrincipals == {x1, y1}
MCIds == {r1, r2, r3}
MCKeys == {k1, k2}
MCSlots == {[since |-> 1, until |-> 3], [since |-> 2, until |-> 4], [since |-> 3, until |-> 5]}

Transfers(floor) ==
  [name \in {"pay", "issue"} |->
     IF name = "pay" THEN [min |-> 0, gated |-> FALSE] ELSE [min |-> floor, gated |-> TRUE]]
Collection2 ==
  [transfers |-> Transfers(-2), maxRecords |-> 2, maxRecordsPerOwner |-> 2,
   maxKeys |-> 2, audit |-> FALSE, auditRetention |-> 2]
Collection4 ==
  [Collection2 EXCEPT !.transfers = Transfers(-1), !.maxRecords = 4, !.maxRecordsPerOwner = 3]
Bookings ==
  [Collection2 EXCEPT !.transfers = <<>>, !.maxRecords = 3, !.maxRecordsPerOwner = 3]
Audited == [Bookings EXCEPT !.audit = TRUE]
MCDeclarations == {Collection2, Collection4, Bookings, Audited}

OneSlot == CHOOSE slot \in MCSlots : TRUE
Setup(a, d) ==
  \/ Activate(a, d) \/ TakeLock(StoreOf[a]) \/ OpenDatabase(StoreOf[a])
  \/ CheckRows(a) \/ RecordDeclaration(a)
Reloads(a) == ActivationRefused(a) \/ CloseActivation(a)

Lifecycle(actives, d) ==
  \/ \E a \in actives : Setup(a, d) \/ Reloads(a) \/ ActivationRejected(a)
  \/ \E i \in {StoreOf[a] : a \in actives} : OpeningFails(i)

\* Three registrations in two processes.
OpeningSteps ==
  \/ Lifecycle(Activations, Collection2) \/ Lifecycle(Activations, Collection4)
  \/ \E i \in Processes : Crash(i)

\* One collection under two declarations that reload into each other.
RecordSteps ==
  \/ Lifecycle({a1, a2}, Collection2) \/ Lifecycle({a1, a2}, Collection4)
  \/ members = {} /\ AddMember(Collection2, x1)
  \/ \E v, w \in MCPrincipals, d \in {Collection2, Collection4} : Reassign(d, v, w)
  \/ \E a \in {a1, a2}, v \in MCPrincipals, r \in MCIds :
       \/ \E slot \in MCSlots : Create(a, v, NoKey, r, slot) \/ Update(a, v, NoKey, r, slot)
       \/ RemoveRecord(a, v, NoKey, r) \/ Book(a, v, NoKey, r) \/ Cancel(a, v, NoKey, r)
       \/ \E name \in {"pay", "issue"}, to \in MCIds, n \in Amounts :
            Transfer(a, v, NoKey, name, r, to, n)

\* Retries, through two activations of one declaration.
RetrySteps ==
  \/ Lifecycle({a1, a2}, Collection2)
  \/ AddMember(Collection2, x1)
  \/ \E a \in {a1, a2}, v \in MCPrincipals, key \in MCKeys \cup {NoKey}, r, to \in MCIds :
       \/ Create(a, v, key, r, OneSlot) \/ RemoveRecord(a, v, key, r)
       \/ Update(a, v, key, r, OneSlot) \/ Transfer(a, v, key, "issue", r, to, 1)

\* The tap, with a restart, a second registration and the operator beside it.
TapSteps ==
  \/ \E a \in {a1, a2, b1} : Setup(a, Audited) \/ CloseActivation(a)
  \/ Crash(p1)
  \/ \E r \in MCIds : Create(a1, x1, NoKey, r, OneSlot)
  \/ AddMember(Audited, x1) \/ RemoveMember(Audited, x1) \/ Reassign(Audited, x1, y1)
  \/ Tap

MCInit == Init /\ workload \in {"opening", "record", "retry", "tap"}
MCNext ==
  \/ workload = "opening" /\ OpeningSteps /\ UNCHANGED workload
  \/ workload = "record" /\ RecordSteps /\ UNCHANGED workload
  \/ workload = "retry" /\ RetrySteps /\ UNCHANGED workload
  \/ workload = "tap" /\ TapSteps /\ UNCHANGED workload
MCSpec == MCInit /\ [][MCNext]_<<vars, workload>>

MCSymmetry == Permutations(MCIds) \cup Permutations({a1, a2})
=============================================================================
