------------------------------- MODULE Store -------------------------------
(***************************************************************************)
(* The store extension (packages/store/src/store.ts): activations that     *)
(* share one database connection of their registration, the server lock    *)
(* (packages/core/src/server-lock.ts) that keeps a second process from     *)
(* serving the database, the declaration fence of a reload, the writes of  *)
(* Collection, the tap of AuditTap, and the operator commands, which write *)
(* from a process of their own beside the server.                          *)
(*                                                                         *)
(* A process runs one synchronous section at a time. Two sections here are *)
(* two steps, because an operator's transaction can come between their     *)
(* read and their own transaction: an activation between checking the rows *)
(* and recording its declaration, and a peek between reading a batch and   *)
(* marking it.                                                             *)
(***************************************************************************)
EXTENDS Collection, AuditTap

CONSTANTS
  Processes,
  Registrations,  \* the results of createStore
  Activations,
  ProcessOf,      \* ProcessOf[s]: the process of registration s
  StoreOf,        \* StoreOf[a]: the registration a is an activation of
  Declarations,
  NoDeclaration,
  NoProcess,
  MaxEvents,      \* bound: how many audit events are recorded
  MaxClaims       \* bound: how many claims are inserted

ASSUME NoProcessAssumption == NoProcess \notin Processes
ASSUME NoDeclarationAssumption == NoDeclaration \notin Declarations
ASSUME PlacesAssumption ==
  /\ IsFiniteSet(Activations) /\ IsFiniteSet(Registrations)
  /\ StoreOf \in [Activations -> Registrations]
  /\ ProcessOf \in [Registrations -> Processes]
ASSUME DeclarationsAssumption ==
  \A d \in Declarations : Normal(d) /\ d.auditRetention \in Nat \ {0} /\ d.maxKeys \in Nat \ {0}

VARIABLES
  phase,       \* phase[a]: how far the activation a is
  decl,        \* decl[a]: the declaration it serves
  connection,  \* connection[s]: the connection of s and how far its opening is
  refs,        \* refs[s]: its reference count
  live,        \* live[s]: the live activations of s, oldest first
  holder,      \* the process that holds the server lock
  shares,      \* how many openings of that process share it
  recorded,    \* the declaration recorded in the database
  audit,       \* the audit log
  consumed,    \* consumed[s]: the newest seq the connection of s has marked
  reading      \* reading[s]: <<batch>> when a peek has read it and not marked it yet

openVars == <<phase, decl, connection, refs, live, holder, shares>>
tapVars == <<consumed, reading>>
vars == <<openVars, recorded, audit, tapVars, collectionVars>>

Phase == {"idle", "opening", "checked", "live", "closed"}
Connection == {"none", "locking", "locked", "open", "failed"}
Unmarked == -1   \* no entry in `consumed`

Place(a) == ProcessOf[StoreOf[a]]
OfStore(s) == {a \in Activations : StoreOf[a] = s}
OfProcess(p) == {s \in Registrations : ProcessOf[s] = p}

\* The process p is inside no synchronous section.
Idle(p) ==
  /\ \A a \in Activations : Place(a) = p => phase[a] # "checked"
  /\ \A s \in OfProcess(p) : reading[s] = <<>>

Init ==
  /\ phase = [a \in Activations |-> "idle"]
  /\ decl = [a \in Activations |-> NoDeclaration]
  /\ connection = [s \in Registrations |-> "none"]
  /\ refs = [s \in Registrations |-> 0]
  /\ live = [s \in Registrations |-> <<>>]
  /\ holder = NoProcess
  /\ shares = 0
  /\ recorded = NoDeclaration
  /\ audit = EmptyLog
  /\ consumed = [s \in Registrations |-> Unmarked]
  /\ reading = [s \in Registrations |-> <<>>]
  /\ CollectionInit

---------------------------------------------------------------------------
(* The connection and the server lock. *)

\* acquire: the connection is shared, or a new opening begins.
Activate(a, d) ==
  LET s == StoreOf[a] IN
  /\ phase[a] = "idle" /\ Idle(Place(a))
  /\ phase' = [phase EXCEPT ![a] = "opening"]
  /\ decl' = [decl EXCEPT ![a] = d]
  /\ connection' = [connection EXCEPT ![s] = IF @ = "none" THEN "locking" ELSE @]
  /\ refs' = [refs EXCEPT ![s] = @ + 1]
  /\ UNCHANGED <<live, holder, shares, recorded, audit, tapVars, collectionVars>>

\* holdServerLock: a holder of the same process shares the lock.
TakeLock(s) ==
  /\ connection[s] = "locking" /\ Idle(ProcessOf[s])
  /\ holder \in {NoProcess, ProcessOf[s]}
  /\ connection' = [connection EXCEPT ![s] = "locked"]
  /\ holder' = ProcessOf[s]
  /\ shares' = shares + 1
  /\ UNCHANGED <<phase, decl, refs, live, recorded, audit, tapVars, collectionVars>>

ReleaseWhole ==
  /\ shares' = shares - 1
  /\ holder' = NoProcess
\* ServerLock.release
ReleaseLock ==
  /\ shares' = shares - 1
  /\ holder' = IF shares = 1 THEN NoProcess ELSE holder

OpenDatabase(s) ==
  /\ connection[s] = "locked" /\ Idle(ProcessOf[s])
  /\ connection' = [connection EXCEPT ![s] = "open"]
  /\ consumed' = [consumed EXCEPT ![s] = Unmarked]
  /\ UNCHANGED <<phase, decl, refs, live, holder, shares, recorded, audit, reading, collectionVars>>

\* The lock is refused, or the database does not open and gives it back.
OpeningFails(s) ==
  /\ connection[s] \in {"locking", "locked"} /\ Idle(ProcessOf[s])
  /\ IF connection[s] = "locked" THEN ReleaseLock ELSE UNCHANGED <<holder, shares>>
  /\ connection' = [connection EXCEPT ![s] = "failed"]
  /\ UNCHANGED <<phase, decl, refs, live, recorded, audit, tapVars, collectionVars>>

ReleaseEach(s) ==
  /\ refs' = [refs EXCEPT ![s] = @ - 1]
  /\ connection' = [connection EXCEPT ![s] = IF refs[s] = 1 THEN "none" ELSE @]
  /\ ReleaseLock
\* release: the last reference closes the database, then gives the lock back.
Release(s) ==
  /\ refs' = [refs EXCEPT ![s] = @ - 1]
  /\ IF refs[s] = 1
     THEN connection' = [connection EXCEPT ![s] = "none"] /\ ReleaseLock
     ELSE UNCHANGED <<connection, holder, shares>>

\* acquire throws: the last one waiting forgets the failed connection.
ActivationRejected(a) ==
  LET s == StoreOf[a] IN
  /\ phase[a] = "opening" /\ connection[s] = "failed" /\ Idle(Place(a))
  /\ phase' = [phase EXCEPT ![a] = "closed"]
  /\ refs' = [refs EXCEPT ![s] = @ - 1]
  /\ connection' = [connection EXCEPT ![s] = IF refs[s] = 1 THEN "none" ELSE @]
  /\ UNCHANGED <<decl, live, holder, shares, recorded, audit, tapVars, collectionVars>>

---------------------------------------------------------------------------
(* An activation after acquire, its close, and a crash. *)

\* Collection.open
CheckRows(a) ==
  /\ phase[a] = "opening" /\ connection[StoreOf[a]] = "open" /\ Idle(Place(a))
  /\ Openable(decl[a], rows)
  /\ phase' = [phase EXCEPT ![a] = "checked"]
  /\ UNCHANGED <<decl, connection, refs, live, holder, shares, recorded, audit, tapVars, collectionVars>>

\* Collection.open throws, or balancesHeld in the recording transaction.
ActivationRefused(a) ==
  /\ \/ /\ phase[a] = "opening" /\ connection[StoreOf[a]] = "open" /\ Idle(Place(a))
        /\ ~Openable(decl[a], rows)
     \/ phase[a] = "checked" /\ ~BalancesHeld(decl[a], rows)
  /\ phase' = [phase EXCEPT ![a] = "closed"]
  /\ Release(StoreOf[a])
  /\ UNCHANGED <<decl, live, recorded, audit, tapVars, collectionVars>>

\* record: the newest activation wins the fence.
RecordDeclaration(a) ==
  /\ phase[a] = "checked" /\ BalancesHeld(decl[a], rows)
  /\ recorded' = decl[a]
  /\ phase' = [phase EXCEPT ![a] = "live"]
  /\ live' = [live EXCEPT ![StoreOf[a]] = Append(@, a)]
  /\ UNCHANGED <<decl, connection, refs, holder, shares, audit, tapVars, collectionVars>>

\* The declaration recorded when a, of the serving activations `serving`,
\* closes: the one before it is recorded again, unless balances refuse it.
Rerecorded(a, serving) ==
  LET rest == Without(serving, a) IN
  IF rest # <<>> /\ Last(serving) = a /\ BalancesHeld(decl[Last(rest)], rows)
  THEN decl[Last(rest)]
  ELSE recorded

CloseActivation(a) ==
  LET s == StoreOf[a] IN
  /\ phase[a] = "live" /\ Idle(Place(a))
  /\ phase' = [phase EXCEPT ![a] = "closed"]
  /\ live' = [live EXCEPT ![s] = Without(@, a)]
  /\ recorded' = Rerecorded(a, live[s])
  /\ Release(s)
  /\ UNCHANGED <<decl, audit, tapVars, collectionVars>>

\* The process dies: the operating system releases its lock.
Crash(p) ==
  LET Dies(s) == ProcessOf[s] = p IN
  /\ \E s \in OfProcess(p) : refs[s] > 0
  /\ phase' = [a \in Activations |->
       IF Place(a) = p /\ phase[a] # "idle" THEN "closed" ELSE phase[a]]
  /\ connection' = [s \in Registrations |-> IF Dies(s) THEN "none" ELSE connection[s]]
  /\ refs' = [s \in Registrations |-> IF Dies(s) THEN 0 ELSE refs[s]]
  /\ live' = [s \in Registrations |-> IF Dies(s) THEN <<>> ELSE live[s]]
  /\ reading' = [s \in Registrations |-> IF Dies(s) THEN <<>> ELSE reading[s]]
  /\ IF holder = p THEN holder' = NoProcess /\ shares' = 0 ELSE UNCHANGED <<holder, shares>>
  /\ UNCHANGED <<decl, recorded, audit, consumed, collectionVars>>

---------------------------------------------------------------------------
(* Writes through an activation. *)

Record(n, retention) ==
  /\ n > 0 => audit.seq + n <= MaxEvents
  /\ audit' = Recorded(audit, n, retention)

FencedNever(a) == TRUE
\* fenced: the declaration recorded is the one a serves.
Fenced(a) == recorded = decl[a]

\* One write transaction of a for u: the claim, the step and n events.
Write(a, u, k, n) ==
  /\ phase[a] = "live" /\ Idle(Place(a))
  /\ Fenced(a)
  /\ k # NoKey => Len(applied) < MaxClaims
  /\ idempotent(decl[a], u, k)
  /\ Record(IF decl[a].audit THEN n ELSE 0, decl[a].auditRetention)
  /\ UNCHANGED <<openVars, recorded, tapVars, members>>

Create(a, u, k, r, slot) == Write(a, u, k, 1) /\ createIn(decl[a], u, r, slot)
Update(a, u, k, r, slot) == Write(a, u, k, 1) /\ updateIn(u, r, slot)
RemoveRecord(a, u, k, r) == Write(a, u, k, 1) /\ removeIn(u, r)
Book(a, u, k, r) == Write(a, u, k, 1) /\ bookIn(u, r)
Cancel(a, u, k, r) == Write(a, u, k, 1) /\ cancelIn(u, r)
Transfer(a, u, k, t, from, to, amount) ==
  Write(a, u, k, 2) /\ transferIn(decl[a], u, t, from, to, amount)

---------------------------------------------------------------------------
(* Operator commands. The membership collection is audited and declared    *)
(* alike in every declaration, so its fence never refuses.                 *)

Operates == UNCHANGED <<openVars, recorded, tapVars, claims, applied>>

AddMember(d, u) ==
  /\ u \notin members
  /\ members' = members \cup {u}
  /\ Record(1, d.auditRetention)
  /\ Operates /\ UNCHANGED rows

RemoveMember(d, u) ==
  /\ u \in members
  /\ members' = members \ {u}
  /\ Record(1, d.auditRetention)
  /\ Operates /\ UNCHANGED rows

\* operatorFence: a serving process must not have recorded another one.
OperatorFence(d) == recorded \in {NoDeclaration, d} \/ holder = NoProcess

ReassignEvents(d, u, v) ==
  (IF d.audit THEN Cardinality(OwnedIn(rows, u)) ELSE 0)
    + (IF u \notin members THEN 0 ELSE IF v \in members THEN 1 ELSE 2)

Reassign(d, u, v) ==
  /\ OperatorFence(d)
  /\ ReassignEvents(d, u, v) <= d.auditRetention
  /\ reassignOwner(d, u, v)
  /\ Record(ReassignEvents(d, u, v), d.auditRetention)
  /\ Operates

---------------------------------------------------------------------------
(* The tap of a registration that serves. *)

\* A batch with nothing new to the connection is returned as it was read.
PeekRead(s) ==
  LET batch == Unforwarded(audit) IN
  /\ live[s] # <<>> /\ Idle(ProcessOf[s])
  /\ IF consumed[s] = Unmarked \/ Newest(batch) > consumed[s]
     THEN reading' = [reading EXCEPT ![s] = <<batch>>] /\ UNCHANGED audit
     ELSE audit' = Handed(audit, batch) /\ UNCHANGED reading
  /\ UNCHANGED <<openVars, recorded, consumed, collectionVars>>

MarkedAsRead(s) == reading[s][1]
\* Otherwise it is read again in the transaction that marks it.
Remarked(s) == Unforwarded(audit)

PeekMark(s) ==
  LET batch == Remarked(s) IN
  /\ reading[s] # <<>>
  /\ audit' = Marked(audit, batch)
  /\ consumed' = [consumed EXCEPT ![s] = Later(Later(@, 0), Newest(batch))]
  /\ reading' = [reading EXCEPT ![s] = <<>>]
  /\ UNCHANGED <<openVars, recorded, collectionVars>>

\* A sink acknowledges an event it was handed.
Ack(s, i) ==
  /\ live[s] # <<>> /\ Idle(ProcessOf[s])
  /\ i \in audit.handed
  /\ audit' = Acknowledged(audit, {i})
  /\ consumed' = [consumed EXCEPT ![s] = Later(@, 0)]
  /\ UNCHANGED <<openVars, recorded, reading, collectionVars>>

---------------------------------------------------------------------------
Opening ==
  \/ \E a \in Activations : \E d \in Declarations : Activate(a, d)
  \/ \E s \in Registrations : TakeLock(s) \/ OpenDatabase(s) \/ OpeningFails(s)
  \/ \E a \in Activations : ActivationRejected(a)

Serving ==
  \/ \E a \in Activations :
        CheckRows(a) \/ ActivationRefused(a) \/ RecordDeclaration(a) \/ CloseActivation(a)
  \/ \E p \in Processes : Crash(p)

Requests ==
  \E a \in Activations, u \in Principals, k \in Keys \cup {NoKey}, r \in Ids :
    \/ \E slot \in Slots : Create(a, u, k, r, slot) \/ Update(a, u, k, r, slot)
    \/ RemoveRecord(a, u, k, r) \/ Book(a, u, k, r) \/ Cancel(a, u, k, r)
    \/ \E t \in {"pay", "issue"}, to \in Ids, amount \in Amounts :
         Transfer(a, u, k, t, r, to, amount)

Operator ==
  \E d \in Declarations, u \in Principals :
    \/ AddMember(d, u) \/ RemoveMember(d, u)
    \/ \E v \in Principals : Reassign(d, u, v)

Tap ==
  \E s \in Registrations :
    PeekRead(s) \/ PeekMark(s) \/ \E i \in 1..audit.seq : Ack(s, i)

Next == Opening \/ Serving \/ Requests \/ Operator \/ Tap

Spec == Init /\ [][Next]_vars

---------------------------------------------------------------------------
(* Properties. *)

TypeOK ==
  /\ phase \in [Activations -> Phase]
  /\ decl \in [Activations -> Declarations \cup {NoDeclaration}]
  /\ connection \in [Registrations -> Connection]
  /\ refs \in [Registrations -> Nat]
  /\ live \in [Registrations -> Seq(Activations)]
  /\ holder \in Processes \cup {NoProcess}
  /\ shares \in Nat
  /\ recorded \in Declarations \cup {NoDeclaration}
  /\ audit.seq \in Nat /\ audit.kept \subseteq 1..audit.seq
  /\ rows \in [Ids -> Row \cup {NoRow}]
  /\ members \subseteq Principals

Holding(s) == {a \in OfStore(s) : phase[a] \in {"opening", "checked", "live"}}
Locked == {s \in Registrations : connection[s] \in {"locked", "open"}}

\* The references of a connection are exactly the activations that took one
\* and have not given it back, the shares of the server lock exactly the
\* openings behind it: an activation never serves from a database that was
\* closed under it or that another process serves, and nothing stays open or
\* locked once nobody holds it (acquire, release, holdServerLock).
ServedUnderLock ==
  /\ \A s \in Registrations :
       /\ refs[s] = Cardinality(Holding(s))
       /\ connection[s] = "none" <=> refs[s] = 0
  /\ shares = Cardinality(Locked)
  /\ \A s \in Locked : holder = ProcessOf[s]
  /\ Locked = {} => holder = NoProcess
  /\ \A a \in Activations :
       phase[a] \in {"checked", "live"} => connection[StoreOf[a]] = "open"

Supply(table) == Total(StoredIn(table), [r \in StoredIn(table) |-> table[r].balance])

\* No transfer of d that the debited record affords is refused for what the
\* credited record holds.
NeverOverflows(d) ==
  \A t \in DOMAIN d.transfers, from \in StoredIn(rows), to \in StoredIn(rows), n \in Amounts :
    from # to /\ rows[from].balance - n >= d.transfers[t].min
      => rows[to].balance + n <= MaxSafe

\* The balances always sum to 0, and under the declaration recorded no balance
\* can leave the safe integers, so that the answer to a transfer never depends
\* on what the credited record holds (balancesHeld, transferIn). A declaration
\* that is recorded again when a failed reload closes is not checked against
\* maxRecords, which the last part allows for.
CreditsFit ==
  /\ Supply(rows) = 0
  /\ recorded # NoDeclaration =>
       /\ BalancesHeld(recorded, rows)
       /\ Cardinality(StoredIn(rows)) <= recorded.maxRecords => NeverOverflows(recorded)

\* No principal holds two booked records whose intervals overlap, although a
\* write looks at one of them only and a move brings two owners' together.
NoOverlap == ~Overlapping(rows, Principals)

\* A write under an Idempotency-Key is not done again before as many other
\* keyed writes as the collection retains claims for.
RetryWindow ==
  \A i, j \in 1..Len(applied) :
    (i < j /\ applied[i] = applied[j])
      => \E d \in Declarations : j - i > d.maxKeys

\* `lost` counts exactly the events that were pruned, once the tap had a
\* consumer, before any peek returned them (the contract above
\* recordAuditEvent), across restarts and with an operator's writes: no event
\* counted as lost was ever returned.
LossExact ==
  /\ audit.lost = Cardinality(audit.dropped)
  /\ audit.dropped \cap audit.handed = {}
=============================================================================
