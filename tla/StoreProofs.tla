---------------------------- MODULE StoreProofs ----------------------------
(***************************************************************************)
(* Proofs about Store, for any processes, registrations, activations,      *)
(* principals, records and declarations, on six inductive invariants:      *)
(* LockInv (the connection and the server lock), TapInv (the audit log),   *)
(* RowsInv (the records and their intervals), ServeInv (the types of what  *)
(* is served), RetryInv (the claims) and CreditInv (the balances).         *)
(***************************************************************************)
EXTENDS Store, AccountsProofs

-----------------------------------------------------------------------------
(* The connection and the server lock                                       *)

LockInv ==
  /\ phase \in [Activations -> Phase]
  /\ connection \in [Registrations -> Connection]
  /\ refs \in [Registrations -> Nat]
  /\ shares \in Nat
  /\ ServedUnderLock

Waiting == {"opening", "checked", "live"}

LEMMA FiniteParts ==
  /\ \A s \in Registrations :
       IsFiniteSet(Holding(s)) /\ Cardinality(Holding(s)) \in Nat
  /\ IsFiniteSet(Locked) /\ Cardinality(Locked) \in Nat
<1>1. \A s \in Registrations : Holding(s) \subseteq Activations
  BY DEF Holding, OfStore
<1>2. Locked \subseteq Registrations
  BY DEF Locked
<1>3. IsFiniteSet(Activations) /\ IsFiniteSet(Registrations)
  BY PlacesAssumption
<1>4. \A s \in Registrations : IsFiniteSet(Holding(s))
  BY <1>1, <1>3, FS_Subset
<1>5. IsFiniteSet(Locked)
  BY <1>2, <1>3, FS_Subset
<1>6. QED BY <1>4, <1>5, FS_CardinalityType

\* A new activation of a connection is counted.
LEMMA HolderEnters ==
  ASSUME LockInv, NEW a \in Activations, phase[a] = "idle",
         phase' = [phase EXCEPT ![a] = "opening"],
         refs' = [refs EXCEPT ![StoreOf[a]] = @ + 1]
  PROVE  \A s \in Registrations : refs'[s] = Cardinality(Holding(s)')
<1>1. StoreOf[a] \in Registrations
  BY PlacesAssumption
<1>2. Holding(StoreOf[a])' = Holding(StoreOf[a]) \cup {a} /\ a \notin Holding(StoreOf[a])
  BY DEF Holding, OfStore, LockInv
<1>3. \A s \in Registrations \ {StoreOf[a]} : Holding(s)' = Holding(s)
  BY DEF Holding, OfStore, LockInv
<1>4. Cardinality(Holding(StoreOf[a])') = Cardinality(Holding(StoreOf[a])) + 1
  BY <1>1, <1>2, FiniteParts, FS_AddElement
<1>5. QED BY <1>1, <1>3, <1>4 DEF LockInv, ServedUnderLock

\* A step of one that stays counted changes no count.
LEMMA HolderStays ==
  ASSUME LockInv, NEW a \in Activations, NEW p \in Waiting, phase[a] \in Waiting,
         phase' = [phase EXCEPT ![a] = p]
  PROVE  \A s \in Registrations : Holding(s)' = Holding(s)
BY DEF Holding, OfStore, LockInv, Waiting

\* One that leaves is counted off, and the last one leaves nobody behind.
LEMMA HolderLeaves ==
  ASSUME LockInv, NEW a \in Activations, phase[a] \in Waiting,
         phase' = [phase EXCEPT ![a] = "closed"],
         refs' = [refs EXCEPT ![StoreOf[a]] = @ - 1]
  PROVE  /\ refs[StoreOf[a]] >= 1
         /\ refs' \in [Registrations -> Nat]
         /\ \A s \in Registrations : refs'[s] = Cardinality(Holding(s)')
         /\ refs[StoreOf[a]] = 1 => Holding(StoreOf[a])' = {}
<1> DEFINE s == StoreOf[a]
<1>1. s \in Registrations
  BY PlacesAssumption
<1>2. Holding(s)' = Holding(s) \ {a} /\ a \in Holding(s)
  BY DEF Holding, OfStore, LockInv, Waiting
<1>3. \A t \in Registrations \ {s} : Holding(t)' = Holding(t)
  BY DEF Holding, OfStore, LockInv, Waiting
<1>4. Cardinality(Holding(s)') = Cardinality(Holding(s)) - 1
  BY <1>1, <1>2, FiniteParts, FS_RemoveElement
<1>5. IsFiniteSet(Holding(s)') /\ Cardinality(Holding(s)') \in Nat
  <2>1. IsFiniteSet(Holding(s)')
    BY <1>1, <1>2, FiniteParts, FS_RemoveElement
  <2>2. QED BY <2>1, FS_CardinalityType
<1>6. refs[s] = Cardinality(Holding(s))
  BY <1>1 DEF LockInv, ServedUnderLock
<1>7. refs[s] = 1 => Holding(s)' = {}
  BY <1>4, <1>5, <1>6, FS_EmptySet
<1>8. \A t \in Registrations : refs[t] \in Nat /\ refs[t] = Cardinality(Holding(t))
  BY DEF LockInv, ServedUnderLock
<1>9. refs' \in [Registrations -> Nat]
  BY <1>1, <1>4, <1>5, <1>6 DEF LockInv
<1>10. refs[s] >= 1
  BY <1>1, <1>4, <1>5, <1>6, <1>8
<1>11. \A t \in Registrations : refs'[t] = Cardinality(Holding(t)')
  BY <1>1, <1>3, <1>4, <1>6, <1>8 DEF LockInv
<1>12. QED BY <1>7, <1>9, <1>10, <1>11

\* The account of the server lock after an opening took it, and after one
\* gave it back.
LEMMA LockGained ==
  ASSUME LockInv, NEW s \in Registrations, s \notin Locked,
         Locked' = Locked \cup {s}, holder \in {NoProcess, ProcessOf[s]},
         holder' = ProcessOf[s], shares' = shares + 1
  PROVE  /\ shares' \in Nat /\ shares' = Cardinality(Locked')
         /\ \A t \in Locked' : holder' = ProcessOf[t]
         /\ Locked' = {} => holder' = NoProcess
<1>1. Cardinality(Locked') = Cardinality(Locked) + 1
  BY FiniteParts, FS_AddElement
<1>2. \A t \in Locked : holder = ProcessOf[t] /\ ProcessOf[t] \in Processes
  BY PlacesAssumption DEF LockInv, ServedUnderLock, Locked
<1>3. \A t \in Locked : ProcessOf[t] = ProcessOf[s]
  BY <1>2, NoProcessAssumption
<1>4. QED BY <1>1, <1>3 DEF LockInv, ServedUnderLock

LEMMA LockLost ==
  ASSUME LockInv, NEW s \in Locked, Locked' = Locked \ {s}, ReleaseLock
  PROVE  /\ shares' \in Nat /\ shares' = Cardinality(Locked')
         /\ \A t \in Locked' : holder' = ProcessOf[t]
         /\ Locked' = {} => holder' = NoProcess
<1>1. Cardinality(Locked') = Cardinality(Locked) - 1
  BY FiniteParts, FS_RemoveElement
<1>2. IsFiniteSet(Locked') /\ Cardinality(Locked') \in Nat
  <2>1. IsFiniteSet(Locked')
    BY FiniteParts, FS_RemoveElement
  <2>2. QED BY <2>1, FS_CardinalityType
<1>3. Locked' = {} <=> Cardinality(Locked') = 0
  BY <1>2, FS_EmptySet
<1>4. shares = Cardinality(Locked) /\ shares \in Nat
  BY DEF LockInv, ServedUnderLock
<1>5. Locked' = {} <=> shares = 1
  BY <1>1, <1>2, <1>3, <1>4
<1>6. shares' \in Nat /\ shares' = Cardinality(Locked')
  BY <1>1, <1>2, <1>4 DEF ReleaseLock
<1>7. \A t \in Locked' : holder' = ProcessOf[t]
  BY <1>5 DEF ReleaseLock, LockInv, ServedUnderLock
<1>8. QED BY <1>5, <1>6, <1>7 DEF ReleaseLock

\* What release does to the lock, for an activation whose connection is open.
LEMMA Released ==
  ASSUME LockInv, NEW a \in Activations, phase[a] \in Waiting,
         connection[StoreOf[a]] = "open",
         phase' = [phase EXCEPT ![a] = "closed"], Release(StoreOf[a])
  PROVE  LockInv'
<1> DEFINE s == StoreOf[a]
<1>1. s \in Registrations /\ s \in Locked
  BY PlacesAssumption DEF Locked
<1>2. /\ refs[s] >= 1
      /\ refs' \in [Registrations -> Nat]
      /\ \A t \in Registrations : refs'[t] = Cardinality(Holding(t)')
      /\ refs[s] = 1 => Holding(s)' = {}
  BY HolderLeaves DEF Release
<1>3. phase' \in [Activations -> Phase]
  BY DEF LockInv, Phase
<1>4. CASE refs[s] = 1
  <2>1. connection' = [connection EXCEPT ![s] = "none"] /\ ReleaseLock
    BY <1>4 DEF Release
  <2>2. Locked' = Locked \ {s}
    BY <1>1, <2>1 DEF Locked, LockInv
  <2>3. /\ shares' \in Nat /\ shares' = Cardinality(Locked')
        /\ \A t \in Locked' : holder' = ProcessOf[t]
        /\ Locked' = {} => holder' = NoProcess
    BY <1>1, <2>1, <2>2, LockLost
  <2>4. connection' \in [Registrations -> Connection]
    BY <2>1 DEF LockInv, Connection
  <2>5. \A t \in Registrations : connection'[t] = "none" <=> refs'[t] = 0
    BY <1>1, <1>4, <2>1 DEF LockInv, ServedUnderLock, Release
  <2>6. \A b \in Activations :
          phase'[b] \in {"checked", "live"} => connection'[StoreOf[b]] = "open"
    <3> SUFFICES ASSUME NEW b \in Activations, phase'[b] \in {"checked", "live"}
                 PROVE  connection'[StoreOf[b]] = "open"
      OBVIOUS
    <3>1. b \in Holding(StoreOf[b])'
      BY DEF Holding, OfStore
    <3>2. StoreOf[b] # s
      BY <1>2, <1>4, <3>1
    <3>3. phase[b] \in {"checked", "live"}
      BY DEF LockInv
    <3>4. QED BY <2>1, <3>2, <3>3, PlacesAssumption DEF LockInv, ServedUnderLock
  <2>7. QED BY <1>2, <1>3, <2>3, <2>4, <2>5, <2>6 DEF LockInv, ServedUnderLock
<1>5. CASE refs[s] # 1
  <2>1. UNCHANGED <<connection, holder, shares>>
    BY <1>5 DEF Release
  <2>2. Locked' = Locked
    BY <2>1 DEF Locked
  <2>3. \A t \in Registrations : connection'[t] = "none" <=> refs'[t] = 0
    BY <1>1, <1>2, <1>5, <2>1 DEF LockInv, ServedUnderLock, Release
  <2>4. \A b \in Activations :
          phase'[b] \in {"checked", "live"} => connection'[StoreOf[b]] = "open"
    BY <2>1 DEF LockInv, ServedUnderLock
  <2>5. QED BY <1>2, <1>3, <2>1, <2>2, <2>3, <2>4 DEF LockInv, ServedUnderLock
<1>6. QED BY <1>4, <1>5

LEMMA LockInit == Init => LockInv
<1> SUFFICES ASSUME Init PROVE LockInv
  OBVIOUS
<1>1. \A s \in Registrations : Holding(s) = {}
  BY DEF Init, Holding, OfStore
<1>2. Locked = {}
  BY DEF Init, Locked
<1>3. Cardinality({}) = 0
  BY FS_EmptySet
<1>4. QED BY <1>1, <1>2, <1>3 DEF Init, LockInv, ServedUnderLock, Phase, Connection

LEMMA LockActivate ==
  ASSUME LockInv, NEW a \in Activations, NEW d \in Declarations, Activate(a, d)
  PROVE  LockInv'
<1> DEFINE s == StoreOf[a]
<1>1. s \in Registrations /\ phase[a] = "idle"
  BY PlacesAssumption DEF Activate
<1>2. \A t \in Registrations : refs'[t] = Cardinality(Holding(t)')
  BY HolderEnters DEF Activate
<1>3. Locked' = Locked
  BY <1>1 DEF Activate, Locked, LockInv
<1>4. /\ phase' \in [Activations -> Phase] /\ refs' \in [Registrations -> Nat]
      /\ connection' \in [Registrations -> Connection]
  BY <1>1 DEF Activate, LockInv, Phase, Connection
<1>5. \A t \in Registrations : connection'[t] = "none" <=> refs'[t] = 0
  BY <1>1 DEF Activate, LockInv, ServedUnderLock
<1>6. \A b \in Activations :
        phase'[b] \in {"checked", "live"} => connection'[StoreOf[b]] = "open"
  BY PlacesAssumption DEF Activate, LockInv, ServedUnderLock
<1>7. UNCHANGED <<holder, shares>>
  BY DEF Activate
<1>8. QED BY <1>2, <1>3, <1>4, <1>5, <1>6, <1>7 DEF LockInv, ServedUnderLock

LEMMA LockOpening ==
  ASSUME LockInv, NEW s \in Registrations,
         TakeLock(s) \/ OpenDatabase(s) \/ OpeningFails(s)
  PROVE  LockInv'
<1>1. UNCHANGED <<phase, refs>>
  BY DEF TakeLock, OpenDatabase, OpeningFails
<1>2. \A t \in Registrations : Holding(t)' = Holding(t)
  BY <1>1 DEF Holding, OfStore
<1>3. connection[s] \in {"locking", "locked"}
  BY DEF TakeLock, OpenDatabase, OpeningFails
<1>4. connection' \in [Registrations -> Connection]
  BY DEF TakeLock, OpenDatabase, OpeningFails, LockInv, Connection
<1>5. \A t \in Registrations : connection'[t] = "none" <=> refs'[t] = 0
  BY <1>1, <1>3 DEF TakeLock, OpenDatabase, OpeningFails, LockInv, ServedUnderLock
<1>6. \A b \in Activations :
        phase'[b] \in {"checked", "live"} => connection'[StoreOf[b]] = "open"
  BY <1>1, <1>3, PlacesAssumption
     DEF TakeLock, OpenDatabase, OpeningFails, LockInv, ServedUnderLock
<1>7. /\ shares' \in Nat /\ shares' = Cardinality(Locked')
      /\ \A t \in Locked' : holder' = ProcessOf[t]
      /\ Locked' = {} => holder' = NoProcess
  <2>1. CASE TakeLock(s)
    <3>1. s \notin Locked /\ Locked' = Locked \cup {s}
      BY <2>1 DEF TakeLock, Locked, LockInv
    <3>2. QED BY <2>1, <3>1, LockGained DEF TakeLock
  <2>2. CASE (OpenDatabase(s) \/ OpeningFails(s)) /\ UNCHANGED <<holder, shares>> /\ Locked' = Locked
    BY <2>2 DEF LockInv, ServedUnderLock
  <2>3. CASE OpeningFails(s) /\ connection[s] = "locked"
    <3>1. s \in Locked /\ Locked' = Locked \ {s}
      BY <2>3 DEF OpeningFails, Locked, LockInv
    <3>2. QED BY <2>3, <3>1, LockLost DEF OpeningFails
  <2>4. OpenDatabase(s) => UNCHANGED <<holder, shares>> /\ Locked' = Locked
    BY DEF OpenDatabase, Locked, LockInv
  <2>5. OpeningFails(s) /\ connection[s] # "locked"
          => UNCHANGED <<holder, shares>> /\ Locked' = Locked
    BY DEF OpeningFails, Locked, LockInv
  <2>6. QED BY <2>1, <2>2, <2>3, <2>4, <2>5
<1>8. QED BY <1>1, <1>2, <1>4, <1>5, <1>6, <1>7 DEF LockInv, ServedUnderLock

LEMMA LockRejected ==
  ASSUME LockInv, NEW a \in Activations, ActivationRejected(a)
  PROVE  LockInv'
<1> DEFINE s == StoreOf[a]
<1>1. /\ s \in Registrations /\ phase[a] = "opening"
      /\ connection[s] = "failed" /\ phase' = [phase EXCEPT ![a] = "closed"]
      /\ refs' = [refs EXCEPT ![s] = @ - 1] /\ UNCHANGED <<holder, shares>>
      /\ connection' = [connection EXCEPT ![s] = IF refs[s] = 1 THEN "none" ELSE @]
  BY PlacesAssumption DEF ActivationRejected
<1>2. /\ refs[s] >= 1 /\ refs' \in [Registrations -> Nat]
      /\ \A t \in Registrations : refs'[t] = Cardinality(Holding(t)')
  BY <1>1, HolderLeaves DEF Waiting
<1>3. phase' \in [Activations -> Phase] /\ connection' \in [Registrations -> Connection]
  BY <1>1 DEF LockInv, Phase, Connection
<1>4. Locked' = Locked
  BY <1>1 DEF Locked, LockInv
<1>5. \A t \in Registrations : connection'[t] = "none" <=> refs'[t] = 0
  BY <1>1, <1>2 DEF LockInv, ServedUnderLock
<1>6. \A b \in Activations :
        phase'[b] \in {"checked", "live"} => connection'[StoreOf[b]] = "open"
  BY <1>1, PlacesAssumption DEF LockInv, ServedUnderLock
<1>7. QED BY <1>1, <1>2, <1>3, <1>4, <1>5, <1>6 DEF LockInv, ServedUnderLock

LEMMA LockServes ==
  ASSUME LockInv, NEW a \in Activations, CheckRows(a) \/ RecordDeclaration(a)
  PROVE  LockInv'
<1>1. PICK p \in {"checked", "live"} : phase' = [phase EXCEPT ![a] = p]
  BY DEF CheckRows, RecordDeclaration
<1>2. phase[a] \in Waiting /\ p \in Waiting
  BY DEF CheckRows, RecordDeclaration, Waiting
<1>3. UNCHANGED <<connection, refs, holder, shares>>
  BY DEF CheckRows, RecordDeclaration
<1>4. \A t \in Registrations : Holding(t)' = Holding(t)
  BY <1>1, <1>2, HolderStays
<1>5. connection[StoreOf[a]] = "open"
  BY DEF CheckRows, RecordDeclaration, LockInv, ServedUnderLock
<1>6. phase' \in [Activations -> Phase]
  BY <1>1 DEF LockInv, Phase
<1>7. Locked' = Locked
  BY <1>3 DEF Locked
<1>8. QED BY <1>1, <1>3, <1>4, <1>5, <1>6, <1>7 DEF LockInv, ServedUnderLock

LEMMA LockCloses ==
  ASSUME LockInv, NEW a \in Activations, ActivationRefused(a) \/ CloseActivation(a)
  PROVE  LockInv'
<1>1. phase[a] \in Waiting /\ phase' = [phase EXCEPT ![a] = "closed"]
  BY DEF ActivationRefused, CloseActivation, Waiting
<1>2. connection[StoreOf[a]] = "open"
  BY DEF ActivationRefused, CloseActivation, LockInv, ServedUnderLock
<1>3. Release(StoreOf[a])
  BY DEF ActivationRefused, CloseActivation
<1>4. QED BY <1>1, <1>2, <1>3, Released

LEMMA LockCrash ==
  ASSUME LockInv, NEW p \in Processes, Crash(p)
  PROVE  LockInv'
<1> DEFINE dead == OfProcess(p)
<1>1. /\ phase' \in [Activations -> Phase] /\ refs' \in [Registrations -> Nat]
      /\ connection' \in [Registrations -> Connection]
  BY DEF Crash, LockInv, Phase, Connection
<1>2. /\ \A s \in dead : refs'[s] = 0 /\ connection'[s] = "none" /\ Holding(s)' = {}
      /\ \A s \in Registrations \ dead :
           refs'[s] = refs[s] /\ connection'[s] = connection[s] /\ Holding(s)' = Holding(s)
  BY PlacesAssumption DEF Crash, OfProcess, Holding, OfStore, Place, LockInv
<1>3. Locked' = Locked \ dead
  BY <1>2 DEF Locked
<1>4. Cardinality({}) = 0
  BY FS_EmptySet
<1>5. \A s \in Registrations :
        refs'[s] = Cardinality(Holding(s)') /\ (connection'[s] = "none" <=> refs'[s] = 0)
  BY <1>2, <1>4 DEF LockInv, ServedUnderLock
<1>6. \A b \in Activations :
        phase'[b] \in {"checked", "live"} => connection'[StoreOf[b]] = "open"
  <2> SUFFICES ASSUME NEW b \in Activations, phase'[b] \in {"checked", "live"}
               PROVE  connection'[StoreOf[b]] = "open"
    OBVIOUS
  <2>1. Place(b) # p /\ phase[b] = phase'[b]
    BY DEF Crash
  <2>2. StoreOf[b] \in Registrations \ dead
    BY <2>1, PlacesAssumption DEF OfProcess, Place
  <2>3. QED BY <1>2, <2>1, <2>2 DEF LockInv, ServedUnderLock
<1>7. CASE holder = p
  <2>1. Locked' = {}
    BY <1>3, <1>7 DEF LockInv, ServedUnderLock, Locked, OfProcess
  <2>2. holder' = NoProcess /\ shares' = 0
    BY <1>7 DEF Crash
  <2>3. QED BY <1>1, <1>4, <1>5, <1>6, <2>1, <2>2 DEF LockInv, ServedUnderLock
<1>8. CASE holder # p
  <2>1. Locked' = Locked
    BY <1>3, <1>8 DEF LockInv, ServedUnderLock, Locked, OfProcess
  <2>2. UNCHANGED <<holder, shares>>
    BY <1>8 DEF Crash
  <2>3. QED BY <1>1, <1>5, <1>6, <2>1, <2>2 DEF LockInv, ServedUnderLock
<1>9. QED BY <1>7, <1>8

\* Every other action leaves the connections and the lock alone.
LEMMA OpenSteps ==
  ASSUME Requests \/ Operator \/ Tap \/ UNCHANGED vars
  PROVE  UNCHANGED openVars
<1>1. Requests => UNCHANGED openVars
  BY DEF Requests, Create, Update, RemoveRecord, Book, Cancel, Transfer, Write
<1>2. Operator => UNCHANGED openVars
  BY DEF Operator, AddMember, RemoveMember, Reassign, Operates
<1>3. Tap => UNCHANGED openVars
  BY DEF Tap, PeekRead, PeekMark, Ack
<1>4. QED BY <1>1, <1>2, <1>3 DEF vars

LEMMA LockStep == LockInv /\ [Next]_vars => LockInv'
<1> SUFFICES ASSUME LockInv, [Next]_vars PROVE LockInv'
  OBVIOUS
<1>1. CASE Opening
  BY <1>1, LockActivate, LockOpening, LockRejected DEF Opening
<1>2. CASE Serving
  BY <1>2, LockServes, LockCloses, LockCrash DEF Serving
<1>3. CASE Requests \/ Operator \/ Tap \/ UNCHANGED vars
  <2>1. UNCHANGED openVars
    BY <1>3, OpenSteps
  <2>2. Locked' = Locked /\ \A s \in Registrations : Holding(s)' = Holding(s)
    BY <2>1 DEF openVars, Locked, Holding, OfStore
  <2>3. QED BY <2>1, <2>2 DEF openVars, LockInv, ServedUnderLock
<1>4. QED BY <1>1, <1>2, <1>3 DEF Next

\* Reference counts and the shares of the server lock are exact, and whoever
\* serves has its database open under a lock its own process holds.
THEOREM SpecServedUnderLock == Spec => []ServedUnderLock
<1>1. LockInv => ServedUnderLock
  BY DEF LockInv
<1>2. QED BY LockInit, LockStep, <1>1, PTL DEF Spec

\* Whatever opens, closes, reloads and crashes, the activations that serve are
\* all of one process, the one that holds the server lock (holdServerLock()).
THEOREM OneProcessServes ==
  Spec => [](\A a, b \in Activations :
               phase[a] = "live" /\ phase[b] = "live"
                 => Place(a) = Place(b) /\ holder = Place(a))
<1>1. LockInv => \A a, b \in Activations :
                   phase[a] = "live" /\ phase[b] = "live"
                     => Place(a) = Place(b) /\ holder = Place(a)
  <2>1. ASSUME LockInv, NEW a \in Activations, phase[a] = "live"
        PROVE  holder = Place(a)
    BY <2>1, PlacesAssumption DEF LockInv, ServedUnderLock, Locked, Place
  <2>2. QED BY <2>1
<1>2. QED BY LockInit, LockStep, <1>1, PTL DEF Spec

-----------------------------------------------------------------------------
(* The audit log                                                            *)

LogOf ==
  [seq : Nat, kept : SUBSET Nat, forwarded : SUBSET Nat, consumer : BOOLEAN,
   peeked : Nat, lost : Nat, handed : SUBSET Nat, dropped : SUBSET Nat]

\* Of the stored events that no sink has, those a peek returned are exactly
\* those up to `peeked`: that is why the mark alone tells what was seen.
Seen(log) ==
  \A i \in log.kept \ log.forwarded : i \in log.handed <=> i <= log.peeked

LogInv(log) ==
  /\ log \in LogOf
  /\ log.kept \cup log.handed \cup log.dropped \subseteq 1..log.seq
  /\ log.peeked <= log.seq
  /\ log.forwarded \subseteq log.handed
  /\ ~log.consumer => log.handed = {}
  /\ Seen(log)
  /\ log.dropped \cap (log.kept \cup log.handed) = {}
  /\ log.lost = Cardinality(log.dropped)

TapInv ==
  /\ LogInv(audit)
  /\ \A s \in Registrations :
       /\ consumed[s] \in Nat \cup {Unmarked}
       /\ consumed[s] <= audit.peeked
       /\ consumed[s] # Unmarked => audit.consumer
  /\ consumed \in [Registrations -> Int]
  /\ phase \in [Activations -> Phase]
  /\ decl \in [Activations -> Declarations \cup {NoDeclaration}]
  /\ \A a \in Activations : phase[a] # "idle" => decl[a] \in Declarations

\* What is pruned, and what of it counts as a loss.
LEMMA RecordKeeps ==
  ASSUME NEW log, LogInv(log), NEW n \in Nat, NEW retention \in Nat \ {0}
  PROVE  /\ LogInv(Recorded(log, n, retention))
         /\ Recorded(log, n, retention).peeked = log.peeked
         /\ Recorded(log, n, retention).consumer = log.consumer
<1> DEFINE newest == log.seq + n
           events == log.kept \cup (log.seq + 1)..newest
           pruned == Pruned(events, newest, retention)
           unseen == IF log.consumer THEN pruned \ log.handed ELSE {}
           after == Recorded(log, n, retention)
<1>1. after = [log EXCEPT !.seq = newest, !.kept = events \ pruned,
                          !.forwarded = @ \ pruned,
                          !.lost = @ + Cardinality(Lost(log, pruned)),
                          !.dropped = @ \cup unseen]
  BY DEF Recorded
<1>2. log \in LogOf /\ newest \in Nat /\ pruned \subseteq events
  BY DEF LogInv, LogOf, Pruned
<1>3. events \subseteq 1..newest
  BY <1>2 DEF LogInv, LogOf
<1>4. \A i \in events \ log.kept : i > log.seq
  BY <1>2 DEF LogOf
<1>5. \A i \in events \ log.forwarded : i \in log.handed <=> i <= log.peeked
  BY <1>2, <1>3, <1>4 DEF LogInv, LogOf, Seen
<1>6. Lost(log, pruned) = unseen
  <2>1. \A i \in pruned : i \in log.forwarded => i \in log.handed
    BY DEF LogInv
  <2>2. \A i \in pruned \ log.forwarded : i \in log.handed <=> ~(i > log.peeked)
    BY <1>2, <1>3, <1>5 DEF LogOf
  <2>3. QED BY <2>1, <2>2 DEF Lost
<1>7. unseen \subseteq 1..newest /\ unseen \cap log.dropped = {}
  <2>1. unseen \subseteq events
    BY <1>2
  <2>2. log.dropped \cap log.kept = {} /\ log.dropped \subseteq 1..log.seq
    BY DEF LogInv
  <2>3. log.dropped \cap events = {}
    BY <1>2, <1>4, <2>2 DEF LogOf
  <2>4. QED BY <1>3, <2>1, <2>3
<1>8. /\ IsFiniteSet(unseen) /\ IsFiniteSet(log.dropped)
      /\ Cardinality(unseen) \in Nat /\ Cardinality(log.dropped) \in Nat
      /\ IsFiniteSet(log.dropped \cup unseen)
      /\ Cardinality(log.dropped \cup unseen) = log.lost + Cardinality(unseen)
  <2>1. IsFiniteSet(1..newest)
    BY <1>2, FS_Interval
  <2>2. log.dropped \subseteq 1..newest
    BY <1>2 DEF LogInv, LogOf
  <2>3. IsFiniteSet(unseen) /\ IsFiniteSet(log.dropped)
    BY <1>7, <2>1, <2>2, FS_Subset
  <2>4. Cardinality(unseen) \in Nat /\ Cardinality(log.dropped) \in Nat
    BY <2>3, FS_CardinalityType
  <2>5. Cardinality(unseen \cap log.dropped) = 0
    BY <1>7, FS_EmptySet
  <2>6. IsFiniteSet(log.dropped \cup unseen)
        /\ Cardinality(log.dropped \cup unseen)
             = Cardinality(log.dropped) + Cardinality(unseen)
                 - Cardinality(log.dropped \cap unseen)
    BY <2>3, FS_Union
  <2>7. log.dropped \cap unseen = unseen \cap log.dropped
    OBVIOUS
  <2>8. log.lost = Cardinality(log.dropped)
    BY DEF LogInv
  <2>9. Cardinality(log.dropped \cup unseen) = log.lost + Cardinality(unseen)
    <3> HIDE DEF newest, events, pruned, unseen, after
    <3>1. Cardinality(log.dropped \cap unseen) = 0
      BY <2>5, <2>7
    <3>2. QED BY <2>4, <2>6, <2>8, <3>1
  <2>10. QED BY <2>3, <2>4, <2>6, <2>9
<1>9. /\ after.seq = newest /\ after.kept = events \ pruned
      /\ after.forwarded = log.forwarded \ pruned
      /\ after.lost = log.lost + Cardinality(unseen)
      /\ after.dropped = log.dropped \cup unseen
      /\ after.handed = log.handed /\ after.peeked = log.peeked
      /\ after.consumer = log.consumer
  BY <1>1, <1>2, <1>6 DEF LogOf
<1>10. after \in LogOf
  <2>1. log.lost + Cardinality(unseen) \in Nat
    BY <1>2, <1>8 DEF LogOf
  <2>2. unseen \subseteq Nat /\ events \subseteq Nat
    <3> HIDE DEF newest, events, pruned, unseen, after
    <3>1. 1..newest \subseteq Nat
      BY <1>2
    <3>2. QED BY <1>3, <1>7, <3>1
  <2>3. /\ log.kept \in SUBSET Nat /\ log.forwarded \in SUBSET Nat
        /\ log.dropped \in SUBSET Nat
    BY <1>2 DEF LogOf
  <2>4. /\ events \ pruned \in SUBSET Nat /\ log.forwarded \ pruned \in SUBSET Nat
        /\ log.dropped \cup unseen \in SUBSET Nat
    BY <2>2, <2>3
  <2>5. after = [log EXCEPT !.seq = newest, !.kept = events \ pruned,
                            !.forwarded = log.forwarded \ pruned,
                            !.lost = log.lost + Cardinality(unseen),
                            !.dropped = log.dropped \cup unseen]
    BY <1>1, <1>6
  <2>6. QED
    <3> HIDE DEF newest, events, pruned, unseen, after
    <3>1. QED BY <1>2, <2>1, <2>4, <2>5 DEF LogOf
<1>11. /\ after.kept \cup after.handed \cup after.dropped \subseteq 1..after.seq
       /\ after.peeked <= after.seq
  <2>1. log.handed \cup log.dropped \subseteq 1..log.seq /\ log.peeked <= log.seq
    BY DEF LogInv
  <2>2. log.handed \cup log.dropped \subseteq 1..newest /\ log.peeked <= newest
    BY <1>2, <2>1 DEF LogOf
  <2>3. QED
    <3> HIDE DEF newest, events, pruned, unseen, after
    <3>1. QED BY <1>3, <1>7, <1>9, <2>2
<1>12. Seen(after)
  BY <1>5, <1>9 DEF Seen
<1>13. after.dropped \cap (after.kept \cup after.handed) = {}
  <2>1. log.dropped \cap (log.kept \cup log.handed) = {}
    BY DEF LogInv
  <2>2. log.dropped \cap events = {}
    BY <1>2, <1>4, <2>1 DEF LogInv, LogOf
  <2>3. QED BY <1>9, <2>1, <2>2
<1>14. QED BY <1>8, <1>9, <1>10, <1>11, <1>12, <1>13 DEF LogInv

LEMMA BatchOf ==
  ASSUME NEW log, LogInv(log)
  PROVE  LET batch == Unforwarded(log) IN
         /\ batch \subseteq log.kept \ log.forwarded
         /\ Newest(batch) \in 0..log.seq
         /\ \A i \in batch : i <= Newest(batch)
         /\ \A i \in log.kept \ log.forwarded : i <= Newest(batch) => i \in batch
<1> DEFINE waiting == log.kept \ log.forwarded
           Before(i) == {j \in waiting : j < i}
           batch == Unforwarded(log)
<1>1. batch = {i \in waiting : Cardinality(Before(i)) < Batch} /\ batch \subseteq waiting
  BY DEF Unforwarded
<1>2. waiting \subseteq 1..log.seq /\ log.seq \in Nat
  BY DEF LogInv, LogOf
<1>3. IsFiniteSet(waiting) /\ IsFiniteSet(batch)
  <2>1. IsFiniteSet(1..log.seq)
    <3>1. log.seq \in Int
      BY <1>2
    <3>2. QED BY <3>1, FS_Interval
  <2>2. batch \subseteq 1..log.seq
    BY <1>1, <1>2
  <2>3. QED BY <1>2, <2>1, <2>2, FS_Subset
<1>4. batch = {} => Newest(batch) = 0
  BY DEF Newest
<1>5. batch # {} => Newest(batch) \in batch /\ \A i \in batch : i <= Newest(batch)
  <2>1. batch \in SUBSET Int
    BY <1>1, <1>2
  <2>2. batch # {} => \E m \in batch : \A i \in batch : i <= m
    BY <1>3, <2>1, LargestExists
  <2>3. QED
    <3> HIDE DEF batch
    <3>1. QED BY <2>2 DEF Newest
<1>6. \A i, j \in waiting : i <= j /\ j \in batch => i \in batch
  <2> SUFFICES ASSUME NEW i \in waiting, NEW j \in waiting, i <= j, j \in batch
               PROVE  i \in batch
    OBVIOUS
  <2>1. Before(i) \subseteq Before(j)
    BY <1>2
  <2>2. IsFiniteSet(Before(j)) /\ IsFiniteSet(Before(i))
    BY <1>3, FS_Subset
  <2>3. /\ Cardinality(Before(i)) <= Cardinality(Before(j))
        /\ Cardinality(Before(i)) \in Nat /\ Cardinality(Before(j)) \in Nat
    BY <2>1, <2>2, FS_Subset, FS_CardinalityType
  <2>4. Cardinality(Before(j)) < Batch
    BY <1>1
  <2>5. Cardinality(Before(i)) < Batch
    <3> HIDE DEF Before
    <3>1. QED BY <2>3, <2>4, BatchAssumption
  <2>6. QED BY <1>1, <2>5
<1>7. Newest(batch) \in 0..log.seq
  <2> HIDE DEF batch, waiting
  <2>1. batch # {} => Newest(batch) \in 1..log.seq
    BY <1>1, <1>2, <1>5
  <2>2. QED BY <1>2, <1>4, <2>1
<1>8. \A i \in waiting : i <= Newest(batch) => i \in batch
  <2> HIDE DEF batch, waiting
  <2>1. batch = {} => \A i \in waiting : ~(i <= Newest(batch))
    BY <1>2, <1>4
  <2>2. batch # {} => Newest(batch) \in waiting
    BY <1>1, <1>5
  <2>3. QED BY <1>5, <1>6, <2>1, <2>2
<1>9. \A i \in batch : i <= Newest(batch)
  BY <1>5
<1>10. QED BY <1>1, <1>7, <1>8, <1>9

\* A peek that marks what it returns.
LEMMA MarkKeeps ==
  ASSUME NEW log, LogInv(log)
  PROVE  LET batch == Unforwarded(log)
             after == Marked(log, batch)
         IN  /\ LogInv(after) /\ after.consumer
             /\ after.peeked = Later(log.peeked, Newest(batch))
<1> DEFINE batch == Unforwarded(log)
           after == Marked(log, batch)
           peeked == Later(log.peeked, Newest(batch))
<1>1. /\ batch \subseteq log.kept \ log.forwarded
      /\ Newest(batch) \in 0..log.seq
      /\ \A i \in batch : i <= Newest(batch)
      /\ \A i \in log.kept \ log.forwarded : i <= Newest(batch) => i \in batch
  BY BatchOf
<1> HIDE DEF batch
<1>2. log \in LogOf
  BY DEF LogInv
<1>3. peeked \in Nat /\ peeked <= log.seq /\ peeked >= log.peeked /\ peeked >= Newest(batch)
      /\ peeked \in {log.peeked, Newest(batch)}
  BY <1>1, <1>2 DEF LogInv, LogOf, Later
<1>4. after = [log EXCEPT !.handed = @ \cup batch, !.consumer = TRUE, !.peeked = peeked]
  BY <1>2 DEF Marked, Handed, LogOf
<1> HIDE DEF peeked, after
<1>5. /\ after.seq = log.seq /\ after.kept = log.kept /\ after.forwarded = log.forwarded
      /\ after.lost = log.lost /\ after.dropped = log.dropped
      /\ after.handed = log.handed \cup batch /\ after.peeked = peeked /\ after.consumer
  BY <1>2, <1>4 DEF LogOf
<1>6. after \in LogOf
  <2>1. log.handed \cup batch \in SUBSET Nat
    BY <1>1, <1>2 DEF LogOf
  <2>2. QED BY <1>2, <1>3, <1>4, <2>1 DEF LogOf
<1>7. Seen(after)
  <2> SUFFICES ASSUME NEW i \in log.kept \ log.forwarded
               PROVE  i \in log.handed \cup batch <=> i <= peeked
    BY <1>5 DEF Seen
  <2>1. i \in Nat /\ log.peeked \in Nat /\ Newest(batch) \in Nat
    BY <1>1, <1>2 DEF LogOf
  <2>2. i \in log.handed <=> i <= log.peeked
    BY DEF LogInv, Seen
  <2>3. i \in batch <=> i <= Newest(batch)
    BY <1>1
  <2>4. QED BY <1>3, <2>1, <2>2, <2>3
<1>8. /\ after.kept \cup after.handed \cup after.dropped \subseteq 1..after.seq
      /\ after.forwarded \subseteq after.handed
      /\ after.dropped \cap (after.kept \cup after.handed) = {}
  BY <1>1, <1>5 DEF LogInv
<1>9. after.lost = Cardinality(after.dropped)
  BY <1>5 DEF LogInv
<1>10. LogInv(after)
  BY <1>3, <1>5, <1>6, <1>7, <1>8, <1>9 DEF LogInv
<1>11. QED BY <1>5, <1>10 DEF peeked, after, batch

\* A peek that returns nothing new returns what was handed over before.
LEMMA RepeatKeeps ==
  ASSUME NEW log, LogInv(log), log.consumer, Newest(Unforwarded(log)) <= log.peeked
  PROVE  Handed(log, Unforwarded(log)) = log
<1> DEFINE batch == Unforwarded(log)
<1>1. batch \subseteq log.kept \ log.forwarded /\ Newest(batch) \in 0..log.seq
      /\ \A i \in batch : i <= Newest(batch)
  BY BatchOf
<1>2. log \in LogOf
  BY DEF LogInv
<1>3. batch \subseteq log.handed
  <2> SUFFICES ASSUME NEW i \in batch PROVE i \in log.handed
    OBVIOUS
  <2>1. i <= Newest(batch) /\ i \in log.kept \ log.forwarded
    BY <1>1
  <2>2. i \in Nat /\ Newest(batch) \in Nat /\ log.peeked \in Nat
    BY <1>1, <1>2 DEF LogOf
  <2>3. i <= log.peeked
    <3> HIDE DEF batch
    <3>1. Newest(batch) <= log.peeked
      BY DEF batch
    <3>2. QED BY <2>1, <2>2, <3>1
  <2>4. QED BY <2>1, <2>3 DEF LogInv, Seen
<1>4. log.handed \cup batch = log.handed
  BY <1>3
<1>5. QED BY <1>2, <1>4 DEF Handed, LogOf

\* An acknowledgement of an event that was handed over.
LEMMA AckKeeps ==
  ASSUME NEW log, LogInv(log), NEW i \in log.handed
  PROVE  /\ LogInv(Acknowledged(log, {i}))
         /\ Acknowledged(log, {i}).peeked = log.peeked
         /\ Acknowledged(log, {i}).consumer
<1> DEFINE after == Acknowledged(log, {i})
<1>1. log \in LogOf /\ log.consumer
  BY DEF LogInv
<1>2. after = [log EXCEPT !.consumer = TRUE, !.forwarded = @ \cup ({i} \cap log.kept)]
  BY DEF Acknowledged
<1>3. log.forwarded \cup ({i} \cap log.kept) \in SUBSET Nat
  BY <1>1 DEF LogOf
<1>4. after \in LogOf
  BY <1>1, <1>2, <1>3 DEF LogOf
<1>5. /\ after.seq = log.seq /\ after.kept = log.kept
      /\ after.forwarded = log.forwarded \cup ({i} \cap log.kept)
      /\ after.lost = log.lost /\ after.dropped = log.dropped
      /\ after.handed = log.handed /\ after.peeked = log.peeked /\ after.consumer
  BY <1>1, <1>2 DEF LogOf
<1> HIDE DEF after
<1>6. QED BY <1>4, <1>5 DEF LogInv, Seen, after

LEMMA TapInit == Init => TapInv
<1> SUFFICES ASSUME Init PROVE TapInv
  OBVIOUS
<1>1. Cardinality({}) = 0
  BY FS_EmptySet
<1>2. EmptyLog \in LogOf
  BY DEF EmptyLog, LogOf
<1>3. LogInv(EmptyLog)
  BY <1>1, <1>2 DEF EmptyLog, LogInv, Seen
<1>4. QED BY <1>2, <1>3 DEF Init, TapInv, EmptyLog, Unmarked, Phase

\* The part of TapInv about the declaration an activation serves.
LEMMA Declared ==
  ASSUME TapInv, [Next]_vars
  PROVE  /\ phase' \in [Activations -> Phase]
         /\ decl' \in [Activations -> Declarations \cup {NoDeclaration}]
         /\ \A a \in Activations : phase'[a] # "idle" => decl'[a] \in Declarations
<1>1. ASSUME NEW a \in Activations, NEW d \in Declarations, Activate(a, d)
      PROVE  /\ phase' = [phase EXCEPT ![a] = "opening"]
             /\ decl' = [decl EXCEPT ![a] = d]
  BY <1>1 DEF Activate
<1>2. ASSUME NEW a \in Activations,
             \/ ActivationRejected(a) \/ CheckRows(a) \/ ActivationRefused(a)
             \/ RecordDeclaration(a) \/ CloseActivation(a)
      PROVE  /\ decl' = decl /\ phase[a] # "idle"
             /\ \E p \in {"checked", "live", "closed"} : phase' = [phase EXCEPT ![a] = p]
  BY <1>2 DEF ActivationRejected, CheckRows, ActivationRefused, RecordDeclaration, CloseActivation
<1>3. ASSUME NEW s \in Registrations, TakeLock(s) \/ OpenDatabase(s) \/ OpeningFails(s)
      PROVE  UNCHANGED <<phase, decl>>
  BY <1>3 DEF TakeLock, OpenDatabase, OpeningFails
<1>4. ASSUME NEW p \in Processes, Crash(p)
      PROVE  /\ decl' = decl /\ phase' \in [Activations -> Phase]
             /\ \A a \in Activations : phase[a] = "idle" => phase'[a] = "idle"
  BY <1>4 DEF Crash, TapInv, Phase
<1>5. CASE \E a \in Activations : \E d \in Declarations : Activate(a, d)
  BY <1>1, <1>5 DEF TapInv, Phase
<1>6. CASE \E a \in Activations :
             \/ ActivationRejected(a) \/ CheckRows(a) \/ ActivationRefused(a)
             \/ RecordDeclaration(a) \/ CloseActivation(a)
  BY <1>2, <1>6 DEF TapInv, Phase
<1>7. CASE \E p \in Processes : Crash(p)
  BY <1>4, <1>7 DEF TapInv
<1>8. CASE UNCHANGED <<phase, decl>>
  BY <1>8 DEF TapInv
<1>9. Requests \/ Operator \/ Tap \/ UNCHANGED vars => UNCHANGED <<phase, decl>>
  BY OpenSteps DEF openVars
<1>10. QED BY <1>3, <1>5, <1>6, <1>7, <1>8, <1>9 DEF Next, Opening, Serving

\* A step that leaves the log alone, or records events with no tap beside it.
LEMMA TapRecords ==
  ASSUME TapInv, [Next]_vars, NEW n \in Nat, NEW retention \in Nat \ {0},
         Record(n, retention), consumed' = consumed
  PROVE  TapInv'
<1>1. audit' = Recorded(audit, n, retention)
  BY DEF Record
<1>2. LogInv(audit') /\ audit'.peeked = audit.peeked /\ audit'.consumer = audit.consumer
  BY <1>1, RecordKeeps DEF TapInv
<1>3. QED BY <1>2, Declared DEF TapInv, Unmarked

LEMMA TapStep == TapInv /\ [Next]_vars => TapInv'
<1> SUFFICES ASSUME TapInv, [Next]_vars PROVE TapInv'
  OBVIOUS
<1>1. audit.peeked \in Nat /\ LogInv(audit)
  BY DEF TapInv, LogInv, LogOf
<1>2. CASE UNCHANGED <<audit, consumed>>
  BY <1>2, Declared DEF TapInv, Unmarked
<1>3. Opening \/ Serving => UNCHANGED audit
  BY DEF Opening, Serving, Activate, TakeLock, OpenDatabase, OpeningFails, ActivationRejected,
         CheckRows, ActivationRefused, RecordDeclaration, CloseActivation, Crash
<1>4. Opening \/ Serving =>
        \/ UNCHANGED consumed
        \/ \E s \in Registrations : consumed' = [consumed EXCEPT ![s] = Unmarked]
  BY DEF Opening, Serving, Activate, TakeLock, OpenDatabase, OpeningFails, ActivationRejected,
         CheckRows, ActivationRefused, RecordDeclaration, CloseActivation, Crash, tapVars
<1>5. CASE Opening \/ Serving
  <2>1. audit' = audit
    BY <1>3, <1>5
  <2>2. CASE \E s \in Registrations : consumed' = [consumed EXCEPT ![s] = Unmarked]
    BY <1>1, <2>1, <2>2, Declared DEF TapInv, Unmarked
  <2>3. QED BY <1>2, <1>4, <1>5, <2>1, <2>2
<1>6. CASE Requests
  <2>1. PICK a \in Activations, u \in Principals, k \in Keys \cup {NoKey}, n \in {1, 2} :
          Write(a, u, k, n)
    BY <1>6 DEF Requests, Create, Update, RemoveRecord, Book, Cancel, Transfer
  <2>2. consumed' = consumed /\ phase[a] = "live"
    BY <2>1 DEF Write, tapVars
  <2>3. decl[a] \in Declarations
    BY <2>2 DEF TapInv
  <2>4. decl[a].auditRetention \in Nat \ {0}
    BY <2>3, DeclarationsAssumption
  <2>5. Record(IF decl[a].audit THEN n ELSE 0, decl[a].auditRetention)
    BY <2>1 DEF Write
  <2>6. (IF decl[a].audit THEN n ELSE 0) \in Nat
    OBVIOUS
  <2>7. QED BY <2>2, <2>4, <2>5, <2>6, TapRecords
<1>7. CASE Operator
  <2>1. PICK d \in Declarations, u \in Principals :
          AddMember(d, u) \/ RemoveMember(d, u) \/ \E v \in Principals : Reassign(d, u, v)
    BY <1>7 DEF Operator
  <2>2. consumed' = consumed
    BY <2>1 DEF AddMember, RemoveMember, Reassign, Operates, tapVars
  <2>3. d.auditRetention \in Nat \ {0}
    BY DeclarationsAssumption
  <2>4. \A v \in Principals : ReassignEvents(d, u, v) \in Nat
    <3>1. OwnedIn(rows, u) \subseteq Ids
      BY DEF OwnedIn, StoredIn
    <3>2. Cardinality(OwnedIn(rows, u)) \in Nat
      BY <3>1, IdsAssumption, FS_Subset, FS_CardinalityType
    <3>3. QED BY <3>2 DEF ReassignEvents
  <2>5. \E n \in Nat : Record(n, d.auditRetention)
    BY <2>1, <2>4 DEF AddMember, RemoveMember, Reassign
  <2>6. QED BY <2>2, <2>3, <2>5, TapRecords
<1>8. ASSUME NEW s \in Registrations, PeekRead(s) PROVE TapInv'
  <2>1. consumed' = consumed
    BY <1>8 DEF PeekRead
  <2>2. audit' = audit
    <3>1. CASE audit' = audit
      BY <3>1
    <3>2. CASE /\ consumed[s] # Unmarked /\ ~(Newest(Unforwarded(audit)) > consumed[s])
               /\ audit' = Handed(audit, Unforwarded(audit))
      <4>1. consumed[s] \in Nat /\ consumed[s] <= audit.peeked /\ audit.consumer
        BY <3>2 DEF TapInv
      <4>2. Newest(Unforwarded(audit)) \in Nat
        BY <1>1, BatchOf DEF LogInv, LogOf
      <4>3. Newest(Unforwarded(audit)) <= audit.peeked
        BY <1>1, <3>2, <4>1, <4>2
      <4>4. QED BY <1>1, <3>2, <4>1, <4>3, RepeatKeeps
    <3>3. QED BY <1>8, <3>1, <3>2 DEF PeekRead
  <2>3. QED BY <1>2, <2>1, <2>2
<1>9. ASSUME NEW s \in Registrations, PeekMark(s) PROVE TapInv'
  <2> DEFINE newest == Newest(Unforwarded(audit))
  <2>1. /\ audit' = Marked(audit, Unforwarded(audit))
        /\ consumed' = [consumed EXCEPT ![s] = Later(Later(@, 0), newest)]
    BY <1>9 DEF PeekMark, Remarked
  <2>2. LogInv(audit') /\ audit'.consumer /\ audit'.peeked = Later(audit.peeked, newest)
    BY <1>1, <2>1, MarkKeeps
  <2>3. newest \in Nat
    BY <1>1, BatchOf DEF LogInv, LogOf
  <2> HIDE DEF newest
  <2>4. audit'.peeked \in Nat /\ audit'.peeked >= audit.peeked /\ audit'.peeked >= newest
    BY <1>1, <2>2, <2>3 DEF Later
  <2>5. \A t \in Registrations : consumed[t] \in Nat \cup {-1} /\ consumed[t] <= audit.peeked
    BY DEF TapInv, Unmarked
  <2>6. /\ Later(Later(consumed[s], 0), newest) \in Nat
        /\ Later(Later(consumed[s], 0), newest) <= audit'.peeked
    BY <1>1, <2>3, <2>4, <2>5 DEF Later
  <2>7. consumed' \in [Registrations -> Int]
    BY <2>1, <2>6 DEF TapInv
  <2>8. \A t \in Registrations :
          consumed'[t] \in Nat \cup {-1} /\ consumed'[t] <= audit'.peeked
    BY <1>1, <2>1, <2>4, <2>5, <2>6 DEF TapInv
  <2>9. QED BY <2>2, <2>7, <2>8, Declared DEF TapInv, Unmarked
<1>10. ASSUME NEW s \in Registrations, NEW i \in 1..audit.seq, Ack(s, i) PROVE TapInv'
  <2>1. /\ i \in audit.handed /\ audit' = Acknowledged(audit, {i})
        /\ consumed' = [consumed EXCEPT ![s] = Later(@, 0)]
    BY <1>10 DEF Ack
  <2>2. LogInv(audit') /\ audit'.consumer /\ audit'.peeked = audit.peeked
    BY <1>1, <2>1, AckKeeps
  <2>3. \A t \in Registrations : consumed[t] \in Nat \cup {-1} /\ consumed[t] <= audit.peeked
    BY DEF TapInv, Unmarked
  <2>4. Later(consumed[s], 0) \in Nat /\ Later(consumed[s], 0) <= audit.peeked
    BY <1>1, <2>3 DEF Later
  <2>5. consumed' \in [Registrations -> Int]
    BY <2>1, <2>4 DEF TapInv
  <2>6. \A t \in Registrations :
          consumed'[t] \in Nat \cup {-1} /\ consumed'[t] <= audit'.peeked
    BY <2>1, <2>2, <2>3, <2>4 DEF TapInv
  <2>7. QED BY <2>2, <2>5, <2>6, Declared DEF TapInv, Unmarked
<1>11. CASE Tap
  BY <1>8, <1>9, <1>10, <1>11 DEF Tap
<1>12. UNCHANGED vars => UNCHANGED <<audit, consumed>>
  BY DEF vars, tapVars
<1>13. QED BY <1>2, <1>5, <1>6, <1>7, <1>11, <1>12 DEF Next

\* `lost` is exactly the number of events pruned before a consumer's peek
\* returned them, and no event counted was ever returned.
THEOREM SpecLossExact == Spec => []LossExact
<1>1. TapInv => LossExact
  BY DEF TapInv, LogInv, LossExact
<1>2. QED BY TapInit, TapStep, <1>1, PTL DEF Spec

-----------------------------------------------------------------------------
(* The records                                                              *)

RowsInv == rows \in [Ids -> Row \cup {NoRow}] /\ NoOverlap

\* The intervals of two rows that are both booked overlap.
Clash(p, o) ==
  /\ Constrained(p) /\ Constrained(o)
  /\ p.slot.since < o.slot.until /\ o.slot.since < p.slot.until

LEMMA StoredRows ==
  ASSUME RowsInv, NEW r \in StoredIn(rows)
  PROVE  /\ r \in Ids /\ rows[r] \in Row /\ rows[r].owner \in Principals
         /\ rows[r].slot.since \in Int /\ rows[r].slot.until \in Int
         /\ rows[r].slot.since < rows[r].slot.until
BY SlotsAssumption DEF RowsInv, StoredIn, Row

LEMMA Pairwise ==
  ASSUME NEW table, NEW owners,
         \A r, o \in StoredIn(table) :
           r # o /\ table[r].owner = table[o].owner /\ table[r].owner \in owners
             => ~Clash(table[r], table[o])
  PROVE  ~Overlapping(table, owners)
BY DEF Overlapping, OwnedIn, Clash

LEMMA Apart ==
  ASSUME NEW table, NEW owners, ~Overlapping(table, owners),
         NEW r \in StoredIn(table), NEW o \in StoredIn(table), r # o,
         table[r].owner = table[o].owner, table[r].owner \in owners
  PROVE  ~Clash(table[r], table[o])
BY DEF Overlapping, OwnedIn, Clash

\* The one neighbour that fits looks at is enough: as the stored intervals of
\* an owner do not overlap, the one that starts last also ends last.
LEMMA FitsSuffices ==
  ASSUME RowsInv, NEW r, NEW row \in Row, Fits(r, row),
         NEW o \in StoredIn(rows), o # r, rows[o].owner = row.owner
  PROVE  ~Clash(row, rows[o])
<1> SUFFICES ASSUME Clash(row, rows[o]) PROVE FALSE
  OBVIOUS
<1> DEFINE earlier == Earlier(r, row)
<1>1. o \in earlier /\ Constrained(row)
  BY DEF Earlier, OwnedIn, Clash
<1>2. earlier \subseteq StoredIn(rows) /\ earlier \subseteq Ids
  BY DEF Earlier, OwnedIn, StoredIn
<1>3. IsFiniteSet(earlier)
  BY <1>2, IdsAssumption, FS_Subset
<1>4. \A e \in earlier : /\ rows[e].slot.since \in Int /\ rows[e].slot.until \in Int
                          /\ rows[e].slot.since < rows[e].slot.until
                          /\ rows[e].owner = row.owner /\ Constrained(rows[e])
  BY <1>2, StoredRows DEF Earlier, OwnedIn
<1>5. row.slot.since \in Int /\ row.owner \in Principals
  BY SlotsAssumption DEF Row
<1>6. PICK last \in earlier : \A e \in earlier : rows[e].slot.since <= rows[last].slot.since
  <2> DEFINE key == [e \in earlier |-> rows[e].slot.since]
  <2>1. key \in [earlier -> Int]
    BY <1>4
  <2>2. \E m \in earlier : \A e \in earlier : key[e] <= key[m]
    <3> HIDE DEF key
    <3>1. QED BY <1>1, <1>3, <2>1, LatestExists
  <2>3. QED BY <2>2
<1>7. rows[last].slot.until <= row.slot.since
  BY <1>1, <1>6 DEF Fits
<1>8. row.slot.since < rows[o].slot.until /\ rows[o].slot.since <= rows[last].slot.since
  BY <1>1, <1>6 DEF Clash
<1>9. o # last
  BY <1>1, <1>4, <1>5, <1>7, <1>8
<1>10. Clash(rows[o], rows[last])
  <2>1. rows[last].slot.since < rows[o].slot.until /\ rows[o].slot.since < rows[last].slot.until
    BY <1>1, <1>4, <1>5, <1>7, <1>8
  <2>2. QED BY <1>1, <1>4, <2>1 DEF Clash
<1>11. rows[o].owner = rows[last].owner /\ rows[o].owner \in Principals
  BY <1>1, <1>4, <1>5
<1>12. QED BY <1>1, <1>2, <1>9, <1>10, <1>11, Apart DEF RowsInv, NoOverlap

\* A write of one row that fits.
LEMMA ReplaceKeeps ==
  ASSUME RowsInv, NEW r \in Ids, NEW row \in Row, Fits(r, row), Replace(r, row)
  PROVE  RowsInv'
<1>1. rows' = [rows EXCEPT ![r] = row] /\ rows' \in [Ids -> Row \cup {NoRow}]
  BY DEF Replace, RowsInv
<1>2. \A o \in StoredIn(rows') \ {r} : o \in StoredIn(rows) /\ rows'[o] = rows[o]
  BY <1>1 DEF RowsInv, StoredIn
<1>3. rows'[r] = row
  BY <1>1 DEF RowsInv
<1>4. ASSUME NEW p \in StoredIn(rows'), NEW o \in StoredIn(rows'), p # o,
             rows'[p].owner = rows'[o].owner, rows'[p].owner \in Principals
      PROVE  ~Clash(rows'[p], rows'[o])
  <2>1. CASE p = r
    BY <1>2, <1>3, <1>4, <2>1, FitsSuffices
  <2>2. CASE o = r
    <3>1. ~Clash(rows'[o], rows'[p])
      BY <1>2, <1>3, <1>4, <2>2, FitsSuffices
    <3>2. QED BY <3>1 DEF Clash
  <2>3. CASE p # r /\ o # r
    BY <1>2, <1>4, <2>3, Apart DEF RowsInv, NoOverlap
  <2>4. QED BY <2>1, <2>2, <2>3
<1>5. ~Overlapping(rows', Principals)
  BY <1>4, Pairwise
<1>6. QED BY <1>1, <1>5 DEF RowsInv, NoOverlap

\* A draft always fits.
LEMMA DraftFits ==
  ASSUME NEW r, NEW row, row.status = "draft"
  PROVE  Fits(r, row)
BY DEF Fits, Constrained

\* Rows that keep their owners, intervals and statuses keep apart.
LEMMA MovedCredits ==
  ASSUME RowsInv, rows' \in [Ids -> Row \cup {NoRow}],
         \A r \in StoredIn(rows') :
           /\ r \in StoredIn(rows) /\ rows'[r].owner = rows[r].owner
           /\ rows'[r].slot = rows[r].slot /\ rows'[r].status = rows[r].status
  PROVE  RowsInv'
<1>1. ASSUME NEW p \in StoredIn(rows'), NEW o \in StoredIn(rows'), p # o,
             rows'[p].owner = rows'[o].owner, rows'[p].owner \in Principals
      PROVE  ~Clash(rows'[p], rows'[o])
  <2>1. ~Clash(rows[p], rows[o])
    BY <1>1, Apart DEF RowsInv, NoOverlap
  <2>2. QED BY <1>1, <2>1 DEF Clash, Constrained
<1>2. ~Overlapping(rows', Principals)
  BY <1>1, Pairwise
<1>3. QED BY <1>2 DEF RowsInv, NoOverlap

LEMMA RowsCreate ==
  ASSUME RowsInv, NEW d, NEW u \in Principals, NEW r \in Ids, NEW slot \in Slots,
         createIn(d, u, r, slot)
  PROVE  RowsInv'
<1> DEFINE row == [owner |-> u, balance |-> 0, slot |-> slot, status |-> "draft"]
<1>1. row \in Row
  BY SlotsAssumption DEF Row
<1>2. Fits(r, row) /\ Replace(r, row)
  BY DEF createIn
<1>3. QED BY <1>1, <1>2, ReplaceKeeps

LEMMA RowsUpdate ==
  ASSUME RowsInv, NEW u \in Principals, NEW r \in Ids, NEW slot \in Slots,
         updateIn(u, r, slot)
  PROVE  RowsInv'
<1> DEFINE row == [rows[r] EXCEPT !.slot = slot]
<1>1. r \in StoredIn(rows)
  BY DEF updateIn, InScope, OwnedIn
<1>2. row \in Row
  BY <1>1, StoredRows DEF Row
<1>3. Fits(r, row) /\ Replace(r, row)
  BY DEF updateIn
<1>4. QED BY <1>2, <1>3, ReplaceKeeps

LEMMA RowsRemove ==
  ASSUME RowsInv, NEW u, NEW r \in Ids, removeIn(u, r)
  PROVE  RowsInv'
<1>1. rows' = [rows EXCEPT ![r] = NoRow]
  BY DEF removeIn, Replace
<1>2. rows' \in [Ids -> Row \cup {NoRow}]
  BY <1>1 DEF RowsInv
<1>3. \A o \in StoredIn(rows') : o \in StoredIn(rows) /\ rows'[o] = rows[o]
  BY <1>1 DEF RowsInv, StoredIn
<1>4. QED BY <1>2, <1>3, MovedCredits

LEMMA RowsTransitions ==
  ASSUME RowsInv, NEW u, NEW r \in Ids, bookIn(u, r) \/ cancelIn(u, r)
  PROVE  RowsInv'
<1>1. r \in StoredIn(rows)
  BY DEF bookIn, cancelIn, InScope, OwnedIn
<1>2. PICK status \in {"draft", "booked"} :
        LET row == [rows[r] EXCEPT !.status = status] IN
        Replace(r, row) /\ (status = "draft" \/ Fits(r, row))
  BY DEF bookIn, cancelIn
<1> DEFINE row == [rows[r] EXCEPT !.status = status]
<1>3. row \in Row /\ row.status = status
  BY <1>1, StoredRows DEF Row
<1>4. Fits(r, row)
  <2> HIDE DEF row
  <2>1. QED BY <1>2, <1>3, DraftFits DEF row
<1>5. QED BY <1>2, <1>3, <1>4, ReplaceKeeps

LEMMA RowsTransfer ==
  ASSUME RowsInv, NEW d, NEW u, NEW t, NEW from \in Ids, NEW to \in Ids,
         NEW amount \in Amounts, transferIn(d, u, t, from, to, amount)
  PROVE  RowsInv'
<1>1. /\ from \in StoredIn(rows) /\ to \in StoredIn(rows) /\ from # to
      /\ rows' = [rows EXCEPT ![from].balance = @ - amount,
                              ![to].balance = @ + amount]
  BY DEF transferIn, InScope, OwnedIn
<1>2. amount \in Int
  BY AmountsAssumption
<1>3. rows[from] \in Row /\ rows[to] \in Row
  BY <1>1, StoredRows
<1>4. /\ rows'[from] = [rows[from] EXCEPT !.balance = @ - amount]
      /\ rows'[to] = [rows[to] EXCEPT !.balance = @ + amount]
      /\ \A o \in Ids \ {from, to} : rows'[o] = rows[o]
      /\ DOMAIN rows' = Ids
  BY <1>1 DEF RowsInv
<1>5. /\ rows'[from] \in Row /\ rows'[to] \in Row
      /\ \A o \in {from, to} : /\ rows'[o].owner = rows[o].owner
                                /\ rows'[o].slot = rows[o].slot
                                /\ rows'[o].status = rows[o].status
  BY <1>2, <1>3, <1>4 DEF Row
<1>6. rows' \in [Ids -> Row \cup {NoRow}]
  <2>1. \A o \in Ids : rows'[o] \in Row \cup {NoRow}
    BY <1>4, <1>5 DEF RowsInv
  <2>2. rows' = [o \in Ids |-> rows'[o]]
    BY <1>1 DEF RowsInv
  <2>3. QED BY <2>1, <2>2
<1>7. \A o \in StoredIn(rows') :
        /\ o \in StoredIn(rows) /\ rows'[o].owner = rows[o].owner
        /\ rows'[o].slot = rows[o].slot /\ rows'[o].status = rows[o].status
  BY <1>1, <1>4, <1>5 DEF StoredIn
<1>8. QED BY <1>6, <1>7, MovedCredits

\* A move gives v what u owned: v's intervals are scanned, the others' stay.
LEMMA RowsReassign ==
  ASSUME RowsInv, NEW d, NEW u \in Principals, NEW v \in Principals,
         reassignOwner(d, u, v)
  PROVE  RowsInv'
<1>1. rows' = Moved(u, v) /\ u # v
  BY DEF reassignOwner
<1>2. CASE OwnedIn(rows, u) = {}
  <2>1. rows' = [r \in Ids |-> rows[r]]
    BY <1>1, <1>2 DEF Moved, InScope
  <2>2. rows' = rows
    BY <2>1 DEF RowsInv
  <2>3. QED BY <2>2 DEF RowsInv, NoOverlap
<1>3. CASE OwnedIn(rows, u) # {}
  <2>1. ~Overlapping(rows', {v})
    BY <1>1, <1>3 DEF reassignOwner
  <2>2. rows' \in [Ids -> Row \cup {NoRow}]
    BY <1>1 DEF RowsInv, Moved, InScope, OwnedIn, StoredIn, Row
  <2>3. \A r \in StoredIn(rows') : rows'[r].owner # v =>
          r \in StoredIn(rows) /\ rows'[r] = rows[r]
    BY <1>1, StoredRows DEF Moved, InScope, OwnedIn, StoredIn, Row
  <2>4. ASSUME NEW p \in StoredIn(rows'), NEW o \in StoredIn(rows'), p # o,
               rows'[p].owner = rows'[o].owner, rows'[p].owner \in Principals
        PROVE  ~Clash(rows'[p], rows'[o])
    <3>1. CASE rows'[p].owner = v
      BY <2>1, <2>4, <3>1, Apart
    <3>2. CASE rows'[p].owner # v
      BY <2>3, <2>4, <3>2, Apart DEF RowsInv, NoOverlap
    <3>3. QED BY <3>1, <3>2
  <2>5. ~Overlapping(rows', Principals)
    BY <2>4, Pairwise
  <2>6. QED BY <2>2, <2>5 DEF RowsInv, NoOverlap
<1>4. QED BY <1>2, <1>3

LEMMA RowsInit == Init => RowsInv
<1> SUFFICES ASSUME Init PROVE RowsInv
  OBVIOUS
<1>1. rows = [r \in Ids |-> NoRow]
  BY DEF Init, CollectionInit
<1>2. QED BY <1>1 DEF RowsInv, NoOverlap, Overlapping, OwnedIn, StoredIn

LEMMA RowsStep == RowsInv /\ [Next]_vars => RowsInv'
<1> SUFFICES ASSUME RowsInv, [Next]_vars PROVE RowsInv'
  OBVIOUS
<1>1. CASE Requests
  BY <1>1, RowsCreate, RowsUpdate, RowsRemove, RowsTransitions, RowsTransfer
     DEF Requests, Create, Update, RemoveRecord, Book, Cancel, Transfer
<1>2. CASE Operator
  <2>1. PICK d \in Declarations, u \in Principals :
          AddMember(d, u) \/ RemoveMember(d, u) \/ \E v \in Principals : Reassign(d, u, v)
    BY <1>2 DEF Operator
  <2>2. AddMember(d, u) \/ RemoveMember(d, u) => UNCHANGED rows
    BY DEF AddMember, RemoveMember
  <2>3. UNCHANGED rows => RowsInv'
    BY DEF RowsInv, NoOverlap
  <2>4. QED BY <2>1, <2>2, <2>3, RowsReassign DEF Reassign
<1>3. Opening \/ Serving \/ Tap \/ UNCHANGED vars => UNCHANGED rows
  BY DEF Opening, Serving, Tap, Activate, TakeLock, OpenDatabase, OpeningFails,
         ActivationRejected, CheckRows, ActivationRefused, RecordDeclaration,
         CloseActivation, Crash, PeekRead, PeekMark, Ack, vars, collectionVars
<1>4. UNCHANGED rows => RowsInv'
  BY DEF RowsInv, NoOverlap
<1>5. QED BY <1>1, <1>2, <1>3, <1>4 DEF Next

\* No principal ever holds two booked records whose intervals overlap.
THEOREM SpecNoOverlap == Spec => []NoOverlap
<1>1. RowsInv => NoOverlap
  BY DEF RowsInv
<1>2. QED BY RowsInit, RowsStep, <1>1, PTL DEF Spec

-----------------------------------------------------------------------------
(* The types                                                                *)

\* What no other invariant types; every live activation serves a declaration.
ServeInv ==
  /\ live \in [Registrations -> Seq(Activations)]
  /\ \A s \in Registrations : \A a \in ToSet(live[s]) : decl[a] \in Declarations
  /\ recorded \in Declarations \cup {NoDeclaration}
  /\ holder \in Processes \cup {NoProcess}
  /\ members \subseteq Principals

\* The activations of a registration change by one at a time.
LEMMA LiveKept ==
  ASSUME TapInv, ServeInv, [Next]_vars
  PROVE  /\ \A s \in Registrations : ToSet(live[s]) \subseteq Activations
         /\ \A a \in Activations : decl[a] \in Declarations => decl'[a] \in Declarations
<1>1. \A s \in Registrations : ToSet(live[s]) \subseteq Activations
  BY SetOfSeq DEF ServeInv
<1>2. UNCHANGED decl \/ \E a \in Activations, d \in Declarations : Activate(a, d)
  <2>1. Opening => UNCHANGED decl \/ \E a \in Activations, d \in Declarations : Activate(a, d)
    BY DEF Opening, TakeLock, OpenDatabase, OpeningFails, ActivationRejected
  <2>2. Serving => UNCHANGED decl
    BY DEF Serving, CheckRows, ActivationRefused, RecordDeclaration, CloseActivation, Crash
  <2>3. Requests \/ Operator \/ Tap \/ UNCHANGED vars => UNCHANGED decl
    BY OpenSteps DEF openVars
  <2>4. QED BY <2>1, <2>2, <2>3 DEF Next
<1>3. QED BY <1>1, <1>2 DEF Activate, TapInv

LEMMA ServeInit == Init => ServeInv
<1>1. ToSet(<<>>) = {} /\ <<>> \in Seq(Activations)
  BY EmptyDistinct, EmptySeq
<1>2. QED BY <1>1 DEF Init, CollectionInit, ServeInv

\* Whoever takes the lock is a process, and whoever gives it back leaves it
\* with its holder or with nobody.
LEMMA HolderType ==
  ASSUME ServeInv, [Next]_vars
  PROVE  holder' \in Processes \cup {NoProcess}
<1>1. Opening => holder' \in {holder, NoProcess} \cup Processes
  BY PlacesAssumption
     DEF Opening, Activate, TakeLock, OpenDatabase, OpeningFails, ActivationRejected, ReleaseLock
<1>2. Serving => holder' \in {holder, NoProcess}
  BY DEF Serving, CheckRows, ActivationRefused, RecordDeclaration, CloseActivation, Crash,
         Release, ReleaseLock
<1>3. Requests \/ Operator \/ Tap \/ UNCHANGED vars => holder' = holder
  BY OpenSteps DEF openVars
<1>4. QED BY <1>1, <1>2, <1>3 DEF Next, ServeInv

LEMMA ServeStep == TapInv /\ ServeInv /\ [Next]_vars => ServeInv'
<1> SUFFICES ASSUME TapInv, ServeInv, [Next]_vars PROVE ServeInv'
  OBVIOUS
<1>0. holder' \in Processes \cup {NoProcess}
  BY HolderType
<1>1. /\ \A s \in Registrations : ToSet(live[s]) \subseteq Activations
      /\ \A a \in Activations : decl[a] \in Declarations => decl'[a] \in Declarations
  BY LiveKept
<1>2. CASE UNCHANGED <<live, recorded, members>>
  BY <1>0, <1>1, <1>2 DEF ServeInv
<1>3. ASSUME NEW a \in Activations, RecordDeclaration(a)
      PROVE  ServeInv'
  <2>1. PICK s \in Registrations : s = StoreOf[a]
    BY PlacesAssumption
  <2>2. /\ live' = [live EXCEPT ![s] = Append(live[s], a)] /\ recorded' = decl[a]
        /\ phase[a] = "checked" /\ UNCHANGED <<decl, members>>
    BY <1>3, <2>1 DEF RecordDeclaration, collectionVars
  <2>3. decl[a] \in Declarations
    BY <2>2 DEF TapInv
  <2>4. /\ Append(live[s], a) \in Seq(Activations)
        /\ ToSet(Append(live[s], a)) = ToSet(live[s]) \cup {a}
    BY DistinctAppend DEF ServeInv
  <2>5. QED BY <1>0, <2>2, <2>3, <2>4 DEF ServeInv
<1>4. ASSUME NEW a \in Activations, CloseActivation(a)
      PROVE  ServeInv'
  <2>1. PICK s \in Registrations : s = StoreOf[a]
    BY PlacesAssumption
  <2>2. /\ live' = [live EXCEPT ![s] = Without(live[s], a)]
        /\ recorded' = Rerecorded(a, live[s]) /\ UNCHANGED <<decl, members>>
    BY <1>4, <2>1 DEF CloseActivation, collectionVars
  <2>3. PICK rest \in Seq(Activations) : rest = Without(live[s], a)
    BY WithoutKeeps DEF ServeInv
  <2>4. ToSet(rest) \subseteq ToSet(live[s])
    BY <2>3, WithoutKeeps DEF ServeInv
  <2>5. rest # <<>> => decl[Last(rest)] \in Declarations
    <3>1. Len(rest) \in Nat /\ (rest # <<>> => Len(rest) # 0)
      BY LenProperties, EmptySeq
    <3>2. rest # <<>> => Last(rest) \in ToSet(rest)
      BY <3>1, SetOfSeq DEF Last
    <3>3. QED BY <2>4, <3>2 DEF ServeInv
  <2>6. recorded' \in Declarations \cup {NoDeclaration}
    BY <2>2, <2>3, <2>5 DEF Rerecorded, ServeInv
  <2>7. QED BY <1>0, <2>2, <2>3, <2>4, <2>6 DEF ServeInv
<1>5. ASSUME NEW p \in Processes, Crash(p)
      PROVE  ServeInv'
  <2>1. /\ live' = [s \in Registrations |-> IF ProcessOf[s] = p THEN <<>> ELSE live[s]]
        /\ UNCHANGED <<decl, recorded, members>>
    BY <1>5 DEF Crash, collectionVars
  <2>2. ToSet(<<>>) = {} /\ <<>> \in Seq(Activations)
    BY EmptyDistinct, EmptySeq
  <2>3. QED BY <1>0, <2>1, <2>2 DEF ServeInv
<1>6. CASE Operator
  <2>1. UNCHANGED <<live, decl, recorded>>
    BY <1>6 DEF Operator, AddMember, RemoveMember, Reassign, Operates, openVars
  <2>2. members' \subseteq Principals
    BY <1>6 DEF Operator, AddMember, RemoveMember, Reassign, reassignOwner, ServeInv
  <2>3. QED BY <1>0, <2>1, <2>2 DEF ServeInv
<1>7. Opening \/ Requests \/ Tap \/ UNCHANGED vars => UNCHANGED <<live, recorded, members>>
  <2>1. Opening => UNCHANGED <<live, recorded, members>>
    BY DEF Opening, Activate, TakeLock, OpenDatabase, OpeningFails, ActivationRejected,
           collectionVars
  <2>2. \A a, u, k, n : Write(a, u, k, n) => UNCHANGED <<live, recorded, members>>
    BY DEF Write, openVars
  <2>3. Requests => UNCHANGED <<live, recorded, members>>
    BY <2>2 DEF Requests, Create, Update, RemoveRecord, Book, Cancel, Transfer
  <2>4. Tap => UNCHANGED <<live, recorded, members>>
    BY DEF Tap, PeekRead, PeekMark, Ack, openVars, collectionVars
  <2>5. QED BY <2>1, <2>3, <2>4 DEF vars, openVars, collectionVars
<1>8. \A a \in Activations :
        CheckRows(a) \/ ActivationRefused(a) => UNCHANGED <<live, recorded, members>>
  BY DEF CheckRows, ActivationRefused, collectionVars
<1>9. QED BY <1>2, <1>3, <1>4, <1>5, <1>6, <1>7, <1>8 DEF Next, Serving

\* The state of the store has its types in every reachable state.
THEOREM SpecTypeOK == Spec => []TypeOK
<1>1. LockInv /\ TapInv /\ RowsInv /\ ServeInv => TypeOK
  BY DEF LockInv, TapInv, LogInv, LogOf, RowsInv, ServeInv, TypeOK
<1>2. QED
  BY LockInit, LockStep, TapInit, TapStep, RowsInit, RowsStep, ServeInit, ServeStep, <1>1,
     PTL DEF Spec

-----------------------------------------------------------------------------
(* The Idempotency-Keys                                                     *)

Claim == Principals \X Keys

\* The retained claims are the newest of the writes committed under a key, and
\* a write whose claim was dropped has the retention of a declaration behind it.
RetryInv ==
  /\ claims \in Seq(Claim) /\ applied \in Seq(Claim)
  /\ Len(claims) <= Len(applied)
  /\ \A i \in 1..Len(claims) : claims[i] = applied[Len(applied) - Len(claims) + i]
  /\ \A i \in 1..(Len(applied) - Len(claims)) :
       \E d \in Declarations : Len(applied) - i >= d.maxKeys
  /\ RetryWindow

LEMMA NewestAre ==
  ASSUME NEW S, NEW s \in Seq(S), NEW n \in Nat
  PROVE  LET t == NewestClaims(s, n) IN
         /\ t \in Seq(S)
         /\ Len(t) = IF Len(s) <= n THEN Len(s) ELSE n
         /\ \A i \in 1..Len(t) : t[i] = s[Len(s) - Len(t) + i]
<1> DEFINE t == NewestClaims(s, n)
           first == Len(s) - n + 1
<1>1. Len(s) \in Nat /\ \A i \in 1..Len(s) : s[i] \in S
  BY LenProperties
<1>2. CASE Len(s) <= n
  <2>1. t = s
    BY <1>2 DEF NewestClaims
  <2>2. QED BY <1>1, <1>2, <2>1
<1>3. CASE Len(s) > n
  <2>1. t = SubSeq(s, first, Len(s))
    BY <1>1, <1>3 DEF NewestClaims
  <2>2. first \in 1..(Len(s) + 1) /\ first \in Int /\ Len(s) \in Int
    BY <1>1, <1>3
  <2>3. /\ SubSeq(s, first, Len(s)) \in Seq(S)
        /\ Len(SubSeq(s, first, Len(s)))
             = IF first <= Len(s) THEN Len(s) - first + 1 ELSE 0
        /\ \A i \in 1..(Len(s) - first + 1) :
             SubSeq(s, first, Len(s))[i] = s[first + i - 1]
    <3>1. \A i \in first..Len(s) : s[i] \in S
      BY <1>1, <2>2
    <3> HIDE DEF first
    <3>2. QED BY <2>2, <3>1, SubSeqProperties
  <2>4. Len(t) = n
    BY <1>1, <1>3, <2>1, <2>3
  <2>5. \A i \in 1..n : t[i] = s[Len(s) - n + i]
    <3> HIDE DEF t
    <3>1. \A i \in 1..n : t[i] = s[first + i - 1]
      BY <1>1, <1>3, <2>1, <2>3
    <3>2. \A i \in 1..n : first + i - 1 = Len(s) - n + i
      BY <1>1
    <3>3. QED BY <3>1, <3>2
  <2>6. QED BY <1>1, <1>3, <2>1, <2>3, <2>4, <2>5
<1>4. QED BY <1>1, <1>2, <1>3

\* A write under a key that no retained claim has.
LEMMA RetryWrites ==
  ASSUME RetryInv, NEW d \in Declarations, NEW u \in Principals, NEW k \in Keys,
         idempotent(d, u, k)
  PROVE  RetryInv'
<1> DEFINE claim == <<u, k>>
           with == Append(claims, claim)
           N == Len(applied)
           M == Len(claims)
<1>1. /\ claim \in Claim /\ claim \notin ToSet(claims)
      /\ claims' = NewestClaims(with, d.maxKeys) /\ applied' = Append(applied, claim)
  BY NoKeyAssumption DEF idempotent, Claim
<1>2. d.maxKeys \in Nat \ {0}
  BY DeclarationsAssumption
<1>3. N \in Nat /\ M \in Nat /\ M <= N
  BY LenProperties DEF RetryInv
<1>4. /\ applied' \in Seq(Claim) /\ Len(applied') = N + 1
      /\ \A i \in 1..N : applied'[i] = applied[i]
      /\ applied'[N + 1] = claim
  BY <1>1, AppendProperties, LenProperties DEF RetryInv
<1>5. /\ with \in Seq(Claim) /\ Len(with) = M + 1
      /\ \A i \in 1..M : with[i] = claims[i]
      /\ with[M + 1] = claim
  BY <1>1, AppendProperties, LenProperties DEF RetryInv
<1>6. \A i \in 1..(M + 1) : with[i] = applied'[N - M + i]
  <2>1. \A i \in 1..M : claims[i] = applied[N - M + i]
    BY DEF RetryInv
  <2> HIDE DEF with, claim, N, M
  <2>2. \A i \in 1..M : N - M + i \in 1..N
    BY <1>3
  <2>3. N - M + (M + 1) = N + 1
    BY <1>3
  <2>4. \A i \in 1..M : with[i] = applied'[N - M + i]
    BY <1>4, <1>5, <2>1, <2>2
  <2>5. \A i \in 1..(M + 1) : i \in 1..M \/ i = M + 1
    BY <1>3
  <2>6. QED BY <1>4, <1>5, <2>3, <2>4, <2>5
<1>7. \A i \in 1..N : applied[i] = claim =>
        \E e \in Declarations : N - i >= e.maxKeys
  <2> SUFFICES ASSUME NEW i \in 1..N, applied[i] = claim
               PROVE  \E e \in Declarations : N - i >= e.maxKeys
    OBVIOUS
  <2>1. ASSUME i > N - M PROVE FALSE
    <3>1. i - (N - M) \in 1..M /\ N - M + (i - (N - M)) = i
      BY <1>3, <2>1
    <3>2. claims[i - (N - M)] = claim
      BY <3>1 DEF RetryInv
    <3>3. claim \in ToSet(claims)
      BY <3>1, <3>2, SetOfSeq DEF RetryInv
    <3>4. QED BY <1>1, <3>3
  <2>2. i \in 1..(N - M)
    BY <1>3, <2>1
  <2>3. QED BY <2>2 DEF RetryInv
<1>8. RetryWindow'
  <2> SUFFICES ASSUME NEW i \in 1..Len(applied'), NEW j \in 1..Len(applied'),
                      i < j, applied'[i] = applied'[j]
               PROVE  \E e \in Declarations : j - i > e.maxKeys
    BY DEF RetryWindow
  <2>1. CASE j <= N
    <3>1. i \in 1..N /\ j \in 1..N /\ applied[i] = applied[j]
      BY <1>3, <1>4, <2>1
    <3>2. QED BY <3>1 DEF RetryInv, RetryWindow
  <2>2. CASE j = N + 1
    <3>1. i \in 1..N /\ applied[i] = claim
      BY <1>3, <1>4, <2>2
    <3>2. PICK e \in Declarations : N - i >= e.maxKeys
      BY <1>7, <3>1
    <3>3. e.maxKeys \in Nat
      BY DeclarationsAssumption
    <3>4. j - i > e.maxKeys
      BY <1>3, <2>2, <3>1, <3>2, <3>3
    <3>5. QED BY <3>4
  <2>3. j <= N \/ j = N + 1
    BY <1>3, <1>4
  <2>4. QED BY <2>1, <2>2, <2>3
<1> HIDE DEF with, N, M, claim
<1>9. /\ claims' \in Seq(Claim)
      /\ Len(claims') = IF M + 1 <= d.maxKeys THEN M + 1 ELSE d.maxKeys
      /\ \A i \in 1..Len(claims') : claims'[i] = with[M + 1 - Len(claims') + i]
  <2>1. PICK m \in Nat : m = d.maxKeys
    BY <1>2
  <2>2. PICK s \in Seq(Claim) : s = with
    BY <1>5
  <2>3. /\ NewestClaims(s, m) \in Seq(Claim)
        /\ Len(NewestClaims(s, m)) = IF Len(s) <= m THEN Len(s) ELSE m
        /\ \A i \in 1..Len(NewestClaims(s, m)) :
             NewestClaims(s, m)[i] = s[Len(s) - Len(NewestClaims(s, m)) + i]
    BY NewestAre
  <2>4. claims' = NewestClaims(s, m) /\ Len(s) = M + 1
    BY <1>1, <1>5, <2>1, <2>2
  <2>5. PICK t \in Seq(Claim) : t = NewestClaims(s, m)
    BY <2>3
  <2>6. /\ Len(t) = IF M + 1 <= m THEN M + 1 ELSE m
        /\ \A i \in 1..Len(t) : t[i] = s[M + 1 - Len(t) + i]
    <3>1. Len(t) = IF Len(s) <= m THEN Len(s) ELSE m
      BY <2>3, <2>5
    <3>2. \A i \in 1..Len(t) : t[i] = s[Len(s) - Len(t) + i]
      BY <2>3, <2>5
    <3>3. Len(t) = IF M + 1 <= m THEN M + 1 ELSE m
      BY <2>4, <3>1
    <3>4. Len(t) \in Nat
      BY LenProperties
    <3>5. \A i \in 1..Len(t) : t[i] = s[M + 1 - Len(t) + i]
      BY <2>4, <3>2, <3>4, <1>3
    <3>6. QED BY <3>3, <3>5
  <2>7. claims' = t
    BY <2>4, <2>5
  <2>8. QED BY <2>1, <2>2, <2>6, <2>7
<1>10. Len(claims') \in 1..(M + 1)
  BY <1>2, <1>3, <1>9
<1>11. Len(claims') <= Len(applied')
  BY <1>3, <1>4, <1>10
<1>12. ASSUME NEW i \in 1..Len(claims')
       PROVE  claims'[i] = applied'[Len(applied') - Len(claims') + i]
  <2>1. /\ M + 1 - Len(claims') + i \in 1..(M + 1)
        /\ N - M + (M + 1 - Len(claims') + i) = Len(applied') - Len(claims') + i
    BY <1>3, <1>4, <1>10
  <2>2. QED BY <1>6, <1>9, <2>1
<1>13. ASSUME NEW i \in 1..(Len(applied') - Len(claims'))
       PROVE  \E e \in Declarations : Len(applied') - i >= e.maxKeys
  <2>1. CASE Len(claims') = d.maxKeys
    <3>1. Len(applied') - i >= d.maxKeys
      BY <1>3, <1>4, <1>10, <2>1
    <3>2. QED BY <3>1
  <2>2. CASE Len(claims') = M + 1
    <3>1. i \in 1..(N - M)
      BY <1>3, <1>4, <2>2
    <3>2. PICK e \in Declarations : N - i >= e.maxKeys
      BY <3>1 DEF RetryInv, N, M
    <3>3. e.maxKeys \in Nat
      BY DeclarationsAssumption
    <3>4. Len(applied') - i >= e.maxKeys
      BY <1>3, <1>4, <3>1, <3>2, <3>3
    <3>5. QED BY <3>4
  <2>3. QED BY <1>9, <2>1, <2>2
<1>14. QED BY <1>4, <1>8, <1>9, <1>11, <1>12, <1>13 DEF RetryInv

LEMMA RetryInit == Init => RetryInv
<1> SUFFICES ASSUME Init PROVE RetryInv
  OBVIOUS
<1>1. claims = <<>> /\ applied = <<>>
  BY DEF Init, CollectionInit
<1>2. <<>> \in Seq(Claim) /\ Len(<<>>) = 0
  BY EmptySeq
<1>3. QED BY <1>1, <1>2 DEF RetryInv, RetryWindow

LEMMA RetryStep == TapInv /\ RetryInv /\ [Next]_vars => RetryInv'
<1> SUFFICES ASSUME TapInv, RetryInv, [Next]_vars PROVE RetryInv'
  OBVIOUS
<1>1. CASE UNCHANGED <<claims, applied>>
  BY <1>1 DEF RetryInv, RetryWindow
<1>2. Opening \/ Serving \/ Operator \/ Tap \/ UNCHANGED vars => UNCHANGED <<claims, applied>>
  BY DEF Opening, Serving, Operator, Tap, Activate, TakeLock, OpenDatabase, OpeningFails,
         ActivationRejected, CheckRows, ActivationRefused, RecordDeclaration,
         CloseActivation, Crash, AddMember, RemoveMember, Reassign, Operates,
         PeekRead, PeekMark, Ack, vars, collectionVars
<1>3. CASE Requests
  <2>1. PICK a \in Activations, u \in Principals, k \in Keys \cup {NoKey}, n \in {1, 2} :
          Write(a, u, k, n)
    BY <1>3 DEF Requests, Create, Update, RemoveRecord, Book, Cancel, Transfer
  <2>2. decl[a] \in Declarations /\ idempotent(decl[a], u, k)
    BY <2>1 DEF Write, TapInv
  <2>3. CASE k = NoKey
    BY <1>1, <2>2, <2>3 DEF idempotent
  <2>4. CASE k \in Keys
    BY <2>2, <2>4, RetryWrites
  <2>5. QED BY <2>3, <2>4
<1>4. QED BY <1>1, <1>2, <1>3 DEF Next

\* A write under an Idempotency-Key is done again only after more keyed writes
\* than a declaration retains claims for.
THEOREM SpecRetryWindow == Spec => []RetryWindow
<1>1. RetryInv => RetryWindow
  BY DEF RetryInv
<1>2. QED BY TapInit, TapStep, RetryInit, RetryStep, <1>1, PTL DEF Spec

-----------------------------------------------------------------------------
(* The balances                                                             *)

Table == [Ids -> Row \cup {NoRow}]

Balances(table) == [r \in StoredIn(table) |-> table[r].balance]

\* How far the balance b stands above the floor.
Above(b, floor) == IF b > floor THEN b - floor ELSE 0
Excess(table, floor) == [r \in StoredIn(table) |-> Above(table[r].balance, floor)]

Slack(d, table) == d.maxRecords - Cardinality(StoredIn(table))

LEMMA StoredTable ==
  ASSUME NEW table \in Table
  PROVE  /\ StoredIn(table) \subseteq Ids /\ IsFiniteSet(StoredIn(table))
         /\ Cardinality(StoredIn(table)) \in Nat
         /\ \A r \in StoredIn(table) : table[r] \in Row /\ table[r].balance \in Int
<1>1. StoredIn(table) \subseteq Ids
  BY DEF StoredIn
<1>2. IsFiniteSet(StoredIn(table))
  BY <1>1, IdsAssumption, FS_Subset
<1>3. \A r \in StoredIn(table) : table[r] \in Row
  BY DEF StoredIn, Table
<1>4. QED BY <1>1, <1>2, <1>3, FS_CardinalityType DEF Row

\* The floor of a declaration is not above 0 nor above the floor of a transfer.
LEMMA FloorBelow ==
  ASSUME NEW d, Normal(d)
  PROVE  /\ Floor(d) \in Int /\ Floor(d) <= 0
         /\ \A t \in DOMAIN d.transfers : Floor(d) <= d.transfers[t].min
<1> DEFINE mins == {d.transfers[t].min : t \in DOMAIN d.transfers}
           S == {0} \cup mins
<1>1. \A t \in DOMAIN d.transfers : d.transfers[t].min \in Int
  BY DEF Normal
<1>2. S \in SUBSET Int /\ S # {}
  BY <1>1
<1>3. IsFiniteSet(S)
  <2> DEFINE f == [t \in DOMAIN d.transfers |-> d.transfers[t].min]
  <2>1. IsFiniteSet(DOMAIN d.transfers)
    BY DEF Normal
  <2>2. f \in Surjection(DOMAIN d.transfers, mins)
    BY DEF Surjection
  <2>3. IsFiniteSet(mins)
    <3> HIDE DEF f, mins
    <3>1. QED BY <2>1, <2>2, FS_Surjection
  <2>4. QED
    <3> HIDE DEF mins
    <3>1. IsFiniteSet(mins \cup {0})
      BY <2>3, FS_AddElement
    <3>2. S = mins \cup {0}
      OBVIOUS
    <3>3. QED BY <3>1, <3>2
<1>4. Floor(d) = Min(S)
  BY DEF Floor
<1> HIDE DEF S
<1>5. \E m \in S : \A i \in S : m <= i
  BY <1>2, <1>3, SmallestExists
<1>6. Min(S) \in S /\ \A i \in S : Min(S) <= i
  BY <1>5 DEF Min
<1>7. QED BY <1>2, <1>4, <1>6 DEF S

LEMMA ExcessType ==
  ASSUME NEW table \in Table, NEW floor \in Int
  PROVE  /\ \A r \in StoredIn(table) : Excess(table, floor)[r] \in Nat
         /\ Total(StoredIn(table), Excess(table, floor)) \in Nat
         /\ Total(StoredIn(table), Balances(table)) \in Int
<1>1. \A r \in StoredIn(table) : Excess(table, floor)[r] \in Nat
  BY StoredTable DEF Excess, Above
<1>2. \A r \in StoredIn(table) : Balances(table)[r] \in Int
  BY StoredTable DEF Balances
<1>3. IsFiniteSet(StoredIn(table))
  BY StoredTable
<1>4. Total(StoredIn(table), Excess(table, floor)) \in Nat
  BY <1>1, <1>3, TotalPositive
<1>5. QED BY <1>1, <1>2, <1>3, <1>4, TotalType

\* Ceiling sums the excess of every stored record: those at the floor or below
\* it, which it leaves out, have none.
LEMMA CeilingIs ==
  ASSUME NEW d, Floor(d) \in Int, NEW table \in Table
  PROVE  Ceiling(d, table) = Total(StoredIn(table), Excess(table, Floor(d)))
                               + Slack(d, table) * (-Floor(d))
<1> DEFINE stored == StoredIn(table)
           floor == Floor(d)
           above == {r \in stored : table[r].balance > floor}
           high == [r \in above |-> table[r].balance - floor]
           excess == Excess(table, floor)
<1>1. Ceiling(d, table) = Total(above, high) + Slack(d, table) * (-floor)
  BY DEF Ceiling, Slack
<1>2. \A r \in stored : excess[r] \in Int
  BY ExcessType
<1>3. \A r \in above : high[r] = excess[r]
  BY DEF Excess, Above
<1>4. \A r \in stored \ above : excess[r] = 0
  BY DEF Excess, Above
<1>5. IsFiniteSet(stored) /\ above \in SUBSET stored
  BY StoredTable
<1> HIDE DEF stored, floor, above, high, excess
<1>6. Total(above, high) = Total(above, excess)
  BY <1>3, TotalAgree
<1>7. Total(stored \ above, excess) = Total(stored, excess) - Total(above, excess)
  BY <1>2, <1>5, TotalDifference
<1>8. Total(stored \ above, excess) = 0
  BY <1>4, TotalZero
<1>9. Total(stored, excess) \in Int /\ Total(above, excess) \in Int
  <2>1. IsFiniteSet(above)
    BY <1>5, FS_Subset
  <2>2. QED BY <1>2, <1>5, <2>1, TotalType
<1>10. Total(above, high) = Total(stored, excess)
  BY <1>6, <1>7, <1>8, <1>9
<1>11. QED BY <1>1, <1>10 DEF stored, floor, excess

LEMMA CeilingType ==
  ASSUME NEW d, Normal(d), NEW table \in Table
  PROVE  /\ Ceiling(d, table) \in Int /\ Slack(d, table) \in Int
         /\ Total(StoredIn(table), Excess(table, Floor(d))) \in Int
<1>1. Floor(d) \in Int /\ d.maxRecords \in Int
  BY FloorBelow DEF Normal
<1>2. Slack(d, table) \in Int
  BY <1>1, StoredTable DEF Slack
<1>3. Total(StoredIn(table), Excess(table, Floor(d))) \in Int
  BY <1>1, ExcessType
<1>4. \A m, n \in Int : m * (-n) \in Int
  OBVIOUS
<1>5. Slack(d, table) * (-Floor(d)) \in Int
  BY <1>1, <1>2, <1>4
<1>6. QED BY <1>1, <1>2, <1>3, <1>5, CeilingIs

\* A write that moves no credits.
LEMMA BalancesStay ==
  ASSUME NEW table \in Table, NEW after \in Table, StoredIn(after) = StoredIn(table),
         \A r \in StoredIn(table) : after[r].balance = table[r].balance
  PROVE  /\ Supply(after) = Supply(table)
         /\ \A d \in Declarations : Ceiling(d, after) = Ceiling(d, table)
<1> DEFINE stored == StoredIn(table)
<1>1. Total(stored, Balances(after)) = Total(stored, Balances(table))
  <2>1. \A r \in stored : Balances(after)[r] = Balances(table)[r]
    BY DEF Balances
  <2>2. QED BY <2>1, TotalAgree
<1>2. \A floor : Total(stored, Excess(after, floor)) = Total(stored, Excess(table, floor))
  <2> TAKE floor
  <2>1. \A r \in stored : Excess(after, floor)[r] = Excess(table, floor)[r]
    BY DEF Excess
  <2>2. QED BY <2>1, TotalAgree
<1>3. ASSUME NEW d \in Declarations
      PROVE  Ceiling(d, after) = Ceiling(d, table)
  <2>1. Floor(d) \in Int
    BY FloorBelow, DeclarationsAssumption
  <2>2. Slack(d, after) = Slack(d, table)
    BY DEF Slack
  <2>3. QED BY <1>2, <2>1, <2>2, CeilingIs
<1>4. QED BY <1>1, <1>3 DEF Supply, Balances

\* A record created without credits, or the reverse: it stands above the floor
\* by what one free place allowed it to go below.
LEMMA RecordAdded ==
  ASSUME NEW table \in Table, NEW after \in Table, NEW r, r \notin StoredIn(table),
         StoredIn(after) = StoredIn(table) \cup {r}, after[r].balance = 0,
         \A o \in StoredIn(table) : after[o].balance = table[o].balance
  PROVE  /\ Supply(after) = Supply(table)
         /\ \A d \in Declarations : Ceiling(d, after) = Ceiling(d, table)
<1> DEFINE stored == StoredIn(table)
<1>1. IsFiniteSet(stored) /\ Cardinality(stored) \in Nat
  BY StoredTable
<1>2. Cardinality(StoredIn(after)) = Cardinality(stored) + 1
  BY <1>1, FS_AddElement
<1>3. Total(StoredIn(after), Balances(after)) = Total(stored, Balances(table))
  <2>1. \A o \in stored \cup {r} : Balances(after)[o] \in Int
    BY StoredTable DEF Balances
  <2>2. \A o \in stored : Balances(after)[o] = Balances(table)[o]
    BY DEF Balances
  <2>3. Balances(after)[r] = 0
    BY DEF Balances
  <2>4. Total(stored \cup {r}, Balances(after)) = Total(stored, Balances(after)) + Balances(after)[r]
    BY <1>1, <2>1, TotalWith
  <2>5. Total(stored, Balances(after)) = Total(stored, Balances(table))
    BY <2>2, TotalAgree
  <2>6. Total(stored, Balances(table)) \in Int
    <3>1. 0 \in Int
      OBVIOUS
    <3>2. QED BY <3>1, ExcessType
  <2>7. QED BY <2>3, <2>4, <2>5, <2>6
<1>4. ASSUME NEW d \in Declarations
      PROVE  Ceiling(d, after) = Ceiling(d, table)
  <2> DEFINE floor == Floor(d)
             excess == Excess(after, floor)
             before == Total(stored, Excess(table, floor))
  <2>1. Normal(d) /\ floor \in Int /\ floor <= 0 /\ d.maxRecords \in Int
    BY FloorBelow, DeclarationsAssumption DEF Normal
  <2>2. before \in Int /\ Slack(d, table) \in Int /\ Slack(d, after) = Slack(d, table) - 1
    <3>1. before \in Int /\ Slack(d, table) \in Int
      BY <2>1, CeilingType
    <3>2. QED BY <1>1, <1>2, <2>1, <3>1 DEF Slack
  <2>3. Total(StoredIn(after), excess) = before + (-floor)
    <3>1. \A o \in stored \cup {r} : excess[o] \in Int
      BY <2>1, ExcessType
    <3>2. \A o \in stored : excess[o] = Excess(table, floor)[o]
      BY DEF Excess
    <3>3. excess[r] = -floor
      BY <2>1 DEF Excess, Above
    <3> HIDE DEF excess, floor
    <3>4. Total(stored \cup {r}, excess) = Total(stored, excess) + excess[r]
      BY <1>1, <3>1, TotalWith
    <3>5. Total(stored, excess) = Total(stored, Excess(table, floor))
      BY <3>2, TotalAgree
    <3>6. QED BY <3>3, <3>4, <3>5
  <2>4. /\ Ceiling(d, table) = before + Slack(d, table) * (-floor)
        /\ Ceiling(d, after) = Total(StoredIn(after), excess) + Slack(d, after) * (-floor)
    BY <2>1, CeilingIs
  <2>5. \A b, n, c \in Int : (b + c) + (n - 1) * c = b + n * c
    OBVIOUS
  <2> HIDE DEF before, excess, floor
  <2>6. -floor \in Int
    BY <2>1
  <2>7. (before + (-floor)) + (Slack(d, table) - 1) * (-floor)
          = before + Slack(d, table) * (-floor)
    BY <2>2, <2>5, <2>6
  <2>8. QED BY <2>2, <2>3, <2>4, <2>7
<1>5. QED BY <1>3, <1>4 DEF Supply, Balances

\* A transfer that leaves the debited record at the floor or above: what it
\* takes from one record's excess it adds to the other's, or less.
LEMMA CreditsMove ==
  ASSUME NEW table \in Table, NEW after \in Table, StoredIn(after) = StoredIn(table),
         NEW x \in StoredIn(table), NEW y \in StoredIn(table), x # y, NEW n \in Nat,
         after[x].balance = table[x].balance - n,
         after[y].balance = table[y].balance + n,
         \A o \in StoredIn(table) \ {x, y} : after[o].balance = table[o].balance
  PROVE  /\ Supply(after) = Supply(table)
         /\ \A d \in Declarations :
              after[x].balance >= Floor(d) => Ceiling(d, after) <= Ceiling(d, table)
<1> DEFINE stored == StoredIn(table)
           rest == stored \ {x, y}
<1>1. IsFiniteSet(stored)
  BY StoredTable
<1>2. /\ table[x].balance \in Int /\ table[y].balance \in Int
      /\ after[x].balance \in Int /\ after[y].balance \in Int
  BY StoredTable
<1>3. Total(stored, Balances(after)) = Total(stored, Balances(table))
  <2> DEFINE old == Balances(table)
             new == Balances(after)
  <2>1. \A o \in stored : old[o] \in Int /\ new[o] \in Int
    BY StoredTable DEF Balances
  <2>2. /\ old[x] = table[x].balance /\ old[y] = table[y].balance
        /\ new[x] = after[x].balance /\ new[y] = after[y].balance
        /\ \A o \in rest : new[o] = old[o]
    BY DEF Balances
  <2> HIDE DEF old, new
  <2>3. Total(rest, new) = Total(rest, old)
    BY <2>2, TotalAgree
  <2>4. Total(stored, new) - new[x] - new[y] = Total(stored, old) - old[x] - old[y]
    <3>1. Total(rest, new) = Total(stored, new) - new[x] - new[y]
      <4>1. x \in stored /\ y \in stored /\ \A o \in stored : new[o] \in Int
        BY <2>1
      <4> HIDE DEF stored
      <4>2. QED BY <1>1, <4>1, TotalWithoutTwo
    <3>2. Total(rest, old) = Total(stored, old) - old[x] - old[y]
      <4>1. x \in stored /\ y \in stored /\ \A o \in stored : old[o] \in Int
        BY <2>1
      <4> HIDE DEF stored
      <4>2. QED BY <1>1, <4>1, TotalWithoutTwo
    <3>3. QED BY <2>3, <3>1, <3>2
  <2>5. Total(stored, new) \in Int /\ Total(stored, old) \in Int
    BY <1>1, <2>1, TotalType
  <2>6. Total(stored, new) = Total(stored, old)
    <3>1. /\ new[x] \in Int /\ new[y] \in Int /\ old[x] \in Int /\ old[y] \in Int
          /\ new[x] + new[y] = old[x] + old[y]
      BY <1>2, <2>2
    <3>2. QED BY <2>4, <2>5, <3>1
  <2>7. QED BY <2>6 DEF old, new
<1>4. ASSUME NEW d \in Declarations, after[x].balance >= Floor(d)
      PROVE  Ceiling(d, after) <= Ceiling(d, table)
  <2> DEFINE floor == Floor(d)
             old == Excess(table, floor)
             new == Excess(after, floor)
  <2>1. Normal(d) /\ floor \in Int
    BY FloorBelow, DeclarationsAssumption
  <2>2. \A o \in stored : old[o] \in Int /\ new[o] \in Int
    BY <2>1, ExcessType
  <2>3. /\ old[x] = Above(table[x].balance, floor) /\ old[y] = Above(table[y].balance, floor)
        /\ new[x] = Above(after[x].balance, floor) /\ new[y] = Above(after[y].balance, floor)
        /\ \A o \in rest : new[o] = old[o]
    BY DEF Excess
  <2> HIDE DEF old, new
  <2>4. new[x] + new[y] <= old[x] + old[y]
    BY <1>2, <1>4, <2>1, <2>3 DEF Above
  <2>5. Total(rest, new) = Total(rest, old)
    BY <2>3, TotalAgree
  <2>6. Total(stored, new) - new[x] - new[y] = Total(stored, old) - old[x] - old[y]
    <3>1. Total(rest, new) = Total(stored, new) - new[x] - new[y]
      <4>1. x \in stored /\ y \in stored /\ \A o \in stored : new[o] \in Int
        BY <2>2
      <4> HIDE DEF stored
      <4>2. QED BY <1>1, <4>1, TotalWithoutTwo
    <3>2. Total(rest, old) = Total(stored, old) - old[x] - old[y]
      <4>1. x \in stored /\ y \in stored /\ \A o \in stored : old[o] \in Int
        BY <2>2
      <4> HIDE DEF stored
      <4>2. QED BY <1>1, <4>1, TotalWithoutTwo
    <3>3. QED BY <2>5, <3>1, <3>2
  <2>7. Total(stored, new) \in Int /\ Total(stored, old) \in Int
    BY <1>1, <2>2, TotalType
  <2>8. Total(stored, new) <= Total(stored, old)
    BY <2>2, <2>4, <2>6, <2>7
  <2>9. Slack(d, after) = Slack(d, table)
    BY DEF Slack
  <2>10. /\ Ceiling(d, table) = Total(stored, old) + Slack(d, table) * (-floor)
         /\ Ceiling(d, after) = Total(stored, new) + Slack(d, table) * (-floor)
    BY <2>1, <2>9, CeilingIs DEF old, new
  <2>11. Ceiling(d, table) \in Int /\ Ceiling(d, after) \in Int
    BY <2>1, CeilingType
  <2>12. PICK slack \in Int : slack = Slack(d, table) * (-floor)
    <3>1. \A m, k \in Int : m * (-k) \in Int
      OBVIOUS
    <3>2. QED BY <2>1, <3>1, CeilingType
  <2>13. QED BY <2>7, <2>8, <2>10, <2>12
<1>5. QED BY <1>3, <1>4 DEF Supply, Balances

\* While the stored records are no more than d allows, the credited record of
\* a transfer of d never holds more than MaxSafe afterwards.
LEMMA RoomForCredits ==
  ASSUME NEW d, Normal(d), rows \in Table, BalancesHeld(d, rows),
         Cardinality(StoredIn(rows)) <= d.maxRecords
  PROVE  NeverOverflows(d)
<1> SUFFICES ASSUME NEW t \in DOMAIN d.transfers, NEW x \in StoredIn(rows),
                    NEW y \in StoredIn(rows), NEW n \in Amounts,
                    x # y, rows[x].balance - n >= d.transfers[t].min
             PROVE  rows[y].balance + n <= MaxSafe
  BY DEF NeverOverflows
<1> DEFINE floor == Floor(d)
           stored == StoredIn(rows)
           excess == Excess(rows, floor)
           rest == stored \ {x, y}
<1>1. /\ floor \in Int /\ floor <= 0 /\ floor <= d.transfers[t].min
      /\ d.transfers[t].min \in Int /\ d.maxRecords \in Int
  BY FloorBelow DEF Normal
<1>2. /\ IsFiniteSet(stored) /\ Cardinality(stored) \in Nat
      /\ rows[x].balance \in Int /\ rows[y].balance \in Int /\ n \in Nat
  BY StoredTable, AmountsAssumption
<1>3. Ceiling(d, rows) <= MaxSafe
  BY DEF BalancesHeld
<1>4. \A o \in stored : excess[o] \in Nat
  BY <1>1, ExcessType
<1>5. excess[x] = Above(rows[x].balance, floor) /\ excess[y] = Above(rows[y].balance, floor)
  BY DEF Excess
<1> HIDE DEF excess
<1>6. Total(rest, excess) \in Nat
  <2>1. IsFiniteSet(rest)
    BY <1>2, FS_Subset
  <2>2. QED BY <1>4, <2>1, TotalPositive
<1>7. Total(rest, excess) = Total(stored, excess) - excess[x] - excess[y]
  BY <1>2, <1>4, TotalWithoutTwo
<1>8. Total(stored, excess) \in Nat
  BY <1>2, <1>4, TotalPositive
<1>9. Ceiling(d, rows) = Total(stored, excess) + Slack(d, rows) * (-floor)
  BY <1>1, CeilingIs DEF excess
<1>10. PICK slack \in Nat : slack = Slack(d, rows) * (-floor)
  <2>1. \A m, k \in Nat : m * k \in Nat
    OBVIOUS
  <2>2. Slack(d, rows) \in Nat /\ -floor \in Nat
    BY <1>1, <1>2 DEF Slack
  <2>3. QED BY <2>1, <2>2
<1>11. Total(stored, excess) <= MaxSafe
  BY <1>3, <1>8, <1>9, <1>10, MaxSafeAssumption
<1>12. excess[x] >= n /\ excess[y] >= rows[y].balance - floor
  BY <1>1, <1>2, <1>5 DEF Above
<1>13. QED
  BY <1>1, <1>2, <1>4, <1>6, <1>7, <1>8, <1>11, <1>12, MaxSafeAssumption

CreditInv ==
  /\ Supply(rows) = 0
  /\ recorded # NoDeclaration => BalancesHeld(recorded, rows)

\* A write under the declaration recorded that does not raise its ceiling.
LEMMA CreditsKept ==
  ASSUME ServeInv, CreditInv, rows \in Table, rows' \in Table, UNCHANGED recorded,
         Supply(rows') = Supply(rows),
         recorded # NoDeclaration => Ceiling(recorded, rows') <= Ceiling(recorded, rows)
  PROVE  CreditInv'
<1>1. Supply(rows') = 0
  BY DEF CreditInv
<1>2. ASSUME recorded # NoDeclaration PROVE BalancesHeld(recorded, rows')
  <2>1. recorded \in Declarations
    BY <1>2 DEF ServeInv
  <2>2. PICK d \in Declarations : d = recorded
    BY <2>1
  <2>3. Normal(d)
    BY DeclarationsAssumption
  <2>4. Ceiling(d, rows) \in Int /\ Ceiling(d, rows') \in Int
    BY <2>3, CeilingType
  <2>5. DOMAIN d.transfers # {} => Ceiling(d, rows) <= MaxSafe
    BY <1>2, <2>2 DEF CreditInv, BalancesHeld
  <2>6. Ceiling(d, rows') <= Ceiling(d, rows)
    BY <1>2, <2>2
  <2>7. DOMAIN d.transfers # {} => Ceiling(d, rows') <= MaxSafe
    BY <2>4, <2>5, <2>6, MaxSafeAssumption
  <2>8. QED BY <2>2, <2>7 DEF BalancesHeld
<1>3. QED BY <1>1, <1>2 DEF CreditInv

\* Where every ceiling stays the same.
LEMMA CreditsSame ==
  ASSUME ServeInv, CreditInv, rows \in Table, rows' \in Table, UNCHANGED recorded,
         Supply(rows') = Supply(rows),
         \A d \in Declarations : Ceiling(d, rows') = Ceiling(d, rows)
  PROVE  CreditInv'
<1>1. recorded # NoDeclaration => Ceiling(recorded, rows') = Ceiling(recorded, rows)
  BY DEF ServeInv
<1>2. recorded # NoDeclaration => Ceiling(recorded, rows) \in Int
  <2>1. \A d \in Declarations : Ceiling(d, rows) \in Int
    BY CeilingType, DeclarationsAssumption
  <2>2. QED BY <2>1 DEF ServeInv
<1>3. recorded # NoDeclaration => Ceiling(recorded, rows') <= Ceiling(recorded, rows)
  BY <1>1, <1>2
<1>4. QED BY <1>3, CreditsKept

\* The writes of a request that move no credits.
LEMMA CreditsRequests ==
  ASSUME RowsInv, RowsInv', ServeInv, CreditInv, UNCHANGED recorded,
         NEW d, NEW u \in Principals, NEW r \in Ids, NEW slot \in Slots,
         \/ createIn(d, u, r, slot) \/ updateIn(u, r, slot) \/ removeIn(u, r)
         \/ bookIn(u, r) \/ cancelIn(u, r)
  PROVE  CreditInv'
<1>1. rows \in Table /\ rows' \in Table
  BY DEF RowsInv, Table
<1>2. CASE createIn(d, u, r, slot)
  <2> DEFINE row == [owner |-> u, balance |-> 0, slot |-> slot, status |-> "draft"]
  <2>1. r \notin StoredIn(rows) /\ rows' = [rows EXCEPT ![r] = row]
    BY <1>2 DEF createIn, Replace
  <2>2. rows'[r] = row /\ \A o \in Ids \ {r} : rows'[o] = rows[o]
    BY <1>1, <2>1 DEF Table
  <2>3. row # NoRow
    <3>1. row \in Row
      BY SlotsAssumption DEF Row
    <3>2. QED BY <3>1, NoRowAssumption
  <2>4. StoredIn(rows') = StoredIn(rows) \cup {r}
    BY <2>2, <2>3 DEF StoredIn
  <2>5. rows'[r].balance = 0 /\ \A o \in StoredIn(rows) : rows'[o].balance = rows[o].balance
    BY <2>1, <2>2 DEF StoredIn
  <2>6. /\ Supply(rows') = Supply(rows)
        /\ \A e \in Declarations : Ceiling(e, rows') = Ceiling(e, rows)
    BY <1>1, <2>1, <2>4, <2>5, RecordAdded
  <2>7. QED BY <1>1, <2>6, CreditsSame
<1>3. CASE removeIn(u, r)
  <2>1. /\ r \in StoredIn(rows) /\ rows[r].balance = 0
        /\ rows' = [rows EXCEPT ![r] = NoRow]
    BY <1>3 DEF removeIn, Replace, InScope, OwnedIn
  <2>2. rows'[r] = NoRow /\ \A o \in Ids \ {r} : rows'[o] = rows[o]
    BY <1>1, <2>1 DEF Table
  <2>3. r \notin StoredIn(rows') /\ StoredIn(rows) = StoredIn(rows') \cup {r}
    BY <2>1, <2>2 DEF StoredIn
  <2>4. \A o \in StoredIn(rows') : rows[o].balance = rows'[o].balance
    BY <2>2, <2>3 DEF StoredIn
  <2>5. /\ Supply(rows) = Supply(rows')
        /\ \A e \in Declarations : Ceiling(e, rows) = Ceiling(e, rows')
    BY <1>1, <2>1, <2>3, <2>4, RecordAdded
  <2>6. QED BY <1>1, <2>5, CreditsSame
<1>4. CASE updateIn(u, r, slot) \/ bookIn(u, r) \/ cancelIn(u, r)
  <2>1. r \in StoredIn(rows)
    BY <1>4 DEF updateIn, bookIn, cancelIn, InScope, OwnedIn
  <2>2. \/ rows' = [rows EXCEPT ![r] = [rows[r] EXCEPT !.slot = slot]]
        \/ \E status \in {"draft", "booked"} :
             rows' = [rows EXCEPT ![r] = [rows[r] EXCEPT !.status = status]]
    BY <1>4 DEF updateIn, bookIn, cancelIn, Replace
  <2>3. rows[r] \in Row
    BY <1>1, <2>1, StoredTable
  <2>4. /\ rows'[r] \in Row /\ rows'[r].balance = rows[r].balance
        /\ \A o \in Ids \ {r} : rows'[o] = rows[o]
    BY <1>1, <2>1, <2>2, <2>3, SlotsAssumption DEF Table, StoredIn, Row
  <2>5. /\ StoredIn(rows') = StoredIn(rows)
        /\ \A o \in StoredIn(rows) : rows'[o].balance = rows[o].balance
    BY <2>1, <2>4, NoRowAssumption DEF StoredIn
  <2>6. /\ Supply(rows') = Supply(rows)
        /\ \A e \in Declarations : Ceiling(e, rows') = Ceiling(e, rows)
    BY <1>1, <2>5, BalancesStay
  <2>7. QED BY <1>1, <2>6, CreditsSame
<1>5. QED BY <1>2, <1>3, <1>4

\* A transfer runs under the declaration recorded: the floors it keeps are those
\* the ceiling counts with.
LEMMA CreditsTransfer ==
  ASSUME RowsInv, RowsInv', ServeInv, CreditInv, UNCHANGED recorded,
         recorded \in Declarations, NEW u, NEW t, NEW from \in Ids, NEW to \in Ids,
         NEW amount \in Amounts, transferIn(recorded, u, t, from, to, amount)
  PROVE  CreditInv'
<1>1. rows \in Table /\ rows' \in Table
  BY DEF RowsInv, Table
<1>2. PICK d \in Declarations : d = recorded
  OBVIOUS
<1>3. /\ from \in StoredIn(rows) /\ to \in StoredIn(rows) /\ from # to
      /\ t \in DOMAIN d.transfers /\ rows[from].balance - amount >= d.transfers[t].min
      /\ rows' = [rows EXCEPT ![from].balance = @ - amount, ![to].balance = @ + amount]
  BY <1>2 DEF transferIn, InScope, OwnedIn
<1>4. /\ rows[from] \in Row /\ rows[to] \in Row /\ amount \in Nat
      /\ rows[from].balance \in Int /\ rows[to].balance \in Int
  BY <1>1, <1>3, StoredTable, AmountsAssumption
<1>5. /\ rows'[from] = [rows[from] EXCEPT !.balance = @ - amount]
      /\ rows'[to] = [rows[to] EXCEPT !.balance = @ + amount]
      /\ \A o \in Ids \ {from, to} : rows'[o] = rows[o]
  BY <1>1, <1>3 DEF Table
<1>6. /\ rows'[from] \in Row /\ rows'[to] \in Row
      /\ rows'[from].balance = rows[from].balance - amount
      /\ rows'[to].balance = rows[to].balance + amount
  BY <1>4, <1>5 DEF Row
<1>7. /\ StoredIn(rows') = StoredIn(rows)
      /\ \A o \in StoredIn(rows) \ {from, to} : rows'[o].balance = rows[o].balance
  BY <1>3, <1>5, <1>6, NoRowAssumption DEF StoredIn
<1>8. /\ Supply(rows') = Supply(rows)
      /\ \A e \in Declarations :
           rows'[from].balance >= Floor(e) => Ceiling(e, rows') <= Ceiling(e, rows)
  <2>1. PICK before \in Table, after \in Table : before = rows /\ after = rows'
    BY <1>1
  <2>2. /\ StoredIn(after) = StoredIn(before) /\ from # to
        /\ from \in StoredIn(before) /\ to \in StoredIn(before) /\ amount \in Nat
        /\ after[from].balance = before[from].balance - amount
        /\ after[to].balance = before[to].balance + amount
        /\ \A o \in StoredIn(before) \ {from, to} : after[o].balance = before[o].balance
    BY <1>3, <1>4, <1>6, <1>7, <2>1
  <2>3. /\ Supply(after) = Supply(before)
        /\ \A e \in Declarations :
             after[from].balance >= Floor(e) => Ceiling(e, after) <= Ceiling(e, before)
    BY <2>2, CreditsMove
  <2>4. QED BY <2>1, <2>3
<1>9. rows'[from].balance >= Floor(d)
  <2>1. /\ Floor(d) \in Int /\ d.transfers[t].min \in Int
        /\ Floor(d) <= d.transfers[t].min
    BY <1>3, FloorBelow, DeclarationsAssumption DEF Normal
  <2>2. QED BY <1>3, <1>4, <1>6, <2>1
<1>10. QED BY <1>1, <1>2, <1>8, <1>9, CreditsKept

\* What a move gives another owner keeps its credits.
LEMMA CreditsReassign ==
  ASSUME RowsInv, RowsInv', ServeInv, CreditInv, UNCHANGED recorded,
         NEW d, NEW u, NEW v \in Principals, reassignOwner(d, u, v)
  PROVE  CreditInv'
<1>1. rows \in Table /\ rows' \in Table
  BY DEF RowsInv, Table
<1>2. \A r \in Ids :
        \/ rows'[r] = rows[r]
        \/ r \in StoredIn(rows) /\ rows'[r] = [rows[r] EXCEPT !.owner = v]
  BY DEF reassignOwner, Moved, InScope, OwnedIn
<1>3. \A r \in StoredIn(rows) :
        rows'[r] \in Row /\ rows'[r].balance = rows[r].balance
  <2>1. \A r \in StoredIn(rows) : r \in Ids /\ rows[r] \in Row
    BY <1>1, StoredTable
  <2>2. ASSUME NEW row \in Row
        PROVE  [row EXCEPT !.owner = v] \in Row
                 /\ [row EXCEPT !.owner = v].balance = row.balance
    BY <2>2 DEF Row
  <2>3. QED BY <1>2, <2>1, <2>2
<1>4. StoredIn(rows') = StoredIn(rows)
  BY <1>2, <1>3, NoRowAssumption DEF StoredIn
<1>5. /\ Supply(rows') = Supply(rows)
      /\ \A e \in Declarations : Ceiling(e, rows') = Ceiling(e, rows)
  BY <1>1, <1>3, <1>4, BalancesStay
<1>6. QED BY <1>1, <1>5, CreditsSame

LEMMA CreditInit == Init => CreditInv
<1> SUFFICES ASSUME Init PROVE CreditInv
  OBVIOUS
<1>1. rows = [r \in Ids |-> NoRow] /\ recorded = NoDeclaration
  BY DEF Init, CollectionInit
<1>2. StoredIn(rows) = {}
  BY <1>1 DEF StoredIn
<1>3. QED BY <1>1, <1>2, TotalEmpty DEF CreditInv, Supply

LEMMA CreditStep == TapInv /\ RowsInv /\ ServeInv /\ CreditInv /\ [Next]_vars => CreditInv'
<1> SUFFICES ASSUME TapInv, RowsInv, ServeInv, CreditInv, [Next]_vars PROVE CreditInv'
  OBVIOUS
<1>0. RowsInv'
  BY RowsStep
<1>1. CASE UNCHANGED rows /\ (recorded' = recorded \/ BalancesHeld(recorded', rows))
  BY <1>1 DEF CreditInv
<1>2. CASE Requests
  <2>1. \A a, u, k, n : Write(a, u, k, n) => UNCHANGED recorded /\ recorded = decl[a] /\ phase[a] = "live"
    BY DEF Write, Fenced
  <2>2. PICK a \in Activations, u \in Principals, k \in Keys \cup {NoKey}, r \in Ids :
          \/ \E slot \in Slots : Create(a, u, k, r, slot) \/ Update(a, u, k, r, slot)
          \/ RemoveRecord(a, u, k, r) \/ Book(a, u, k, r) \/ Cancel(a, u, k, r)
          \/ \E t \in {"pay", "issue"}, to \in Ids, amount \in Amounts :
               Transfer(a, u, k, t, r, to, amount)
    BY <1>2 DEF Requests
  <2>3. UNCHANGED recorded /\ recorded = decl[a] /\ phase[a] = "live"
    BY <2>1, <2>2 DEF Create, Update, RemoveRecord, Book, Cancel, Transfer
  <2>4. recorded \in Declarations
    BY <2>3 DEF TapInv
  <2>5. CASE \E t \in {"pay", "issue"}, to \in Ids, amount \in Amounts :
               Transfer(a, u, k, t, r, to, amount)
    BY <1>0, <2>3, <2>4, <2>5, CreditsTransfer DEF Transfer
  <2>6. CASE \E slot \in Slots : Create(a, u, k, r, slot) \/ Update(a, u, k, r, slot)
    BY <1>0, <2>3, <2>6, CreditsRequests DEF Create, Update
  <2>7. CASE RemoveRecord(a, u, k, r) \/ Book(a, u, k, r) \/ Cancel(a, u, k, r)
    <3>1. PICK slot \in Slots : TRUE
      <4>1. r \in StoredIn(rows)
        BY <2>7 DEF RemoveRecord, Book, Cancel, removeIn, bookIn, cancelIn, InScope, OwnedIn
      <4>2. rows[r].slot \in Slots
        BY <4>1, StoredRows DEF Row
      <4>3. QED BY <4>2
    <3>2. QED BY <1>0, <2>3, <2>7, CreditsRequests DEF RemoveRecord, Book, Cancel
  <2>8. QED BY <2>2, <2>5, <2>6, <2>7
<1>3. CASE Operator
  <2>1. PICK d \in Declarations, u \in Principals :
          AddMember(d, u) \/ RemoveMember(d, u) \/ \E v \in Principals : Reassign(d, u, v)
    BY <1>3 DEF Operator
  <2>2. UNCHANGED recorded
    BY <2>1 DEF AddMember, RemoveMember, Reassign, Operates
  <2>3. AddMember(d, u) \/ RemoveMember(d, u) => UNCHANGED rows
    BY DEF AddMember, RemoveMember
  <2>4. QED BY <1>0, <1>1, <2>1, <2>2, <2>3, CreditsReassign DEF Reassign
<1>4. Opening \/ Tap \/ UNCHANGED vars => UNCHANGED <<rows, recorded>>
  BY DEF Opening, Activate, TakeLock, OpenDatabase, OpeningFails, ActivationRejected,
         Tap, PeekRead, PeekMark, Ack, vars, collectionVars
<1>5. Serving => UNCHANGED rows /\ (recorded' = recorded \/ BalancesHeld(recorded', rows))
  BY DEF Serving, CheckRows, ActivationRefused, RecordDeclaration, CloseActivation, Crash,
         Rerecorded, collectionVars
<1>6. QED BY <1>1, <1>2, <1>3, <1>4, <1>5 DEF Next

\* The balances always sum to 0, and no sequence of creations, removals,
\* transfers, moves, reloads and failed reloads lets the stored balances exceed
\* what the declaration recorded can bear: while the records are no more than it
\* allows, a transfer is never refused for what the credited record holds.
THEOREM SpecCreditsFit == Spec => []CreditsFit
<1>1. RowsInv /\ ServeInv /\ CreditInv => CreditsFit
  <2> SUFFICES ASSUME RowsInv, ServeInv, CreditInv PROVE CreditsFit
    OBVIOUS
  <2>1. ASSUME recorded # NoDeclaration, Cardinality(StoredIn(rows)) <= recorded.maxRecords
        PROVE  NeverOverflows(recorded)
    <3>1. PICK d \in Declarations : d = recorded
      BY <2>1 DEF ServeInv
    <3>2. NeverOverflows(d)
      BY <2>1, <3>1, RoomForCredits, DeclarationsAssumption DEF CreditInv, RowsInv, Table
    <3>3. QED BY <3>1, <3>2
  <2>2. QED BY <2>1 DEF CreditsFit, CreditInv
<1>2. QED
  BY TapInit, TapStep, RowsInit, RowsStep, ServeInit, ServeStep, CreditInit, CreditStep, <1>1,
     PTL DEF Spec
=============================================================================
