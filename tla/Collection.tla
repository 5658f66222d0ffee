----------------------------- MODULE Collection -----------------------------
(***************************************************************************)
(* The rules one owned collection enforces inside a write transaction      *)
(* (packages/store/src/collection.ts): quotas, intervals that may not      *)
(* overlap, balances that only transfers move, the membership gate and the *)
(* retained Idempotency-Keys. Each action here is one write step: the      *)
(* transaction around it, its fence and its audit events are Store's. A    *)
(* refused step writes nothing, so it is no action.                        *)
(*                                                                         *)
(* A declaration is a record of what the rules read: transfers (per name   *)
(* the floor `min` a debit keeps and whether only members may run it),     *)
(* maxRecords, maxRecordsPerOwner, maxKeys, audit and auditRetention. In   *)
(* every declaration here intervals have scope: owner and apply to booked  *)
(* records, `book` is a transition by others that needs a member, `cancel` *)
(* one by the owner, and deletable is draft.                               *)
(***************************************************************************)
EXTENDS Integers, FiniteSets, FiniteSetsExt, Sequences, SequencesExt, Accounts

CONSTANTS
  Principals,
  Ids,         \* record ids; the id of a deleted record stands for a new one
  NoRow,       \* no record
  Slots,       \* the intervals a record can hold
  Amounts,     \* the amounts of transfer requests
  MaxSafe,     \* Number.MAX_SAFE_INTEGER
  Keys,        \* the Idempotency-Keys of one principal
  NoKey        \* a request without one

Row == [owner : Principals, balance : Int, slot : Slots,
        status : {"draft", "booked"}]

ASSUME NoRowAssumption == NoRow \notin Row
ASSUME NoKeyAssumption == NoKey \notin Keys
ASSUME SlotsAssumption ==
  \A s \in Slots : s \in [since : Int, until : Int] /\ s.since < s.until
ASSUME AmountsAssumption == Amounts \subseteq Nat \ {0}
ASSUME IdsAssumption == IsFiniteSet(Ids)
ASSUME MaxSafeAssumption == MaxSafe \in Nat

VARIABLES
  rows,      \* rows[r]: the record r of the collection
  members,   \* the principals the membership collection lists
  claims,    \* the retained claims, oldest first: <<principal, key>>
  applied    \* history: every write committed under a key

collectionVars == <<rows, members, claims, applied>>

CollectionInit ==
  /\ rows = [r \in Ids |-> NoRow]
  /\ members = {}
  /\ claims = <<>>
  /\ applied = <<>>

StoredIn(table) == {r \in Ids : table[r] # NoRow}
OwnedIn(table, u) == {r \in StoredIn(table) : table[r].owner = u}

\* current: the record r in the scope of its owner u.
InScope(u, r) == r \in OwnedIn(rows, u)

Replace(r, row) == rows' = [rows EXCEPT ![r] = row]

---------------------------------------------------------------------------
(* Declarations: what normalize and transfersOf accept. *)

Floor(d) == Min({0} \cup {d.transfers[t].min : t \in DOMAIN d.transfers})

Normal(d) ==
  /\ d.maxRecords \in Nat /\ d.maxRecordsPerOwner \in Nat
  /\ IsFiniteSet(DOMAIN d.transfers)
  /\ \A t \in DOMAIN d.transfers : d.transfers[t].min \in Int
  /\ d.maxRecordsPerOwner <= d.maxRecords
  /\ \A t \in DOMAIN d.transfers : d.transfers[t].min < 0 => d.transfers[t].gated
  /\ (-Floor(d)) * d.maxRecords <= MaxSafe

---------------------------------------------------------------------------
(* Intervals. *)

Constrained(row) == row.status = "booked"

\* What an interval is compared with: the constrained records of its owner,
\* itself excluded, that start before it ends.
Earlier(r, row) ==
  {o \in OwnedIn(rows, row.owner) \ {r} :
     Constrained(rows[o]) /\ rows[o].slot.since < row.slot.until}

FitsFirst(r, row) ==
  Constrained(row) =>
    \A first \in Earlier(r, row) :
      (\A o \in Earlier(r, row) : rows[o].slot.since >= rows[first].slot.since)
      => rows[first].slot.until <= row.slot.since
\* fits looks at one of them only, the one that starts last.
Fits(r, row) ==
  Constrained(row) =>
    \A last \in Earlier(r, row) :
      (\A o \in Earlier(r, row) : rows[o].slot.since <= rows[last].slot.since)
      => rows[last].slot.until <= row.slot.since

\* overlapping: the scan of an activation and of a move, over some owners.
Overlapping(table, owners) ==
  \E u \in owners : \E r, o \in OwnedIn(table, u) :
    /\ r # o /\ Constrained(table[r]) /\ Constrained(table[o])
    /\ table[r].slot.since < table[o].slot.until
    /\ table[o].slot.since < table[r].slot.until

---------------------------------------------------------------------------
(* Balances. *)

\* How far the stored balances could let one balance grow under d.
Ceiling(d, table) ==
  LET floor == Floor(d)
      above == {r \in StoredIn(table) : table[r].balance > floor}
  IN  Total(above, [r \in above |-> table[r].balance - floor])
        + (d.maxRecords - Cardinality(StoredIn(table))) * (-floor)

BalancesHeld(d, table) == DOMAIN d.transfers # {} => Ceiling(d, table) <= MaxSafe

\* Collection.open: what an activation refuses stored rows for.
Openable(d, table) ==
  /\ Cardinality(StoredIn(table)) <= d.maxRecords
  /\ ~Overlapping(table, Principals)

---------------------------------------------------------------------------
(* idempotent: the claim of u for key k is inserted with the write. *)

FewerClaims(s, n) == IF Len(s) < n THEN s ELSE SubSeq(s, Len(s) - n + 2, Len(s))
NewestClaims(s, n) == IF Len(s) <= n THEN s ELSE SubSeq(s, Len(s) - n + 1, Len(s))

idempotent(d, u, k) ==
  IF k = NoKey
  THEN UNCHANGED <<claims, applied>>
  ELSE /\ <<u, k>> \notin ToSet(claims)
       /\ claims' = NewestClaims(Append(claims, <<u, k>>), d.maxKeys)
       /\ applied' = Append(applied, <<u, k>>)

---------------------------------------------------------------------------
(* The write steps. *)

createIn(d, u, r, slot) ==
  /\ r \notin StoredIn(rows)
  /\ Cardinality(OwnedIn(rows, u)) < d.maxRecordsPerOwner
  /\ Cardinality(StoredIn(rows)) < d.maxRecords
  /\ LET row == [owner |-> u, balance |-> 0, slot |-> slot, status |-> "draft"]
     IN  Fits(r, row) /\ Replace(r, row)

updateIn(u, r, slot) ==
  /\ InScope(u, r)
  /\ LET row == [rows[r] EXCEPT !.slot = slot]
     IN  Fits(r, row) /\ Replace(r, row)

removeIn(u, r) ==
  /\ InScope(u, r)
  /\ rows[r].status = "draft"
  /\ rows[r].balance = 0
  /\ Replace(r, NoRow)

\* The transition book: by others, for a member.
bookIn(u, r) ==
  /\ u \in members
  /\ r \in StoredIn(rows) /\ rows[r].owner # u
  /\ rows[r].status = "draft"
  /\ LET row == [rows[r] EXCEPT !.status = "booked"]
     IN  Fits(r, row) /\ Replace(r, row)

\* The transition cancel: by owner.
cancelIn(u, r) ==
  /\ InScope(u, r)
  /\ rows[r].status = "booked"
  /\ Replace(r, [rows[r] EXCEPT !.status = "draft"])

transferIn(d, u, t, from, to, amount) ==
  /\ t \in DOMAIN d.transfers
  /\ from # to
  /\ d.transfers[t].gated => u \in members
  /\ InScope(u, from)
  /\ rows[from].balance - amount >= d.transfers[t].min
  /\ to \in StoredIn(rows)
  /\ rows[to].balance + amount <= MaxSafe
  /\ rows' = [rows EXCEPT ![from].balance = @ - amount,
                          ![to].balance = @ + amount]

\* reassignOwner: everything u owns, and u's membership, becomes v's.
Moved(u, v) ==
  [r \in Ids |-> IF InScope(u, r) THEN [rows[r] EXCEPT !.owner = v] ELSE rows[r]]

reassignOwner(d, u, v) ==
  /\ u # v
  /\ OwnedIn(rows, u) # {} =>
       /\ Cardinality(OwnedIn(Moved(u, v), v)) <= d.maxRecordsPerOwner
       /\ ~Overlapping(Moved(u, v), {v})
  /\ rows' = Moved(u, v)
  /\ members' = IF u \in members THEN (members \ {u}) \cup {v} ELSE members
=============================================================================
