------------------------------ MODULE PgTables ------------------------------
(***************************************************************************)
(* RecordUser, RecordRating and RecordRecommendation on PostgreSQL: one    *)
(* table, and transactions that insert a row, prune the table and commit.  *)
(*                                                                         *)
(* bun starts them at PostgreSQL's default level, READ COMMITTED.  A       *)
(* statement sees the rows committed when it starts and those of its own   *)
(* transaction.  A DELETE locks its rows one by one, waits for a row that  *)
(* another transaction has deleted, and passes over it if that one         *)
(* commits.  Ids come from a sequence: an id is used up even when the      *)
(* INSERT that drew it fails.                                              *)
(***************************************************************************)
EXTENDS TableLimits

CONSTANTS
  Transactions,  \* connections that may run a transaction at the same time
  Fixed, Maximum,
  SeedRows,      \* rows that the fixtures insert, with explicit ids
  SequenceReset, \* whether seed_db.go sets the sequence after them: foods only
  IdBound        \* largest id explored

ASSUME PgAssumption ==
  /\ Fixed \in Int /\ Maximum \in Int
  /\ SeedRows \in Nat /\ IdBound \in Nat
  /\ SequenceReset \in BOOLEAN
  /\ IsFiniteSet(Transactions)

VARIABLES
  rows,      \* ids of the committed rows
  sequence,  \* the last id drawn
  tx         \* transaction -> its progress

vars == <<rows, sequence, tx>>

\* pc; the id inserted; rows still to lock; rows deleted; the last outcome.
State(pc, id, todo, deleted, outcome) ==
  [pc |-> pc, id |-> id, todo |-> todo, deleted |-> deleted, outcome |-> outcome]

Init ==
  /\ rows = 1..SeedRows
  /\ sequence = IF SequenceReset THEN SeedRows ELSE 0
  /\ tx = [t \in Transactions |-> State("idle", 0, {}, {}, "none")]

At(t, label) == tx[t].pc = label

Become(t, state) == tx' = [tx EXCEPT ![t] = state]

\* Mutant of NextId: the id follows the newest row that is committed.
MaxPlusOne == IF rows = {} THEN 1 ELSE 1 + CHOOSE i \in rows : \A j \in rows : j <= i
NextId == sequence + 1

\* Mutant of Drawn: a failed INSERT gives its id back.
DrawnIfFree(id) == IF id \in rows THEN id - 1 ELSE id
Drawn(id) == id

\* INSERT ... RETURNING id: the row takes the next id of the sequence, or there
\* is such a row already and the transaction is rolled back.
Insert(t) ==
  /\ At(t, "idle")
  /\ sequence < IdBound
  /\ LET id == NextId
     IN /\ sequence' = Drawn(id)
        /\ \/ id \in rows /\ Become(t, State("idle", id, {}, {}, "duplicate"))
           \/ id \notin rows /\ Become(t, State("inserted", id, {}, {}, "none"))
  /\ UNCHANGED rows

\* The DELETE of enforceTableSizeLimits starts: it sees the committed rows and
\* its own.
StartPruning(t) ==
  /\ At(t, "inserted")
  /\ LET seen == rows \cup {tx[t].id}
     IN Become(t, State("pruning", tx[t].id, seen \ Kept(seen, Fixed, Maximum), {}, "none"))
  /\ UNCHANGED <<rows, sequence>>

LockedByOthers(t) == UNION {tx[u].deleted : u \in Transactions \ {t}}

\* Mutant of NextRows: a DELETE may visit its rows in any order.
AnyRows(todo) == todo
\* A DELETE visits its rows in the table's order, as a sequential scan does; a
\* plan that follows two indexes in different orders is not modelled.
NextRows(todo) == {i \in todo : \A j \in todo : i <= j}

\* The DELETE's next row: it waits while another transaction has deleted the
\* row, and passes over a row that is gone.
PruneRow(t) ==
  /\ At(t, "pruning")
  /\ \E i \in NextRows(tx[t].todo) :
       /\ i \notin LockedByOthers(t)
       /\ LET gone == i \notin rows \cup {tx[t].id}
          IN Become(t, State("pruning", tx[t].id, tx[t].todo \ {i},
                             IF gone THEN tx[t].deleted ELSE tx[t].deleted \cup {i}, "none"))
  /\ UNCHANGED <<rows, sequence>>

Commit(t) ==
  /\ At(t, "pruning")
  /\ tx[t].todo = {}
  /\ rows' = (rows \cup {tx[t].id}) \ tx[t].deleted
  /\ Become(t, State("idle", tx[t].id, {}, {}, "created"))
  /\ UNCHANGED sequence

\* The request is cancelled or its connection lost: nothing remains but the
\* id that was drawn.
Rollback(t) ==
  /\ ~At(t, "idle")
  /\ Become(t, State("idle", tx[t].id, {}, {}, "failed"))
  /\ UNCHANGED <<rows, sequence>>

Advance(t) == StartPruning(t) \/ PruneRow(t) \/ Commit(t)

Next == \E t \in Transactions : Insert(t) \/ Advance(t) \/ Rollback(t)

Spec == Init /\ [][Next]_vars

\* A handler goes on with the transaction it has begun.
FairSpec == Spec /\ \A t \in Transactions : WF_vars(Advance(t))

-----------------------------------------------------------------------------
(* Properties *)

TxType ==
  [pc : {"idle", "inserted", "pruning"}, id : Nat, todo : SUBSET Nat, deleted : SUBSET Nat,
   outcome : {"none", "duplicate", "created", "failed"}]

\* Every variable has its type, and ids are drawn once: none is above the
\* sequence but those of the fixtures, and no two transactions hold the same.
TypeOK ==
  /\ rows \subseteq Nat
  /\ sequence \in Nat
  /\ tx \in [Transactions -> TxType]
  /\ \A i \in rows : i <= sequence \/ i <= SeedRows
  /\ \A t, u \in Transactions : ~At(t, "idle") /\ ~At(u, "idle") /\ tx[t].id = tx[u].id => t = u

Others == Cardinality(Transactions) - 1

\* A negative number of fixed rows protects as many as none.
Protected == IF Fixed > 0 THEN Fixed ELSE 0

\* The table may outgrow its limit, because transactions do not see each
\* other's rows, but by no more rows than other transactions can be inserting.
OvershootBounded ==
  Maximum > 0 /\ (\E t \in Transactions : tx[t].outcome = "created") =>
    Cardinality(rows) <= Maximum + Protected + Others

\* A row answered with 201 is stored until Maximum newer ids have been drawn;
\* a transaction that prunes late may delete the row it has just inserted.
CreatedStored ==
  \A t \in Transactions :
    tx[t].outcome = "created" /\ tx[t].id \notin rows
      => Maximum > 0 /\ sequence - tx[t].id >= Maximum

Refused(t) == tx'[t] # tx[t] /\ tx'[t].outcome = "duplicate"

\* A sequence that is behind the fixtures refuses at most as many rows as they
\* have: every refusal uses up one of their ids.
RefusalsEnd ==
  [][\A t \in Transactions : Refused(t) => sequence < sequence' /\ sequence' <= SeedRows]_vars

\* Every row that the DELETE could go on with is locked by another transaction.
Waits(t) ==
  At(t, "pruning") /\ tx[t].todo # {} /\ NextRows(tx[t].todo) \subseteq LockedByOthers(t)

\* Concurrent DELETEs never wait for each other in a circle, although each keeps
\* its locks until it commits: of the transactions under way, one can go on.
NoDeadlock ==
  (\E t \in Transactions : ~At(t, "idle")) =>
    \E t \in Transactions : ~At(t, "idle") /\ ~Waits(t)

\* No transaction waits forever for another's locks.
TransactionsEnd == \A t \in Transactions : ~At(t, "idle") ~> At(t, "idle")

=============================================================================
