--------------------------- MODULE PgTablesProofs ---------------------------
(***************************************************************************)
(* The invariants of PgTables, for any number of transactions, any limits  *)
(* and any number of seeded rows.                                          *)
(*                                                                         *)
(* Base relates the rows, the sequence and what the transactions have      *)
(* drawn and locked.  Snapshots is what bounds the overshoot.  It gives    *)
(* every DELETE the time at which it started: of two transactions that     *)
(* prune, the one that started later has seen whatever the other cannot    *)
(* add any more.  The time of the latest DELETE that was committed splits  *)
(* the others into those that it has seen nothing of, which may add one    *)
(* row each, and those that will prune what it has left.                   *)
(***************************************************************************)
EXTENDS PgTables, TableLimitsProofs, WellFoundedInduction

Active(t) == ~At(t, "idle")

\* As long as the sequence is behind the fixtures, nothing has been inserted.
Seeding ==
  sequence < SeedRows =>
    /\ rows = 1..SeedRows
    /\ \A t \in Transactions : At(t, "idle") /\ tx[t].outcome # "created"

\* A row that a transaction deletes is older than Maximum others.
Outdated(i) == Maximum > 0 /\ i <= sequence - Maximum

TxOK(t) ==
  /\ tx[t] \in TxType
  /\ tx[t].pc # "idle" => SeedRows < tx[t].id /\ tx[t].id <= sequence
  /\ \A i \in tx[t].todo \cup tx[t].deleted : Outdated(i)
  /\ tx[t].outcome = "created" /\ tx[t].id \notin rows => Outdated(tx[t].id)

Base ==
  /\ sequence \in Nat
  /\ tx \in [Transactions -> TxType]
  /\ rows \subseteq 1..(IF sequence < SeedRows THEN SeedRows ELSE sequence)
  /\ Seeding
  /\ \A t \in Transactions : TxOK(t)
  /\ \A t, u \in Transactions : Active(t) /\ Active(u) /\ tx[t].id = tx[u].id => t = u

-----------------------------------------------------------------------------

\* The assumptions on the constants.
LEMMA Constants ==
  /\ Fixed \in Int /\ Maximum \in Int /\ SeedRows \in Nat /\ IsFiniteSet(Transactions)
BY PgAssumption

\* The initial state.
LEMMA InitBase == Init => Base
<1> SUFFICES ASSUME Init
             PROVE  Base
  OBVIOUS
<1> USE Constants DEF Init
<1>1. sequence \in Nat /\ rows = 1..SeedRows /\ sequence <= SeedRows
  OBVIOUS
<1>2. State("idle", 0, {}, {}, "none") \in TxType
  BY DEF State, TxType
<1>3. \A t \in Transactions : tx[t] = State("idle", 0, {}, {}, "none")
  OBVIOUS
<1>4. Seeding
  BY <1>1, <1>3 DEF Seeding, At, State
<1>5. \A t \in Transactions : TxOK(t) /\ ~Active(t)
  BY <1>2, <1>3 DEF TxOK, Active, At, State
<1>6. tx \in [Transactions -> TxType]
  BY <1>2
<1>7. rows \subseteq 1..(IF sequence < SeedRows THEN SeedRows ELSE sequence)
  BY <1>1
<1> QED
  BY <1>1, <1>4, <1>5, <1>6, <1>7 DEF Base

\* Replacing the record of one transaction.
LEMMA BecomeOK ==
  ASSUME Base, NEW t \in Transactions, NEW r \in TxType, Become(t, r)
  PROVE  /\ tx' \in [Transactions -> TxType]
         /\ tx'[t] = r
         /\ \A u \in Transactions : u # t => tx'[u] = tx[u]
BY DEF Base, Become

\* Ids only fall further behind the sequence.
LEMMA OutdatedStays ==
  ASSUME sequence \in Nat, sequence' \in Nat, sequence <= sequence', NEW i \in Nat, Outdated(i)
  PROVE  Outdated(i)'
<1>1. Maximum \in Int
  BY Constants
<1>2. \A m \in Int, r, s \in Nat : r <= s /\ i <= r - m => i <= s - m
  OBVIOUS
<1> QED
  BY <1>1, <1>2 DEF Outdated

\* Where the rows stay and the sequence does not fall, what is known of the
\* other transactions stays true.
LEMMA OthersOK ==
  ASSUME Base, NEW t \in Transactions, NEW r \in TxType, Become(t, r),
         sequence' \in Nat, sequence <= sequence', UNCHANGED rows
  PROVE  \A u \in Transactions : u # t => TxOK(u)'
<1>0. sequence \in Nat
  BY DEF Base
<1> SUFFICES ASSUME NEW u \in Transactions, u # t
             PROVE  TxOK(u)'
  OBVIOUS
<1> USE Constants
<1>1. tx'[u] = tx[u]
  BY BecomeOK
<1>2. tx[u] \in TxType /\ tx[u].id \in Nat /\ \A i \in tx[u].todo \cup tx[u].deleted : i \in Nat
  BY DEF Base, TxType
<1>3. \A i \in Nat : Outdated(i) => Outdated(i)'
  BY <1>0, OutdatedStays
<1>4. TxOK(u) /\ sequence \in Nat
  BY DEF Base
<1> QED
  BY <1>1, <1>2, <1>3, <1>4 DEF TxOK

\* Inserting a row, or finding that there is one with its id.
LEMMA InsertBase ==
  ASSUME Base, NEW t \in Transactions, Insert(t)
  PROVE  Base'
<1> USE Constants
<1> DEFINE id == sequence + 1
           dup == State("idle", id, {}, {}, "duplicate")
           ins == State("inserted", id, {}, {}, "none")
<1>1. /\ sequence \in Nat /\ sequence' = id /\ UNCHANGED rows
      /\ \/ id \in rows /\ Become(t, dup)
         \/ id \notin rows /\ Become(t, ins)
  BY DEF Base, Insert, NextId, Drawn
<1>2. dup \in TxType /\ ins \in TxType
  BY <1>1 DEF State, TxType
<1>3. \A u \in Transactions : u # t => TxOK(u)'
  BY <1>1, <1>2, OthersOK
<1>4. CASE id \in rows /\ Become(t, dup)
  <2>1. /\ tx' \in [Transactions -> TxType] /\ tx'[t] = dup
        /\ \A u \in Transactions : u # t => tx'[u] = tx[u]
    BY <1>2, <1>4, BecomeOK
  <2>2. TxOK(t)'
    BY <1>2, <2>1 DEF TxOK, State
  <2>3. ~Active(t)' /\ \A u \in Transactions : u # t => Active(u)' = Active(u)
    BY <2>1 DEF Active, At, State
  <2>4. Seeding'
    BY <1>1, <2>1 DEF Base, Seeding, At, State
  <2>5. rows' \subseteq 1..(IF sequence' < SeedRows THEN SeedRows ELSE sequence')
    BY <1>1 DEF Base
  <2>6. \A u, v \in Transactions : Active(u)' /\ Active(v)' /\ tx'[u].id = tx'[v].id => u = v
    BY <2>1, <2>3 DEF Base
  <2> QED
    BY <1>1, <1>3, <2>1, <2>2, <2>4, <2>5, <2>6 DEF Base
<1>5. CASE id \notin rows /\ Become(t, ins)
  <2>1. /\ tx' \in [Transactions -> TxType] /\ tx'[t] = ins
        /\ \A u \in Transactions : u # t => tx'[u] = tx[u]
    BY <1>2, <1>5, BecomeOK
  <2>2. sequence >= SeedRows
    BY <1>1, <1>5 DEF Base, Seeding
  <2>3. TxOK(t)'
    BY <1>1, <1>2, <2>1, <2>2 DEF TxOK, State
  <2>4. Seeding'
    BY <1>1, <2>2 DEF Seeding
  <2>5. rows' \subseteq 1..(IF sequence' < SeedRows THEN SeedRows ELSE sequence')
    BY <1>1 DEF Base
  <2>6. \A u \in Transactions : u # t => Active(u)' = Active(u)
    BY <2>1 DEF Active, At
  <2>7. \A u \in Transactions : u # t /\ Active(u) => tx[u].id <= sequence /\ tx[u].id \in Nat
    BY DEF Base, TxOK, Active, At, TxType
  <2>8. tx'[t].id = id
    BY <2>1 DEF State
  <2>9. \A u, v \in Transactions : Active(u)' /\ Active(v)' /\ tx'[u].id = tx'[v].id => u = v
    BY <1>1, <2>1, <2>6, <2>7, <2>8 DEF Base
  <2> QED
    BY <1>1, <1>3, <2>1, <2>3, <2>4, <2>5, <2>9 DEF Base
<1> QED
  BY <1>1, <1>4, <1>5

\* An active transaction has an id beyond the fixtures, and so has the sequence.
LEMMA ActiveBeyond ==
  ASSUME Base, NEW t \in Transactions, Active(t)
  PROVE  /\ tx[t].id \in Nat /\ SeedRows < tx[t].id /\ tx[t].id <= sequence
         /\ rows \subseteq 1..sequence
         /\ rows \cup {tx[t].id} \in SUBSET (1..sequence)
<1> USE Constants
<1>1. tx[t].id \in Nat /\ SeedRows < tx[t].id /\ tx[t].id <= sequence /\ sequence \in Nat
  BY DEF Base, TxOK, TxType, Active, At
<1>2. rows \subseteq 1..sequence
  BY <1>1 DEF Base
<1>3. tx[t].id \in 1..sequence
  <2>1. \A id, last, seeds \in Nat : seeds < id /\ id <= last => id \in 1..last
    OBVIOUS
  <2> QED
    BY <1>1, <2>1
<1> QED
  BY <1>1, <1>2, <1>3

\* A step that changes nothing but the record of one transaction, and lets it
\* delete outdated rows only.
LEMMA QuietBase ==
  ASSUME Base, NEW t \in Transactions, NEW r \in TxType, Become(t, r),
         UNCHANGED <<rows, sequence>>, Active(t),
         r.pc # "idle" => r.id = tx[t].id,
         \A i \in r.todo \cup r.deleted : Outdated(i),
         r.outcome # "created"
  PROVE  Base'
<1> USE Constants
<1>1. /\ tx' \in [Transactions -> TxType] /\ tx'[t] = r
      /\ \A u \in Transactions : u # t => tx'[u] = tx[u]
  BY BecomeOK
<1>2. sequence \in Nat /\ sequence' \in Nat /\ sequence <= sequence'
  BY DEF Base
<1>3. \A u \in Transactions : u # t => TxOK(u)'
  BY <1>2, OthersOK
<1>4. \A i : Outdated(i)' = Outdated(i)
  BY DEF Outdated
<1>5. TxOK(t)'
  BY <1>1, <1>4, ActiveBeyond DEF TxOK
<1>6. Seeding'
  BY ActiveBeyond, <1>2 DEF Seeding
<1>7. \A u \in Transactions : Active(u)' => Active(u) /\ tx'[u].id = tx[u].id
  BY <1>1 DEF Active, At
<1>8. \A u, v \in Transactions : Active(u)' /\ Active(v)' /\ tx'[u].id = tx'[v].id => u = v
  BY <1>7 DEF Base
<1>9. rows' \subseteq 1..(IF sequence' < SeedRows THEN SeedRows ELSE sequence')
  BY DEF Base
<1> QED
  BY <1>1, <1>2, <1>3, <1>5, <1>6, <1>8, <1>9 DEF Base

\* The DELETE begins: what it is to delete is outdated.
LEMMA StartPruningBase ==
  ASSUME Base, NEW t \in Transactions, StartPruning(t)
  PROVE  Base'
<1> USE Constants
<1> DEFINE seen == rows \cup {tx[t].id}
           doomed == seen \ Kept(seen, Fixed, Maximum)
           r == State("pruning", tx[t].id, doomed, {}, "none")
<1>1. Active(t)
  BY DEF StartPruning, Active, At
<1>2. sequence \in Nat /\ seen \in SUBSET (1..sequence) /\ tx[t].id \in Nat
  BY <1>1, ActiveBeyond DEF Base
<1>3. \A i \in doomed : Outdated(i)
  <2> SUFFICES ASSUME NEW i \in seen, i \notin Kept(seen, Fixed, Maximum)
               PROVE  Outdated(i)
    OBVIOUS
  <2>1. ~(Maximum <= 0 \/ i > sequence - Maximum \/ i <= Fixed)
    BY <1>2, KeptRecent
  <2>2. i \in Nat /\ Maximum \in Int /\ sequence \in Nat
    BY <1>2
  <2> HIDE DEF seen
  <2> QED
    BY <2>2, <2>1 DEF Outdated
<1>4. r \in TxType
  BY <1>2 DEF State, TxType
<1>5. Become(t, r) /\ UNCHANGED <<rows, sequence>>
  BY DEF StartPruning
<1>6. r.id = tx[t].id /\ r.todo = doomed /\ r.deleted = {} /\ r.outcome = "none"
  BY DEF State
<1> HIDE DEF r, doomed
<1> QED
  BY <1>1, <1>3, <1>4, <1>5, <1>6, QuietBase

\* The DELETE comes to a row.
LEMMA PruneRowBase ==
  ASSUME Base, NEW t \in Transactions, PruneRow(t)
  PROVE  Base'
<1> DEFINE r(i, deleted) == State("pruning", tx[t].id, tx[t].todo \ {i}, deleted, "none")
<1>1. Active(t) /\ tx[t] \in TxType
  BY DEF PruneRow, Active, At, Base
<1>2. PICK i \in tx[t].todo, deleted \in SUBSET (tx[t].todo \cup tx[t].deleted) :
        Become(t, r(i, deleted)) /\ UNCHANGED <<rows, sequence>>
  BY DEF PruneRow, NextRows
<1>4. r(i, deleted) \in TxType
  BY <1>1 DEF State, TxType
<1>5. /\ r(i, deleted).id = tx[t].id /\ r(i, deleted).outcome = "none"
      /\ r(i, deleted).todo \cup r(i, deleted).deleted \subseteq tx[t].todo \cup tx[t].deleted
  BY DEF State
<1>6. \A k \in tx[t].todo \cup tx[t].deleted : Outdated(k)
  BY DEF Base, TxOK
<1> HIDE DEF r
<1> QED
  BY <1>1, <1>2, <1>4, <1>5, <1>6, QuietBase

\* The transaction is rolled back.
LEMMA RollbackBase ==
  ASSUME Base, NEW t \in Transactions, Rollback(t)
  PROVE  Base'
<1> DEFINE r == State("idle", tx[t].id, {}, {}, "failed")
<1>1. Active(t) /\ tx[t] \in TxType
  BY DEF Rollback, Active, Base
<1>2. Become(t, r) /\ UNCHANGED <<rows, sequence>>
  BY DEF Rollback
<1>3. r \in TxType /\ r.pc = "idle" /\ r.todo = {} /\ r.deleted = {} /\ r.outcome = "failed"
  BY <1>1 DEF State, TxType
<1> HIDE DEF r
<1> QED
  BY <1>1, <1>2, <1>3, QuietBase

\* The transaction commits: who has been answered before may lose the row, but
\* only to a DELETE that has found it outdated.
LEMMA CommitBase ==
  ASSUME Base, NEW t \in Transactions, Commit(t)
  PROVE  Base'
<1> USE Constants
<1> DEFINE r == State("idle", tx[t].id, {}, {}, "created")
<1>1. Active(t) /\ tx[t] \in TxType
  BY DEF Commit, Active, At, Base
<1>2. /\ Become(t, r) /\ UNCHANGED sequence /\ sequence \in Nat
      /\ rows' = (rows \cup {tx[t].id}) \ tx[t].deleted
  BY DEF Commit, Base
<1>3. /\ r \in TxType /\ r.pc = "idle" /\ r.todo = {} /\ r.deleted = {}
      /\ r.id = tx[t].id
  BY <1>1 DEF State, TxType
<1> HIDE DEF r
<1>4. /\ tx' \in [Transactions -> TxType] /\ tx'[t] = r
      /\ \A u \in Transactions : u # t => tx'[u] = tx[u]
  BY <1>2, <1>3, BecomeOK
<1>5. \A i : Outdated(i)' = Outdated(i)
  BY <1>2 DEF Outdated
<1>6. \A i \in tx[t].deleted : Outdated(i)
  BY DEF Base, TxOK
<1>7. TxOK(t)'
  BY <1>2, <1>3, <1>4, <1>5, <1>6 DEF TxOK
<1>8. ASSUME NEW u \in Transactions, u # t
      PROVE  TxOK(u)'
  <2>1. TxOK(u) /\ tx'[u] = tx[u]
    BY <1>4, <1>8 DEF Base
  <2>2. tx[u].id \in rows /\ tx[u].id \notin rows' => Outdated(tx[u].id)
    BY <1>2, <1>6
  <2> QED
    BY <1>2, <1>5, <2>1, <2>2 DEF TxOK
<1>9. sequence >= SeedRows /\ rows \cup {tx[t].id} \subseteq 1..sequence
  BY <1>1, <1>2, ActiveBeyond
<1>10. Seeding'
  BY <1>2, <1>9 DEF Seeding
<1>11. rows' \subseteq 1..(IF sequence' < SeedRows THEN SeedRows ELSE sequence')
  BY <1>2, <1>9
<1>12. \A u \in Transactions : Active(u)' => Active(u) /\ tx'[u].id = tx[u].id
  BY <1>3, <1>4 DEF Active, At
<1>13. \A u, v \in Transactions : Active(u)' /\ Active(v)' /\ tx'[u].id = tx'[v].id => u = v
  BY <1>12 DEF Base
<1> QED
  BY <1>2, <1>4, <1>7, <1>8, <1>10, <1>11, <1>13 DEF Base

\* Base is an invariant.
LEMMA BaseAlways == Spec => []Base
<1>1. Base /\ [Next]_vars => Base'
  <2> SUFFICES ASSUME Base, [Next]_vars
               PROVE  Base'
    OBVIOUS
  <2>1. ASSUME NEW t \in Transactions, Insert(t)
        PROVE  Base'
    BY <2>1, InsertBase
  <2>2. ASSUME NEW t \in Transactions, StartPruning(t)
        PROVE  Base'
    BY <2>2, StartPruningBase
  <2>3. ASSUME NEW t \in Transactions, PruneRow(t)
        PROVE  Base'
    BY <2>3, PruneRowBase
  <2>4. ASSUME NEW t \in Transactions, Commit(t)
        PROVE  Base'
    BY <2>4, CommitBase
  <2>5. ASSUME NEW t \in Transactions, Rollback(t)
        PROVE  Base'
    BY <2>5, RollbackBase
  <2>6. CASE UNCHANGED vars
    BY <2>6 DEF vars, Base, Seeding, TxOK, Outdated, Active, At
  <2> QED
    BY <2>1, <2>2, <2>3, <2>4, <2>5, <2>6 DEF Next, Advance
<1> QED
  BY <1>1, InitBase, PTL DEF Spec

-----------------------------------------------------------------------------

\* Every variable has its type; no two transactions hold the same id, and no
\* row has an id that the sequence is still to give, but for the fixtures.
THEOREM TypeCorrect == Spec => []TypeOK
<1>1. Base => TypeOK
  <2> SUFFICES ASSUME Base
               PROVE  TypeOK
    OBVIOUS
  <2>1. rows \subseteq Nat /\ \A i \in rows : i <= sequence \/ i <= SeedRows
    <3>1. SeedRows \in Nat /\ sequence \in Nat
      BY Constants DEF Base
    <3>2. rows \subseteq 1..SeedRows \/ rows \subseteq 1..sequence
      BY <3>1 DEF Base
    <3> QED
      BY <3>1, <3>2
  <2> QED
    BY <2>1 DEF Base, TypeOK, Active
<1> QED
  BY <1>1, BaseAlways, PTL

\* A row answered with 201 is stored until Maximum newer ids have been drawn,
\* however many transactions prune at the same time.
THEOREM CreatedStays == Spec => []CreatedStored
<1>1. Base => CreatedStored
  <2> SUFFICES ASSUME Base, NEW t \in Transactions,
                      tx[t].outcome = "created", tx[t].id \notin rows
               PROVE  Maximum > 0 /\ sequence - tx[t].id >= Maximum
    BY DEF CreatedStored
  <2>1. sequence \in Nat /\ tx[t].id \in Nat /\ Maximum \in Int
    BY Constants DEF Base, TxType
  <2>2. Maximum > 0 /\ tx[t].id <= sequence - Maximum
    BY DEF Base, TxOK, Outdated
  <2> QED
    BY <2>1, <2>2
<1> QED
  BY <1>1, BaseAlways, PTL

\* Only the ids of the fixtures are ever refused, each of them once.
THEOREM RefusalsUseUpFixtures == Spec => RefusalsEnd
<1>1. Base /\ [Next]_vars =>
        [\A t \in Transactions : Refused(t) => sequence < sequence' /\ sequence' <= SeedRows]_vars
  <2> SUFFICES ASSUME Base, Next, NEW t \in Transactions, Refused(t)
               PROVE  sequence < sequence' /\ sequence' <= SeedRows
    OBVIOUS
  <2>1. PICK u \in Transactions : Insert(u) \/ Advance(u) \/ Rollback(u)
    BY DEF Next
  <2>2. tx \in [Transactions -> TxType]
    BY DEF Base
  <2>3. ~Advance(u) /\ ~Rollback(u)
    BY <2>2 DEF Refused, Advance, StartPruning, PruneRow, Commit, Rollback, Become, State
  <2>4. PICK id \in {sequence + 1} :
          /\ sequence' = id
          /\ \/ id \in rows
             \/ Become(u, State("inserted", id, {}, {}, "none"))
    BY <2>1, <2>3 DEF Insert, NextId, Drawn
  <2>5. sequence + 1 \in rows
    BY <2>2, <2>4 DEF Refused, Become, State
  <2>6. sequence \in Nat /\ SeedRows \in Nat
    BY Constants DEF Base
  <2>7. rows \subseteq 1..SeedRows \/ rows \subseteq 1..sequence
    BY <2>6 DEF Base
  <2> QED
    BY <2>4, <2>5, <2>6, <2>7
<1> QED
  BY <1>1, BaseAlways, PTL DEF Spec, RefusalsEnd

-----------------------------------------------------------------------------
(* Locks *)

\* A transaction that waits has locked rows before the one that it waits for,
\* and only a DELETE locks rows.
LocksInOrder(t) ==
  /\ \A i \in tx[t].deleted, j \in tx[t].todo : i < j
  /\ tx[t].deleted # {} => At(t, "pruning")

Locks == \A t \in Transactions : LocksInOrder(t)

\* A set of numbers has a smallest one: the fewest numbers are below it.
LEMMA Smallest ==
  ASSUME NEW S \in SUBSET Nat, S # {}
  PROVE  \E i \in S : \A j \in S : i <= j
<1> DEFINE Below(i) == {j \in S : j < i}
           Belows == {Below(i) : i \in S}
           R == StrictSubsetOrdering(S)
<1>1. \A i \in S : Below(i) \in FiniteSubsetsOf(S)
  <2> SUFFICES ASSUME NEW i \in S
               PROVE  IsFiniteSet(Below(i))
    BY DEF FiniteSubsetsOf
  <2>1. i \in Nat /\ Below(i) \in SUBSET Nat
    OBVIOUS
  <2>2. \A j, k \in Nat : j < k => j <= k
    OBVIOUS
  <2>3. \A j \in Below(i) : j <= i
    BY <2>1, <2>2
  <2> QED
    BY <2>1, <2>3, FS_BoundedSetOfNaturals
<1>2. Belows \subseteq FiniteSubsetsOf(S) /\ Belows # {}
  BY <1>1
<1>3. IsWellFoundedOn(R, FiniteSubsetsOf(S))
  BY FS_StrictSubsetOrderingWellFounded
<1>4. PICK least \in Belows : \A other \in Belows : <<other, least>> \notin R
  <2> HIDE DEF R, Belows
  <2> QED
    BY <1>2, <1>3, WFMin
<1>5. PICK i \in S : least = Below(i)
  BY <1>4
<1>6. \A j \in S : ~(j < i)
  <2> SUFFICES ASSUME NEW j \in S, j < i
               PROVE  FALSE
    OBVIOUS
  <2>1. i \in Nat /\ j \in Nat /\ S \subseteq Nat
    OBVIOUS
  <2>2. Below(j) \subseteq Below(i) /\ j \in Below(i) /\ j \notin Below(j)
    <3>1. \A k, l, m \in Nat : ~(k < k) /\ (k < l /\ l < m => k < m)
      OBVIOUS
    <3>2. \A k \in S : k \in Nat
      BY <2>1
    <3>3. \A k \in S : k < j => k < i
      BY <2>1, <3>1, <3>2
    <3>4. ~(j < j)
      BY <2>1, <3>1
    <3> QED
      BY <3>3, <3>4
  <2>3. <<Below(j), Below(i)>> \in R
    BY <2>2 DEF StrictSubsetOrdering
  <2> QED
    BY <1>4, <1>5, <2>3
<1> QED
  BY <1>6

\* So has a bounded set of numbers a largest one.
LEMMA Largest ==
  ASSUME NEW S \in SUBSET Nat, S # {}, NEW n \in Nat, \A i \in S : i <= n
  PROVE  \E i \in S : \A j \in S : j <= i
<1> DEFINE Gaps == {n - i : i \in S}
<1>0. S \subseteq Nat
  OBVIOUS
<1>1. Gaps \in SUBSET Nat /\ Gaps # {}
  <2>1. \A m \in Nat : m <= n => n - m \in Nat
    OBVIOUS
  <2>2. \A i \in S : n - i \in Nat
    BY <1>0, <2>1
  <2> QED
    BY <2>2
<1>2. PICK gap \in Gaps : \A other \in Gaps : gap <= other
  <2> HIDE DEF Gaps
  <2> QED
    BY <1>1, Smallest
<1>3. PICK i \in S : gap = n - i
  BY <1>2
<1>4. \A j \in S : n - i <= n - j
  BY <1>2, <1>3
<1>5. \A m, k \in Nat : n - m <= n - k => k <= m
  OBVIOUS
<1>6. i \in Nat /\ \A j \in S : j \in Nat
  BY <1>0
<1> QED
  BY <1>4, <1>5, <1>6

\* A transaction whose record says so locks in order.
LEMMA BecomeLocks ==
  ASSUME Base, Locks, NEW t \in Transactions, NEW r \in TxType, Become(t, r),
         \A i \in r.deleted, j \in r.todo : i < j,
         r.deleted # {} => r.pc = "pruning"
  PROVE  Locks'
BY BecomeOK DEF Locks, LocksInOrder, At

\* The DELETE visits its rows in the table's order.
LEMMA PruneRowLocks ==
  ASSUME Base, Locks, NEW t \in Transactions, PruneRow(t)
  PROVE  Locks'
<1> DEFINE r(i, deleted) == State("pruning", tx[t].id, tx[t].todo \ {i}, deleted, "none")
<1>1. tx[t] \in TxType
  BY DEF Base
<1>2. PICK i \in NextRows(tx[t].todo), deleted \in SUBSET Nat :
        deleted \subseteq tx[t].deleted \cup {i} /\ Become(t, r(i, deleted))
  BY <1>1 DEF PruneRow, NextRows, TxType
<1>3. i \in tx[t].todo /\ \A j \in tx[t].todo : i <= j
  BY <1>2 DEF NextRows
<1>4. i \in Nat /\ tx[t].todo \subseteq Nat
  BY <1>1, <1>3 DEF TxType
<1>5. \A j \in tx[t].todo \ {i} : i < j
  BY <1>3, <1>4
<1>6. \A k \in deleted, j \in tx[t].todo \ {i} : k < j
  BY <1>2, <1>5 DEF Locks, LocksInOrder
<1>7. r(i, deleted) \in TxType
  BY <1>1, <1>2, <1>4 DEF State, TxType
<1>8. /\ r(i, deleted).deleted = deleted /\ r(i, deleted).todo = tx[t].todo \ {i}
      /\ r(i, deleted).pc = "pruning"
  BY DEF State
<1> HIDE DEF r
<1> QED
  BY <1>2, <1>6, <1>7, <1>8, BecomeLocks

\* Every other step leaves its transaction without locks.
LEMMA OtherLocks ==
  ASSUME Base, Locks, NEW t \in Transactions,
         Insert(t) \/ StartPruning(t) \/ Commit(t) \/ Rollback(t)
  PROVE  Locks'
<1>1. tx[t] \in TxType /\ sequence + 1 \in Nat /\ rows \subseteq Nat
  BY Constants DEF Base
<1>2. ASSUME NEW r \in TxType, Become(t, r), r.deleted = {}
      PROVE  Locks'
  BY <1>2, BecomeLocks
<1>3. ASSUME NEW pc \in {"idle", "inserted", "pruning"}, NEW id \in Nat, NEW todo \in SUBSET Nat,
             NEW outcome \in {"none", "duplicate", "created", "failed"},
             Become(t, State(pc, id, todo, {}, outcome))
      PROVE  Locks'
  BY <1>2, <1>3 DEF State, TxType
<1>4. CASE Insert(t)
  <2>1. \/ Become(t, State("idle", sequence + 1, {}, {}, "duplicate"))
        \/ Become(t, State("inserted", sequence + 1, {}, {}, "none"))
    BY <1>4 DEF Insert, NextId
  <2> QED
    BY <1>1, <1>3, <2>1
<1>5. tx[t].id \in Nat
  BY <1>1 DEF TxType
<1>6. CASE StartPruning(t)
  <2> DEFINE seen == rows \cup {tx[t].id}
             doomed == seen \ Kept(seen, Fixed, Maximum)
  <2>1. doomed \in SUBSET Nat
    BY <1>1, <1>5
  <2>2. Become(t, State("pruning", tx[t].id, doomed, {}, "none"))
    BY <1>6 DEF StartPruning
  <2> HIDE DEF doomed
  <2> QED
    BY <1>3, <1>5, <2>1, <2>2
<1>7. CASE Commit(t) \/ Rollback(t)
  <2>1. \E outcome \in {"created", "failed"} : Become(t, State("idle", tx[t].id, {}, {}, outcome))
    BY <1>7 DEF Commit, Rollback
  <2> QED
    BY <1>3, <1>5, <2>1
<1> QED
  BY <1>4, <1>6, <1>7

\* Locks is an invariant.
LEMMA LocksAlways == Spec => []Locks
<1>1. Init => Locks
  BY DEF Init, Locks, LocksInOrder, State
<1>2. Base /\ Locks /\ [Next]_vars => Locks'
  <2> SUFFICES ASSUME Base, Locks, [Next]_vars
               PROVE  Locks'
    OBVIOUS
  <2>1. CASE UNCHANGED vars
    BY <2>1 DEF vars, Locks, LocksInOrder, At
  <2> QED
    BY <2>1, PruneRowLocks, OtherLocks DEF Next, Advance
<1> QED
  BY <1>1, <1>2, BaseAlways, PTL DEF Spec

\* Of the transactions under way, however many, one can go on: if all waited,
\* take the one whose next row comes last in the table.  The holder of that
\* row has locked it in its own DELETE, and waits for a row behind it.
THEOREM SomebodyGoesOn == Spec => []NoDeadlock
<1>1. Base /\ Locks => NoDeadlock
  <2> SUFFICES ASSUME Base, Locks, NEW t \in Transactions, ~At(t, "idle"),
                      \A u \in Transactions : ~At(u, "idle") => Waits(u)
               PROVE  FALSE
    BY DEF NoDeadlock
  <2> DEFINE Awaited == {i \in Nat : \E u \in Transactions : Waits(u) /\ i \in NextRows(tx[u].todo)}
  <2>1. ASSUME NEW u \in Transactions, Waits(u)
        PROVE  \E i \in Awaited : i \in tx[u].todo
    <3>1. tx[u].todo \in SUBSET Nat /\ tx[u].todo # {}
      BY <2>1 DEF Waits, Base, TxType
    <3>2. PICK i \in tx[u].todo : \A j \in tx[u].todo : i <= j
      BY <3>1, Smallest
    <3>3. i \in Nat /\ i \in NextRows(tx[u].todo)
      BY <3>1, <3>2 DEF NextRows
    <3> QED
      BY <2>1, <3>2, <3>3
  <2>2. Awaited # {}
    BY <2>1
  <2>3. \A i \in Awaited : i <= sequence
    <3> SUFFICES ASSUME NEW i \in Nat, NEW u \in Transactions, i \in tx[u].todo
                 PROVE  i <= sequence
      BY DEF NextRows
    <3>1. Outdated(i) /\ sequence \in Nat
      BY DEF Base, TxOK
    <3> QED
      BY <3>1, Constants DEF Outdated
  <2>4. PICK i \in Awaited : \A j \in Awaited : j <= i
    <3>1. Awaited \in SUBSET Nat /\ sequence \in Nat
      BY DEF Base
    <3> HIDE DEF Awaited
    <3> QED
      BY <2>2, <2>3, <3>1, Largest
  <2>5. PICK u \in Transactions : Waits(u) /\ i \in NextRows(tx[u].todo)
    BY <2>4
  <2>6. PICK v \in Transactions : i \in tx[v].deleted
    BY <2>5 DEF Waits, LockedByOthers
  <2>7. Waits(v)
    BY <2>6 DEF Locks, LocksInOrder, At
  <2>8. PICK j \in Awaited : j \in tx[v].todo
    BY <2>1, <2>7
  <2>9. i < j
    BY <2>6, <2>8 DEF Locks, LocksInOrder
  <2>10. i \in Nat /\ j \in Nat /\ j <= i
    BY <2>4, <2>8
  <2> QED
    BY <2>9, <2>10
<1> QED
  BY <1>1, BaseAlways, LocksAlways, PTL

-----------------------------------------------------------------------------
(* How far the table can outgrow its limit *)

Pruning == {t \in Transactions : At(t, "pruning")}

\* What would be left of the table if t went on alone.
Remain(t) == (rows \cup {tx[t].id}) \ (tx[t].todo \cup tx[t].deleted)

\* The transactions whose DELETE has started before a time.
Before(when, s) == {u \in Pruning : when[u] < s}

Bound == Maximum + Protected + Others

\* The DELETE of a transaction t has started at when[t]; the latest one to be
\* committed had started at last, which is 0 before the first commit.
Schedule(when, last, now) ==
  /\ last <= now
  /\ \A t \in Pruning : when[t] \in 1..now /\ when[t] # last
  /\ \A t, u \in Pruning : when[t] = when[u] => t = u
  /\ \A t \in Pruning : when[t] > last =>
       Cardinality(Remain(t)) + Cardinality(Before(when, when[t])) <= Bound
  /\ IF last = 0 THEN \A t \in Transactions : tx[t].outcome # "created"
                 ELSE Cardinality(rows) + Cardinality(Before(when, last)) <= Bound

Snapshots ==
  \E when \in [Transactions -> Nat], last \in Nat, now \in Nat : Schedule(when, last, now)

\* The sets that are counted are finite.
LEMMA Finite ==
  ASSUME Base
  PROVE  /\ IsFiniteSet(rows) /\ Cardinality(rows) \in Nat
         /\ \A t : IsFiniteSet(Remain(t)) /\ Cardinality(Remain(t)) \in Nat
         /\ \A when, s : IsFiniteSet(Before(when, s)) /\ Cardinality(Before(when, s)) \in Nat
         /\ Bound \in Int
<1>1. IsFiniteSet(rows)
  <2>1. \A n \in Nat : IsFiniteSet(1..n)
    BY FS_Interval
  <2>2. rows \subseteq 1..SeedRows \/ rows \subseteq 1..sequence
    BY DEF Base
  <2>3. SeedRows \in Nat /\ sequence \in Nat
    BY Constants DEF Base
  <2> QED
    BY <2>1, <2>2, <2>3, FS_Subset
<1>2. \A t : IsFiniteSet(Remain(t))
  <2> SUFFICES ASSUME NEW t
               PROVE  IsFiniteSet(Remain(t))
    OBVIOUS
  <2>1. IsFiniteSet(rows \cup {tx[t].id})
    BY <1>1, FS_AddElement
  <2> QED
    BY <2>1, FS_Subset DEF Remain
<1>3. \A when, s : IsFiniteSet(Before(when, s))
  BY Constants, FS_Subset DEF Before, Pruning
<1>4. Bound \in Int
  BY Constants, FS_CardinalityType DEF Bound, Protected, Others
<1> QED
  BY <1>1, <1>2, <1>3, <1>4, FS_CardinalityType

\* Before the first transaction there is nothing to count.
LEMMA InitSnapshots == Init => Snapshots
<1> SUFFICES ASSUME Init
             PROVE  Snapshots
  OBVIOUS
<1> DEFINE when == [t \in Transactions |-> 0]
<1>1. when \in [Transactions -> Nat]
  OBVIOUS
<1>2. Pruning = {}
  BY DEF Init, Pruning, At, State
<1>3. \A t \in Transactions : tx[t].outcome # "created"
  BY DEF Init, State
<1>4. Schedule(when, 0, 0)
  BY <1>2, <1>3 DEF Schedule
<1> QED
  BY <1>1, <1>4 DEF Snapshots

\* A step that starts no DELETE, commits none, and leaves to those under way
\* what they would leave.
LEMMA QuietSnapshots ==
  ASSUME Base, Base', Snapshots, UNCHANGED rows, Pruning' \subseteq Pruning,
         \A u \in Pruning' : Remain(u)' = Remain(u),
         \A u \in Transactions : tx'[u].outcome = "created" => tx[u].outcome = "created"
  PROVE  Snapshots'
<1>1. PICK when \in [Transactions -> Nat], last \in Nat, now \in Nat : Schedule(when, last, now)
  BY DEF Snapshots
<1>2. \A s : /\ Cardinality(Before(when, s)') \in Nat /\ Cardinality(Before(when, s)) \in Nat
             /\ Cardinality(Before(when, s)') <= Cardinality(Before(when, s))
  <2> SUFFICES ASSUME NEW s
               PROVE  /\ Cardinality(Before(when, s)') \in Nat /\ Cardinality(Before(when, s)) \in Nat
                      /\ Cardinality(Before(when, s)') <= Cardinality(Before(when, s))
    OBVIOUS
  <2>1. Before(when, s)' \subseteq Before(when, s)
    BY DEF Before
  <2> QED
    BY <2>1, Finite, FS_Subset, FS_CardinalityType
<1>3. Bound \in Int /\ Bound' = Bound /\ Cardinality(rows) \in Nat
      /\ \A u : Cardinality(Remain(u)) \in Nat
  BY Finite DEF Bound, Protected, Others
<1>4. \A a, b, c \in Nat, n \in Int : b <= c /\ a + c <= n => a + b <= n
  OBVIOUS
<1>5. ASSUME NEW t \in Pruning', when[t] > last
      PROVE  Cardinality(Remain(t)') + Cardinality(Before(when, when[t])') <= Bound'
  <2>1. Cardinality(Remain(t)) + Cardinality(Before(when, when[t])) <= Bound
    BY <1>1, <1>5 DEF Schedule
  <2>2. Remain(t)' = Remain(t)
    OBVIOUS
  <2> QED
    BY <1>2, <1>3, <1>4, <2>1, <2>2
<1>6. IF last = 0 THEN \A t \in Transactions : tx'[t].outcome # "created"
      ELSE Cardinality(rows') + Cardinality(Before(when, last)') <= Bound'
  BY <1>1, <1>2, <1>3, <1>4 DEF Schedule
<1>7. Schedule(when, last, now)'
  BY <1>1, <1>5, <1>6 DEF Schedule
<1> QED
  BY <1>7 DEF Snapshots

\* Becoming something that does not prune and has not created a row.
LEMMA LeavesSnapshots ==
  ASSUME Base, Base', Snapshots, NEW t \in Transactions, NEW r, Become(t, r),
         UNCHANGED rows, r.pc # "pruning", r.outcome # "created"
  PROVE  Snapshots'
<1>1. tx'[t] = r /\ \A u \in Transactions : u # t => tx'[u] = tx[u]
  BY DEF Base, Become
<1>2. Pruning' \subseteq Pruning /\ \A u \in Pruning' : Remain(u)' = Remain(u)
  BY <1>1 DEF Pruning, At, Remain
<1> QED
  BY <1>1, <1>2, QuietSnapshots

\* An inserted row is not committed, so it enters nobody's snapshot.
LEMMA InsertSnapshots ==
  ASSUME Base, Base', Snapshots, NEW t \in Transactions, Insert(t)
  PROVE  Snapshots'
<1> DEFINE dup == State("idle", sequence + 1, {}, {}, "duplicate")
           ins == State("inserted", sequence + 1, {}, {}, "none")
<1>1. UNCHANGED rows /\ (Become(t, dup) \/ Become(t, ins))
  BY DEF Insert, NextId
<1>2. /\ dup.pc # "pruning" /\ dup.outcome # "created"
      /\ ins.pc # "pruning" /\ ins.outcome # "created"
  BY DEF State
<1> HIDE DEF dup, ins
<1> QED
  BY <1>1, <1>2, LeavesSnapshots

\* A transaction that is rolled back leaves the committed rows, and its snapshot.
LEMMA RollbackSnapshots ==
  ASSUME Base, Base', Snapshots, NEW t \in Transactions, Rollback(t)
  PROVE  Snapshots'
<1> DEFINE r == State("idle", tx[t].id, {}, {}, "failed")
<1>1. UNCHANGED rows /\ Become(t, r)
  BY DEF Rollback
<1>2. r.pc # "pruning" /\ r.outcome # "created"
  BY DEF State
<1> HIDE DEF r
<1> QED
  BY <1>1, <1>2, LeavesSnapshots

\* A row that the DELETE passes over is not in the table.
LEMMA PruneRowSnapshots ==
  ASSUME Base, Base', Snapshots, NEW t \in Transactions, PruneRow(t)
  PROVE  Snapshots'
<1>1. PICK i \in tx[t].todo, deleted \in SUBSET (tx[t].todo \cup tx[t].deleted) :
        /\ deleted = IF i \notin rows \cup {tx[t].id} THEN tx[t].deleted ELSE tx[t].deleted \cup {i}
        /\ Become(t, State("pruning", tx[t].id, tx[t].todo \ {i}, deleted, "none"))
        /\ UNCHANGED rows
  BY DEF PruneRow, NextRows
<1>2. /\ tx'[t] = State("pruning", tx[t].id, tx[t].todo \ {i}, deleted, "none")
      /\ \A u \in Transactions : u # t => tx'[u] = tx[u]
  BY <1>1 DEF Base, Become
<1>3. tx'[t].id = tx[t].id /\ tx'[t].todo = tx[t].todo \ {i} /\ tx'[t].deleted = deleted
      /\ tx'[t].outcome = "none"
  BY <1>2 DEF State
<1>4. Remain(t)' = Remain(t)
  BY <1>1, <1>3 DEF Remain
<1>5. Pruning' \subseteq Pruning /\ \A u \in Pruning' : u # t => Remain(u)' = Remain(u)
  BY <1>1, <1>2 DEF Pruning, At, Remain, PruneRow
<1> QED
  BY <1>1, <1>2, <1>3, <1>4, <1>5, QuietSnapshots

\* The DELETE that starts has seen what all the others have committed, and
\* leaves no more rows than the limit: they may add one each.
LEMMA StartPruningSnapshots ==
  ASSUME Base, Base', Snapshots, Maximum > 0, NEW t \in Transactions, StartPruning(t)
  PROVE  Snapshots'
<1> USE Constants
<1>1. PICK when \in [Transactions -> Nat], last \in Nat, now \in Nat : Schedule(when, last, now)
  BY DEF Snapshots
<1> DEFINE seen == rows \cup {tx[t].id}
           kept == Kept(seen, Fixed, Maximum)
           when2 == [when EXCEPT ![t] = now + 1]
<1>2. /\ Become(t, State("pruning", tx[t].id, seen \ kept, {}, "none"))
      /\ At(t, "inserted") /\ UNCHANGED <<rows, sequence>>
  BY DEF StartPruning
<1>3. /\ tx'[t].pc = "pruning" /\ tx'[t].id = tx[t].id /\ tx'[t].todo = seen \ kept
      /\ tx'[t].deleted = {} /\ tx'[t].outcome = "none"
      /\ \A u \in Transactions : u # t => tx'[u] = tx[u]
  BY <1>2 DEF Base, Become, State
<1>4. t \notin Pruning /\ Pruning' = Pruning \cup {t}
  BY <1>2, <1>3 DEF Pruning, At
<1>5. /\ when2 \in [Transactions -> Nat] /\ when2[t] = now + 1
      /\ \A u \in Transactions : u # t => when2[u] = when[u]
  OBVIOUS
<1> HIDE DEF when2
<1>6. \A u \in Pruning : when[u] \in 1..now /\ when[u] # last
  BY <1>1 DEF Schedule
<1>7. last <= now
  BY <1>1 DEF Schedule
<1>8. Cardinality(kept) <= Maximum + Protected /\ IsFiniteSet(kept)
  <2>1. seen \in SUBSET (Nat \ {0}) /\ IsFiniteSet(seen)
    <3>1. seen \in SUBSET (1..sequence) /\ sequence \in Nat
      BY <1>2, ActiveBeyond DEF Active, At, Base
    <3>2. IsFiniteSet(1..sequence) /\ 1..sequence \subseteq Nat \ {0}
      BY <3>1, FS_Interval
    <3> HIDE DEF seen
    <3> QED
      BY <3>1, <3>2, FS_Subset
  <2>2. kept = Kept(seen, Protected, Maximum) /\ Protected \in Nat
    <3>1. Protected \in Nat /\ \A i \in Nat \ {0} : i <= Fixed <=> i <= Protected
      BY DEF Protected
    <3> HIDE DEF seen
    <3> QED
      BY <2>1, <3>1 DEF Kept
  <2> HIDE DEF seen, kept
  <2>3. IsFiniteSet(Kept(seen, Protected, Maximum))
        /\ Cardinality(Kept(seen, Protected, Maximum)) <= Maximum + Protected
    <3>1. Maximum \in Nat
      OBVIOUS
    <3> QED
      BY <2>1, <2>2, <3>1, KeptBounded
  <2> QED
    BY <2>2, <2>3
<1>9. Remain(t)' = kept
  <2>1. kept \subseteq seen
    BY DEF Kept
  <2> QED
    BY <1>2, <1>3, <2>1 DEF Remain
<1>10. /\ Before(when2, now + 1)' \subseteq Transactions \ {t}
       /\ Cardinality(Before(when2, now + 1)') <= Others
  <2>1. t \notin Before(when2, now + 1)'
    BY <1>5 DEF Before
  <2>2. Before(when2, now + 1)' \subseteq Transactions \ {t}
    BY <2>1 DEF Before, Pruning
  <2>3. IsFiniteSet(Transactions \ {t}) /\ Cardinality(Transactions \ {t}) = Others
    BY FS_RemoveElement DEF Others
  <2> QED
    BY <2>2, <2>3, FS_Subset
<1>11. Cardinality(Remain(t)') + Cardinality(Before(when2, now + 1)') <= Bound'
  <2> HIDE DEF kept
  <2>1. /\ Cardinality(kept) \in Nat /\ Cardinality(Before(when2, now + 1)') \in Nat
        /\ Maximum + Protected \in Int /\ Others \in Int
    <3>1. IsFiniteSet(Before(when2, now + 1)')
      BY <1>10, FS_Subset
    <3> QED
      BY <1>8, <3>1, FS_CardinalityType DEF Protected, Others
  <2>2. \A a, b \in Nat, m, n \in Int : a <= m /\ b <= n => a + b <= m + n
    OBVIOUS
  <2>3. Cardinality(kept) + Cardinality(Before(when2, now + 1)') <= (Maximum + Protected) + Others
    BY <1>8, <1>10, <2>1, <2>2
  <2> QED
    BY <1>9, <2>3 DEF Bound, Protected, Others
<1>12. \A s \in 0..now : Before(when2, s)' = Before(when, s)
  BY <1>4, <1>5, <1>6 DEF Before, Pruning
<1>13. \A u \in Pruning : Remain(u)' = Remain(u) /\ u # t
  BY <1>2, <1>3, <1>4 DEF Remain, Pruning
<1>14. Schedule(when2, last, now + 1)'
  <2>1. last <= now + 1 /\ \A u \in Pruning' : when2[u] \in 1..(now + 1) /\ when2[u] # last
    BY <1>4, <1>5, <1>6, <1>7 DEF Pruning
  <2>2. \A u, v \in Pruning' : when2[u] = when2[v] => u = v
    <3>1. \A u, v \in Pruning : when[u] = when[v] => u = v
      BY <1>1 DEF Schedule
    <3>2. \A u \in Pruning : when2[u] = when[u] /\ when2[u] # now + 1
      BY <1>5, <1>6, <1>13 DEF Pruning
    <3> QED
      BY <1>4, <1>5, <3>1, <3>2
  <2>3. ASSUME NEW u \in Pruning', when2[u] > last
        PROVE  Cardinality(Remain(u)') + Cardinality(Before(when2, when2[u])') <= Bound'
    <3>1. CASE u = t
      BY <3>1, <1>5, <1>11
    <3>2. CASE u \in Pruning
      <4>1. when2[u] = when[u] /\ when[u] \in 0..now
        BY <3>2, <1>5, <1>6, <1>13 DEF Pruning
      <4>2. Cardinality(Remain(u)) + Cardinality(Before(when, when[u])) <= Bound
        BY <1>1, <2>3, <3>2, <4>1 DEF Schedule
      <4>3. Bound' = Bound
        BY DEF Bound, Protected, Others
      <4> QED
        BY <3>2, <1>12, <1>13, <4>1, <4>2, <4>3
    <3> QED
      BY <1>4, <3>1, <3>2
  <2>4. IF last = 0 THEN \A u \in Transactions : tx'[u].outcome # "created"
        ELSE Cardinality(rows') + Cardinality(Before(when2, last)') <= Bound'
    <3>1. last \in 0..now /\ Bound' = Bound
      BY <1>7 DEF Bound, Protected, Others
    <3>2. Before(when2, last)' = Before(when, last)
      BY <1>12, <3>1
    <3> QED
      BY <1>1, <1>2, <1>3, <3>1, <3>2 DEF Schedule
  <2> QED
    BY <2>1, <2>2, <2>3, <2>4 DEF Schedule
<1>15. now + 1 \in Nat
  OBVIOUS
<1> QED
  BY <1>5, <1>14, <1>15 DEF Snapshots

\* One more row, and one transaction less that may add one.
LEMMA Exchange ==
  ASSUME NEW A, NEW C, NEW D, NEW a, NEW d, NEW n \in Int,
         IsFiniteSet(A), IsFiniteSet(D), C \subseteq A \cup {a}, d \in D,
         Cardinality(A) + Cardinality(D) <= n
  PROVE  Cardinality(C) + Cardinality(D \ {d}) <= n
<1>1. IsFiniteSet(A \cup {a}) /\ Cardinality(A \cup {a}) <= Cardinality(A) + 1
      /\ Cardinality(A) \in Nat /\ Cardinality(A \cup {a}) \in Nat
  <2>1. IsFiniteSet(A \cup {a}) /\ Cardinality(A) \in Nat
        /\ Cardinality(A \cup {a}) = IF a \in A THEN Cardinality(A) ELSE Cardinality(A) + 1
    BY FS_AddElement, FS_CardinalityType
  <2> QED
    BY <2>1
<1>2. IsFiniteSet(C) /\ Cardinality(C) <= Cardinality(A \cup {a}) /\ Cardinality(C) \in Nat
  BY <1>1, FS_Subset, FS_CardinalityType
<1>3. Cardinality(D \ {d}) = Cardinality(D) - 1 /\ Cardinality(D) \in Nat
  BY FS_RemoveElement, FS_CardinalityType
<1>4. \A k, l, m, h \in Nat : k <= l /\ l <= m + 1 /\ m + h <= n => k + (h - 1) <= n
  OBVIOUS
<1> QED
  BY <1>1, <1>2, <1>3, <1>4

\* The commit either leaves what the latest DELETE has left, or adds the row
\* of a transaction that had seen nothing of it.
LEMMA CommitSnapshots ==
  ASSUME Base, Base', Snapshots, NEW t \in Transactions, Commit(t)
  PROVE  Snapshots'
<1>1. PICK when \in [Transactions -> Nat], last \in Nat, now \in Nat : Schedule(when, last, now)
  BY DEF Snapshots
<1>2. /\ Become(t, State("idle", tx[t].id, {}, {}, "created"))
      /\ At(t, "pruning") /\ tx[t].todo = {}
      /\ rows' = (rows \cup {tx[t].id}) \ tx[t].deleted
  BY DEF Commit
<1>3. tx'[t].pc = "idle" /\ \A u \in Transactions : u # t => tx'[u] = tx[u]
  BY <1>2 DEF Base, Become, State
<1>4. t \in Pruning /\ Pruning' = Pruning \ {t}
  BY <1>2, <1>3 DEF Pruning, At
<1>5. rows' = Remain(t) /\ rows' \subseteq rows \cup {tx[t].id}
  BY <1>2 DEF Remain
<1>6. \A s : Before(when, s)' = Before(when, s) \ {t}
  BY <1>4 DEF Before
<1>7. \A u \in Pruning' : Remain(u)' \subseteq Remain(u) \cup {tx[t].id}
  BY <1>3, <1>4, <1>5 DEF Remain, Pruning
<1>8. /\ last <= now
      /\ \A u \in Pruning : when[u] \in 1..now /\ when[u] # last
      /\ \A u, v \in Pruning : when[u] = when[v] => u = v
      /\ \A u \in Pruning : when[u] > last =>
           Cardinality(Remain(u)) + Cardinality(Before(when, when[u])) <= Bound
  BY <1>1 DEF Schedule
<1>9. Bound' = Bound /\ Bound \in Int
  BY Finite DEF Bound, Protected, Others
<1>10. ASSUME NEW u \in Pruning', when[u] > last, when[u] > when[t]
       PROVE  Cardinality(Remain(u)') + Cardinality(Before(when, when[u])') <= Bound'
  <2>1. t \in Before(when, when[u])
    BY <1>4, <1>10 DEF Before
  <2>2. Cardinality(Remain(u)) + Cardinality(Before(when, when[u])) <= Bound
    BY <1>4, <1>8, <1>10
  <2>3. IsFiniteSet(Remain(u)) /\ IsFiniteSet(Before(when, when[u]))
    BY Finite
  <2>4. Remain(u)' \subseteq Remain(u) \cup {tx[t].id}
        /\ Before(when, when[u])' = Before(when, when[u]) \ {t}
    BY <1>6, <1>7
  <2>5. Cardinality(Remain(u)') + Cardinality(Before(when, when[u]) \ {t}) <= Bound
    <3>1. \A A, C, D :
            /\ IsFiniteSet(A) /\ IsFiniteSet(D) /\ C \subseteq A \cup {tx[t].id} /\ t \in D
            /\ Cardinality(A) + Cardinality(D) <= Bound
            => Cardinality(C) + Cardinality(D \ {t}) <= Bound
      BY <1>9, Exchange
    <3> HIDE DEF Remain, Before, Bound
    <3> QED
      BY <2>1, <2>2, <2>3, <2>4, <3>1
  <2> QED
    BY <1>9, <2>4, <2>5
<1>11. CASE when[t] > last
  <2>1. Cardinality(rows') + Cardinality(Before(when, when[t])') <= Bound'
    <3>1. Before(when, when[t])' = Before(when, when[t])
      BY <1>6 DEF Before
    <3> QED
      BY <1>4, <1>5, <1>8, <1>9, <1>11, <3>1
  <2>2. when[t] \in 1..now /\ when[t] \in Nat
    BY <1>4, <1>8
  <2>3. ASSUME NEW u \in Pruning', when[u] > when[t]
        PROVE  Cardinality(Remain(u)') + Cardinality(Before(when, when[u])') <= Bound'
    <3>1. \A i, j, k \in Nat : i > j /\ j > k => i > k
      OBVIOUS
    <3>2. u \in Transactions
      BY <1>4 DEF Pruning
    <3>3. when[u] > last
      BY <1>11, <2>3, <3>1, <3>2
    <3> QED
      BY <1>10, <2>3, <3>3
  <2>4. \A u \in Pruning' : when[u] \in 1..now /\ when[u] # when[t]
    BY <1>4, <1>8
  <2>5. \A u, v \in Pruning' : when[u] = when[v] => u = v
    BY <1>4, <1>8
  <2>6. when[t] <= now /\ when[t] # 0
    BY <2>2
  <2>7. Schedule(when, when[t], now)'
    BY <2>1, <2>3, <2>4, <2>5, <2>6 DEF Schedule
  <2> QED
    BY <2>2, <2>7 DEF Snapshots
<1>12. CASE ~(when[t] > last)
  <2>1. when[t] < last /\ last # 0
    <3>1. when[t] \in 1..now /\ when[t] # last
      BY <1>4, <1>8
    <3> QED
      BY <1>12, <3>1
  <2>2. Cardinality(rows') + Cardinality(Before(when, last)') <= Bound'
    <3>1. Cardinality(rows) + Cardinality(Before(when, last)) <= Bound
      BY <1>1, <2>1 DEF Schedule
    <3>2. t \in Before(when, last)
      BY <1>4, <2>1 DEF Before
    <3>3. IsFiniteSet(rows) /\ IsFiniteSet(Before(when, last))
      BY Finite
    <3>4. Cardinality(rows') + Cardinality(Before(when, last) \ {t}) <= Bound
      BY <1>5, <1>9, <3>1, <3>2, <3>3, Exchange
    <3> QED
      BY <1>6, <1>9, <3>4
  <2>3. ASSUME NEW u \in Pruning', when[u] > last
        PROVE  Cardinality(Remain(u)') + Cardinality(Before(when, when[u])') <= Bound'
    <3>1. \A i, j, k \in Nat : i > j /\ k < j => i > k
      OBVIOUS
    <3>2. u \in Transactions
      BY <1>4 DEF Pruning
    <3>3. when[u] > when[t]
      BY <2>1, <2>3, <3>1, <3>2
    <3> QED
      BY <1>10, <2>3, <3>3
  <2>4. Schedule(when, last, now)'
    BY <1>4, <1>8, <2>1, <2>2, <2>3 DEF Schedule
  <2> QED
    BY <2>4 DEF Snapshots
<1> QED
  BY <1>11, <1>12

\* However many transactions insert and prune at the same time, the table
\* outgrows its limit and its fixed rows by less than one row for each.
THEOREM OvershootStaysBounded == Spec => []OvershootBounded
<1> DEFINE Inv == Maximum > 0 => Snapshots
<1>1. Init => Inv
  BY InitSnapshots
<1>2. Base /\ Base' /\ Inv /\ [Next]_vars => Inv'
  <2> SUFFICES ASSUME Base, Base', Maximum > 0, Snapshots, [Next]_vars
               PROVE  Snapshots'
    OBVIOUS
  <2>1. ASSUME NEW t \in Transactions, Insert(t)
        PROVE  Snapshots'
    BY <2>1, InsertSnapshots
  <2>2. ASSUME NEW t \in Transactions, StartPruning(t)
        PROVE  Snapshots'
    BY <2>2, StartPruningSnapshots
  <2>3. ASSUME NEW t \in Transactions, PruneRow(t)
        PROVE  Snapshots'
    BY <2>3, PruneRowSnapshots
  <2>4. ASSUME NEW t \in Transactions, Commit(t)
        PROVE  Snapshots'
    BY <2>4, CommitSnapshots
  <2>5. ASSUME NEW t \in Transactions, Rollback(t)
        PROVE  Snapshots'
    BY <2>5, RollbackSnapshots
  <2>6. CASE UNCHANGED vars
    BY <2>6, QuietSnapshots DEF vars, Pruning, At, Remain
  <2> QED
    BY <2>1, <2>2, <2>3, <2>4, <2>5, <2>6 DEF Next, Advance
<1>3. Base /\ Inv => OvershootBounded
  <2> SUFFICES ASSUME Base, Snapshots, NEW t \in Transactions, tx[t].outcome = "created"
               PROVE  Cardinality(rows) <= Maximum + Protected + Others
    BY DEF OvershootBounded
  <2>1. PICK when \in [Transactions -> Nat], last \in Nat, now \in Nat : Schedule(when, last, now)
    BY DEF Snapshots
  <2>2. Cardinality(rows) + Cardinality(Before(when, last)) <= Bound
    BY <2>1 DEF Schedule
  <2>3. Cardinality(rows) \in Nat /\ Cardinality(Before(when, last)) \in Nat /\ Bound \in Int
    BY Finite
  <2>4. Cardinality(rows) <= Bound
    BY <2>2, <2>3
  <2> QED
    BY <2>4 DEF Bound
<1> HIDE DEF Inv
<1> QED
  BY <1>1, <1>2, <1>3, BaseAlways, PTL DEF Spec

=============================================================================
