----------------------------- MODULE Migrations -----------------------------
(***************************************************************************)
(* The start of the processes that share a PostgreSQL database: NewCatalog *)
(* and NewCopy of pkg/database, with bun's migrator (vendored) and the     *)
(* migrations of both collections.                                         *)
(*                                                                         *)
(* A process executes statements, each on its own, without a transaction    *)
(* around them or a lock.  One that fails ends the process (cmd/main.go),  *)
(* and whatever runs it starts it again.  Processes may also crash, which  *)
(* stands for any statement as well that the database fails to execute.    *)
(* A process that serves both collections, which it would migrate one      *)
(* after the other, is not modelled: the monolith has a database to itself.*)
(* The sequence that the catalog's seed sets last is PgTables' concern.    *)
(***************************************************************************)
EXTENDS Naturals, Sequences, SequencesExt, FiniteSets

CONSTANTS
  Processes,
  Collection,   \* process -> the collection that it migrates: "catalog" or "copy"
  Tables,       \* collection -> its tables, in the order of their creation
  Fixtures,     \* collection -> its rows [table, row], in the order of the fixture
  MaxCrashes    \* bound on the crashes explored

\* The tables of bun's own; processes never take the lock.
Bookkeeping == <<"bun_migrations", "bun_migration_locks">>

Collections == {Collection[p] : p \in Processes}

ASSUME MigrationsAssumption ==
  /\ MaxCrashes \in Nat
  /\ Collections \subseteq DOMAIN Tables /\ Collections \subseteq DOMAIN Fixtures
  /\ \A c, d \in Collections : c # d => ToSet(Tables[c]) \cap ToSet(Tables[d]) = {}
  /\ \A c \in Collections :
       /\ Tables[c] \in Seq(ToSet(Tables[c]))
       /\ ToSet(Bookkeeping) \cap ToSet(Tables[c]) = {}
       /\ Fixtures[c] \in Seq([table : ToSet(Tables[c]), row : Nat])
       /\ IsInjective(Fixtures[c])

VARIABLES
  pc,       \* process -> "off", "starting" or "listening"
  todo,     \* process -> the statements that it has yet to execute
  looked,   \* process -> whether it has found the table to create missing
  tables,   \* the tables of the database
  rows,     \* the rows of the collections' tables
  applied,  \* the rows of bun_migrations: [collection, name]
  crashes,  \* how many times a process has crashed
  \* History, read by no step:
  interrupted  \* the processes that have crashed while they started

vars == <<pc, todo, looked, tables, rows, applied, crashes, interrupted>>

Init ==
  /\ pc = [p \in Processes |-> "off"]
  /\ todo = [p \in Processes |-> <<>>]
  /\ looked = [p \in Processes |-> FALSE]
  /\ tables = {} /\ rows = {} /\ applied = {}
  /\ crashes = 0 /\ interrupted = {}

-----------------------------------------------------------------------------
(* What a process has to do *)

Creations(names) == [k \in DOMAIN names |-> [do |-> "create", what |-> names[k]]]

\* The statements of Migrator.Init, and the query that Migrate begins with.
Startup == Creations(Bookkeeping) \o <<[do |-> "read"]>>

Migration(collection, name) == [collection |-> collection, name |-> name]

\* What the function of a migration executes.
Up(m) ==
  IF m.name = "initialize_db"
  THEN Creations(Tables[m.collection])
  ELSE [k \in DOMAIN Fixtures[m.collection] |->
          [do |-> "insert", what |-> Fixtures[m.collection][k]]]

Mark(m) == <<[do |-> "mark", what |-> m]>>

\* Mutant of Run: a migration is marked when it has succeeded.
MarkedOnSuccess(m) == Up(m) \o Mark(m)
\* Migrate marks a migration before it runs it.
Run(m) == Mark(m) \o Up(m)

\* Mutant of Unapplied: any migration in the table makes it up to date.
UnappliedIfNone(m) == applied = {}
Unapplied(m) == m \notin applied

RunUnapplied(m) == IF Unapplied(m) THEN Run(m) ELSE <<>>

\* Mutant of Migrate: both collections are migrated.
MigrateAll(collection) ==
  RunUnapplied(Migration("catalog", "initialize_db")) \o RunUnapplied(Migration("copy", "initialize_db"))
\* Migrate runs what is not marked, in the order of the names.
Migrate(collection) ==
  RunUnapplied(Migration(collection, "initialize_db")) \o RunUnapplied(Migration(collection, "seed_db"))

-----------------------------------------------------------------------------
(* Steps of a process *)

Doing(p, what) == pc[p] = "starting" /\ todo[p] # <<>> /\ Head(todo[p]).do = what

Done(p) ==
  /\ todo' = [todo EXCEPT ![p] = Tail(@)]
  /\ UNCHANGED <<pc, crashes, interrupted>>

\* The process ends: os.Exit(1), or a crash.
End(p) ==
  /\ pc' = [pc EXCEPT ![p] = "off"]
  /\ todo' = [todo EXCEPT ![p] = <<>>]
  /\ looked' = [looked EXCEPT ![p] = FALSE]
  /\ UNCHANGED <<tables, rows, applied>>

Start(p) ==
  /\ pc[p] = "off"
  /\ pc' = [pc EXCEPT ![p] = "starting"]
  /\ todo' = [todo EXCEPT ![p] = Startup]
  /\ UNCHANGED <<looked, tables, rows, applied, crashes, interrupted>>

\* CREATE TABLE IF NOT EXISTS looks for the table first ...
LookForTable(p) ==
  /\ Doing(p, "create") /\ ~looked[p]
  /\ \/ /\ Head(todo[p]).what \in tables
        /\ Done(p) /\ UNCHANGED looked
     \/ /\ Head(todo[p]).what \notin tables
        /\ looked' = [looked EXCEPT ![p] = TRUE]
        /\ UNCHANGED <<pc, todo, crashes, interrupted>>
  /\ UNCHANGED <<tables, rows, applied>>

\* ... and fails if another process has created it meanwhile.
CreateTable(p) ==
  /\ Doing(p, "create") /\ looked[p]
  /\ \/ /\ Head(todo[p]).what \notin tables
        /\ tables' = tables \cup {Head(todo[p]).what}
        /\ looked' = [looked EXCEPT ![p] = FALSE]
        /\ Done(p) /\ UNCHANGED <<rows, applied>>
     \/ /\ Head(todo[p]).what \in tables
        /\ End(p) /\ UNCHANGED <<crashes, interrupted>>

\* migrationsWithStatus: what has to be run is decided here, once.
ReadApplied(p) ==
  /\ Doing(p, "read")
  /\ todo' = [todo EXCEPT ![p] = Migrate(Collection[p])]
  /\ UNCHANGED <<pc, looked, tables, rows, applied, crashes, interrupted>>

\* MarkApplied: a plain INSERT, which no other row can conflict with.
MarkApplied(p) ==
  /\ Doing(p, "mark")
  /\ applied' = applied \cup {Head(todo[p]).what}
  /\ Done(p) /\ UNCHANGED <<looked, tables, rows>>

\* A row of the fixture: its table must be there, its key must be free.
AddRow(p) ==
  /\ Doing(p, "insert")
  /\ LET row == Head(todo[p]).what
     IN \/ /\ row.table \in tables /\ row \notin rows
           /\ rows' = rows \cup {row}
           /\ Done(p) /\ UNCHANGED <<looked, tables, applied>>
        \/ /\ row.table \notin tables \/ row \in rows
           /\ End(p) /\ UNCHANGED <<crashes, interrupted>>

Listen(p) ==
  /\ pc[p] = "starting" /\ todo[p] = <<>>
  /\ pc' = [pc EXCEPT ![p] = "listening"]
  /\ UNCHANGED <<todo, looked, tables, rows, applied, crashes, interrupted>>

Crash(p) ==
  /\ pc[p] # "off"
  /\ crashes < MaxCrashes /\ crashes' = crashes + 1
  /\ interrupted' = IF pc[p] = "starting" THEN interrupted \cup {p} ELSE interrupted
  /\ End(p)

Step(p) ==
  \/ Start(p) \/ LookForTable(p) \/ CreateTable(p) \/ ReadApplied(p) \/ MarkApplied(p)
  \/ AddRow(p) \/ Listen(p)

Next == \E p \in Processes : Step(p) \/ Crash(p)

Spec == Init /\ [][Next]_vars

\* Every process runs, and is started again when it has ended.
FairSpec == Spec /\ \A p \in Processes : WF_vars(Step(p))

-----------------------------------------------------------------------------
(* Properties *)

Statements(collection) ==
  ToSet(Startup)
    \cup UNION {ToSet(Mark(Migration(collection, n)) \o Up(Migration(collection, n))) :
                  n \in {"initialize_db", "seed_db"}}

\* Every variable has its type; in particular no process executes statements
\* of another collection, and every row is in a table.
TypeOK ==
  /\ pc \in [Processes -> {"off", "starting", "listening"}]
  /\ \A p \in Processes : ToSet(todo[p]) \subseteq Statements(Collection[p])
  /\ looked \in [Processes -> BOOLEAN]
  /\ tables \subseteq ToSet(Bookkeeping) \cup UNION {ToSet(Tables[c]) : c \in Collections}
  /\ rows \subseteq UNION {ToSet(Fixtures[c]) : c \in Collections}
  /\ \A row \in rows : row.table \in tables
  /\ applied \subseteq {Migration(c, n) : c \in Collections, n \in {"initialize_db", "seed_db"}}
  /\ crashes \in 0..MaxCrashes /\ interrupted \subseteq Processes

Complete(collection) ==
  ToSet(Tables[collection]) \subseteq tables /\ ToSet(Fixtures[collection]) \subseteq rows

\* A service that has a single process serves complete tables, unless that
\* process has crashed while it migrated: the other service may compete with it
\* for the bookkeeping table, and crash at any moment.
UndisturbedComplete ==
  \A p \in Processes :
    /\ pc[p] = "listening" /\ p \notin interrupted
    /\ \A q \in Processes : Collection[q] = Collection[p] => q = p
    => Complete(Collection[p])

\* Processes of one service do not stop each other for good: conflicts over
\* tables and rows end, also after a crash, and each process listens in the end.
EventuallyServes == \A p \in Processes : <>[](pc[p] = "listening")

=============================================================================
