----------------------------- MODULE SqlitePool -----------------------------
(***************************************************************************)
(* The catalog on SQLite, behind the connection pool of database/sql that  *)
(* initializeDB (pkg/database/database.go) opens with its default limits:  *)
(* any number of open connections, two of them idle.                       *)
(*                                                                         *)
(* The data lives in a shared in-memory cache (the default of cmd), which  *)
(* SQLite drops with the last open connection: whoever connects then finds *)
(* a database without tables.  Foreign keys are enforced per connection,   *)
(* and off in a new one: initializeDB turns them on once, in the           *)
(* connection that happens to run its PRAGMA.                              *)
(*                                                                         *)
(* A trip to the database of a handler of Catalog is two steps here: the   *)
(* handler takes a connection, and later does its work and gives it back.  *)
(* A client that goes away during the trip interrupts it, and then the     *)
(* connection is closed.  The variables of Catalog are the rows of the     *)
(* database while it is there, and the rows it had once it was dropped.    *)
(***************************************************************************)
EXTENDS Catalog, Sequences

CONSTANTS
  Connections,  \* names of connections; enough for all that can be open
  MaxIdle       \* 2, the default of database/sql

None == 0

ASSUME PoolAssumption ==
  MaxIdle \in Nat \ {0} /\ Connections \subseteq Nat \ {None} /\ Connections # {}

VARIABLES
  free,      \* idle connections, the one used last at the end
  enforces,  \* connections that had PRAGMA foreign_keys = ON
  held,      \* handler -> the connection of its current trip, or None
  dropped,   \* whether the in-memory database is gone
  \* History, read by no step:
  burst,     \* whether a connection was ever opened while another was in use
  interrupted  \* whether a client ever went away during a trip

pool == <<free, enforces, held, dropped, burst, interrupted>>

Idles == {free[i] : i \in DOMAIN free}
Open == Idles \cup ({held[h] : h \in Handlers} \ {None})

\* Mutant of Pragma: foreign keys stay off.
NoPragma(c) == {}
Pragma(c) == {c}

\* The PRAGMA and then the migrations have used one connection.
PoolInit ==
  /\ Init
  /\ LET c == CHOOSE c \in Connections : TRUE
     IN free = <<c>> /\ enforces = Pragma(c)
  /\ held = [h \in Handlers |-> None]
  /\ dropped = FALSE
  /\ burst = FALSE
  /\ interrupted = FALSE

\* DB.conn: the idle connection used last, or else a new one.
Take(h) ==
  /\ held[h] = None
  /\ \/ /\ free # <<>>
        /\ held' = [held EXCEPT ![h] = free[Len(free)]]
        /\ free' = SubSeq(free, 1, Len(free) - 1)
        /\ UNCHANGED <<enforces, burst>>
     \/ /\ free = <<>>
        /\ \E c \in Connections \ Open :
             /\ held' = [held EXCEPT ![h] = c]
             /\ enforces' = enforces \ {c}
        /\ burst' = (burst \/ \E k \in Handlers : held[k] # None)
        /\ UNCHANGED free
  /\ UNCHANGED <<vars, dropped, interrupted>>

\* Mutant of IdleLimit: no idle connections are kept.
NoneIdle == 0
\* initializeDB does not set a limit for SQLite, as it does for PostgreSQL.
IdleLimit == MaxIdle

\* Mutant of StaysOpen: one too many.
StaysOpenOneMore(idle) == idle <= IdleLimit
StaysOpen(idle) == idle < IdleLimit

\* SQLite drops the database with its last connection.
Drop == dropped' = (dropped \/ Open' = {})

\* Where there are no tables a handler can only give up.
Fails(h) == Step(h, FALSE) /\ handler'[h].status >= 400 /\ UNCHANGED tables

\* The trip itself, and DB.putConn: a connection too many is closed.
Trip(h) ==
  /\ held[h] # None
  /\ IF dropped THEN Fails(h)
     ELSE IF held[h] \in enforces THEN Step(h, TRUE) ELSE Step(h, FALSE)
  /\ held' = [held EXCEPT ![h] = None]
  /\ free' = IF StaysOpen(Len(free)) THEN Append(free, held[h]) ELSE free
  /\ UNCHANGED <<enforces, burst, interrupted>>
  /\ Drop

\* The client goes away during the trip: the driver interrupts the statement,
\* and putConn closes a connection that was interrupted, the only one as well.
\* A transaction is rolled back, which makes its connection usable again unless
\* its BEGIN was interrupted (that is a DatabaseError of Trip); a DELETE outside
\* one may have been made, though the handler takes it for failed.
Interrupt(h) ==
  /\ held[h] # None
  /\ \/ DatabaseError(h)
     \/ ~dropped /\ (DeleteRating(h) \/ DeleteRatings(h))
  /\ held' = [held EXCEPT ![h] = None]
  /\ interrupted' = TRUE
  /\ UNCHANGED <<free, enforces, burst>>
  /\ Drop

PoolNext == \E h \in Handlers : Take(h) \/ Trip(h) \/ Interrupt(h)

PoolSpec == PoolInit /\ [][PoolNext]_<<vars, pool>>

-----------------------------------------------------------------------------

\* Every variable of the pool has its type, and it is a pool: there are never
\* more idle connections than the limit.
PoolTypeOK ==
  /\ free \in Seq(Connections) /\ Len(free) <= MaxIdle
  /\ enforces \subseteq Connections
  /\ held \in [Handlers -> Connections \cup {None}]
  /\ dropped \in BOOLEAN /\ burst \in BOOLEAN /\ interrupted \in BOOLEAN

\* The pool by itself never drops the in-memory database, however bursts of
\* requests open and close connections: it takes a client that goes away while
\* its request is at the database.
DatabaseSurvives == dropped => interrupted

\* Foreign keys are enforced until two requests are at the database at once or
\* a client goes away: until then every trip is made on the connection that ran
\* the PRAGMA, and no rating outlives its user or its food.
AloneIsSafe == ~burst /\ ~interrupted => ReferentialIntegrity

=============================================================================
