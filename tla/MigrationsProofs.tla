-------------------------- MODULE MigrationsProofs --------------------------
(***************************************************************************)
(* The invariants of Migrations, for any processes, collections, tables    *)
(* and fixtures.                                                           *)
(*                                                                         *)
(* What a process has to do decides nothing: statements may fail, and a    *)
(* migration is marked before it has run.  Lone says what is known of a    *)
(* process that nobody competes with and that has never crashed while it   *)
(* started: it finds its collection untouched or migrated, and from there  *)
(* on it has executed precisely what precedes the statements that it still *)
(* has to execute, so that none of them can fail.                          *)
(***************************************************************************)
EXTENDS Migrations, SequenceTheorems, TLAPS

Initialize(collection) == Migration(collection, "initialize_db")
Seed(collection) == Migration(collection, "seed_db")

TodoOK ==
  /\ todo = [p \in Processes |-> todo[p]]
  /\ \A p \in Processes : todo[p] \in Seq(Statements(Collection[p]))

AllTables == ToSet(Bookkeeping) \cup UNION {ToSet(Tables[c]) : c \in Collections}
AllRows == UNION {ToSet(Fixtures[c]) : c \in Collections}
AllMarks == {Migration(c, n) : c \in Collections, n \in {"initialize_db", "seed_db"}}

DatabaseOK ==
  /\ tables \subseteq AllTables
  /\ rows \subseteq AllRows
  /\ \A row \in rows : row.table \in tables
  /\ applied \subseteq AllMarks

ProcessesOK ==
  /\ pc \in [Processes -> {"off", "starting", "listening"}]
  /\ looked \in [Processes -> BOOLEAN]
  /\ crashes \in 0..MaxCrashes /\ interrupted \subseteq Processes

TypeInv == TodoOK /\ DatabaseOK /\ ProcessesOK

-----------------------------------------------------------------------------
(* Sequences *)

\* A function on 1..n is a sequence of length n.
LEMMA FunctionIsSeq ==
  ASSUME NEW S, NEW n \in Nat, NEW f \in [1..n -> S]
  PROVE  f \in Seq(S) /\ Len(f) = n
<1>1. f \in Seq(S)
  BY SeqDef
<1>2. Len(f) \in Nat /\ 1..Len(f) = 1..n
  BY <1>1, LenProperties
<1>3. \A a, b \in Nat : 1..a = 1..b => a = b
  OBVIOUS
<1> QED
  BY <1>1, <1>2, <1>3

\* A sequence is one over the set of its elements.
LEMMA SeqOfElements ==
  ASSUME NEW S, NEW s \in Seq(S), NEW T, ToSet(s) \subseteq T
  PROVE  s \in Seq(T)
<1>1. s \in [1..Len(s) -> S] /\ Len(s) \in Nat
  BY LenProperties
<1>2. \A i \in 1..Len(s) : s[i] \in T
  BY <1>1 DEF ToSet
<1>3. s \in [1..Len(s) -> T]
  BY <1>1, <1>2
<1> QED
  BY <1>1, <1>3, SeqDef

\* The elements of a sequence.
LEMMA Elements ==
  ASSUME NEW S, NEW s \in Seq(S)
  PROVE  /\ ToSet(s) = {s[i] : i \in 1..Len(s)}
         /\ ToSet(s) \subseteq S
BY LenProperties DEF ToSet

\* A concatenation has the elements of its parts.
LEMMA ElementsOfConcat ==
  ASSUME NEW S, NEW s \in Seq(S), NEW t \in Seq(S)
  PROVE  ToSet(s \o t) = ToSet(s) \cup ToSet(t)
<1> DEFINE m == Len(s)
           n == Len(t)
           st == s \o t
<1>1. /\ st \in Seq(S) /\ Len(st) = m + n /\ m \in Nat /\ n \in Nat
      /\ \A i \in 1..(m + n) : st[i] = IF i <= m THEN s[i] ELSE t[i - m]
  BY ConcatProperties, LenProperties
<1>2. /\ ToSet(st) = {st[i] : i \in 1..(m + n)}
      /\ ToSet(s) = {s[i] : i \in 1..m}
      /\ ToSet(t) = {t[i] : i \in 1..n}
  BY <1>1, Elements
<1> HIDE DEF m, n, st
<1>3. ASSUME NEW i \in 1..(m + n)
      PROVE  st[i] \in ToSet(s) \cup ToSet(t)
  <2>1. CASE i <= m
    BY <1>1, <1>2, <2>1
  <2>2. CASE ~(i <= m)
    <3>1. i - m \in 1..n
      BY <1>1, <2>2
    <3> QED
      BY <1>1, <1>2, <2>2, <3>1
  <2> QED
    BY <2>1, <2>2
<1>4. ASSUME NEW i \in 1..m
      PROVE  s[i] \in ToSet(st)
  <2>1. i \in 1..(m + n) /\ i <= m
    BY <1>1
  <2> QED
    BY <1>1, <1>2, <2>1
<1>5. ASSUME NEW i \in 1..n
      PROVE  t[i] \in ToSet(st)
  <2>1. i + m \in 1..(m + n) /\ ~(i + m <= m) /\ (i + m) - m = i
    BY <1>1
  <2> QED
    BY <1>1, <1>2, <2>1
<1>6. ToSet(st) = ToSet(s) \cup ToSet(t)
  BY <1>2, <1>3, <1>4, <1>5
<1> QED
  BY <1>6 DEF st

-----------------------------------------------------------------------------
(* Statements *)

\* The statements that a process of a collection may come to execute.
Kinds(collection) ==
  [do : {"create"}, what : ToSet(Bookkeeping) \cup ToSet(Tables[collection])]
    \cup [do : {"read"}]
    \cup [do : {"mark"}, what : {Initialize(collection), Seed(collection)}]
    \cup [do : {"insert"}, what : ToSet(Fixtures[collection])]

\* A statement is of the kind that it says it is.
LEMMA KindOf ==
  ASSUME NEW c, NEW s \in Kinds(c)
  PROVE  /\ s.do \in {"create", "read", "mark", "insert"}
         /\ s.do = "create" => s.what \in ToSet(Bookkeeping) \cup ToSet(Tables[c])
         /\ s.do = "mark" => s.what \in {Initialize(c), Seed(c)}
         /\ s.do = "insert" => s.what \in ToSet(Fixtures[c])
BY DEF Kinds

\* The assumptions on a collection.
LEMMA CollectionFacts ==
  ASSUME NEW c \in Collections
  PROVE  /\ Tables[c] \in Seq(ToSet(Tables[c]))
         /\ Fixtures[c] \in Seq([table : ToSet(Tables[c]), row : Nat])
         /\ \A j, k \in DOMAIN Fixtures[c] : Fixtures[c][j] = Fixtures[c][k] => j = k
         /\ \A row \in ToSet(Fixtures[c]) : row.table \in ToSet(Tables[c])
<1>1. /\ Tables[c] \in Seq(ToSet(Tables[c])) /\ IsInjective(Fixtures[c])
      /\ Fixtures[c] \in Seq([table : ToSet(Tables[c]), row : Nat])
  BY MigrationsAssumption
<1>2. ToSet(Fixtures[c]) \subseteq [table : ToSet(Tables[c]), row : Nat]
  BY <1>1, Elements
<1> QED
  BY <1>1, <1>2 DEF IsInjective

\* CREATE statements for a list of tables.
LEMMA CreationsSeq ==
  ASSUME NEW names, names \in Seq(ToSet(names))
  PROVE  /\ Creations(names) \in Seq([do : {"create"}, what : ToSet(names)])
         /\ Len(Creations(names)) = Len(names)
         /\ \A k \in 1..Len(names) : Creations(names)[k] = [do |-> "create", what |-> names[k]]
<1>1. DOMAIN names = 1..Len(names) /\ Len(names) \in Nat
  BY LenProperties
<1>2. Creations(names) = [k \in 1..Len(names) |-> [do |-> "create", what |-> names[k]]]
  BY <1>1 DEF Creations
<1>3. Creations(names) \in [1..Len(names) -> [do : {"create"}, what : ToSet(names)]]
  BY <1>1, <1>2 DEF ToSet
<1> QED
  BY <1>1, <1>2, <1>3, FunctionIsSeq

\* The statements that a process begins with.
LEMMA StartupSeq ==
  /\ Startup \in Seq([do : {"create"}, what : ToSet(Bookkeeping)] \cup [do : {"read"}])
  /\ Len(Startup) = 3
  /\ Startup[1].do = "create" /\ Startup[2].do = "create" /\ Startup[3] = [do |-> "read"]
<1> DEFINE S == [do : {"create"}, what : ToSet(Bookkeeping)] \cup [do : {"read"}]
           C == Creations(Bookkeeping)
           R == <<[do |-> "read"]>>
<1>1. Bookkeeping \in Seq(ToSet(Bookkeeping)) /\ Len(Bookkeeping) = 2
  <2>1. \A x, y, T : x \in T /\ y \in T => <<x, y>> \in Seq(T) /\ Len(<<x, y>>) = 2
    OBVIOUS
  <2>2. \A x, y : x \in ToSet(<<x, y>>) /\ y \in ToSet(<<x, y>>)
    BY DEF ToSet
  <2>3. \A x, y : <<x, y>> \in Seq(ToSet(<<x, y>>)) /\ Len(<<x, y>>) = 2
    BY <2>1, <2>2
  <2> QED
    BY <2>3 DEF Bookkeeping
<1>2. /\ C \in Seq([do : {"create"}, what : ToSet(Bookkeeping)]) /\ Len(C) = 2
      /\ C[1].do = "create" /\ C[2].do = "create"
  <2>1. /\ C \in Seq([do : {"create"}, what : ToSet(Bookkeeping)]) /\ Len(C) = Len(Bookkeeping)
        /\ \A k \in 1..Len(Bookkeeping) : C[k] = [do |-> "create", what |-> Bookkeeping[k]]
    BY <1>1, CreationsSeq
  <2>2. 1 \in 1..Len(Bookkeeping) /\ 2 \in 1..Len(Bookkeeping)
    BY <1>1
  <2> HIDE DEF C
  <2>3. C[1] = [do |-> "create", what |-> Bookkeeping[1]]
        /\ C[2] = [do |-> "create", what |-> Bookkeeping[2]]
    BY <2>1, <2>2
  <2> QED
    BY <1>1, <2>1, <2>3
<1>3. [do |-> "read"] \in [do : {"read"}]
  OBVIOUS
<1>4. R \in Seq(S) /\ Len(R) = 1 /\ R[1] = [do |-> "read"]
  BY <1>3
<1>5. C \in Seq(S)
  <2>1. [do : {"create"}, what : ToSet(Bookkeeping)] \subseteq S
    OBVIOUS
  <2> HIDE DEF S, C
  <2> QED
    BY <1>2, <2>1, SeqMonotonic
<1>6. Startup = C \o R
  BY DEF Startup
<1> HIDE DEF S, C, R
<1>7. /\ Startup \in Seq(S) /\ Len(Startup) = 3
      /\ \A i \in 1..3 : Startup[i] = IF i <= 2 THEN C[i] ELSE R[i - 2]
  <2>1. /\ C \o R \in Seq(S) /\ Len(C \o R) = Len(C) + Len(R)
        /\ \A i \in 1..(Len(C) + Len(R)) : (C \o R)[i] = IF i <= Len(C) THEN C[i] ELSE R[i - Len(C)]
    BY <1>4, <1>5, ConcatProperties
  <2>2. Len(C) + Len(R) = 3 /\ Len(C) = 2
    BY <1>2, <1>4
  <2> QED
    BY <1>6, <2>1, <2>2
<1>8. Startup[1] = C[1] /\ Startup[2] = C[2] /\ Startup[3] = R[1]
  BY <1>7
<1> QED
  BY <1>2, <1>4, <1>7, <1>8 DEF S

\* The statements of the two migrations of a collection.
LEMMA RunSeq ==
  ASSUME NEW c \in Collections
  PROVE  /\ Up(Initialize(c)) = Creations(Tables[c])
         /\ Up(Seed(c)) \in Seq([do : {"insert"}, what : ToSet(Fixtures[c])])
         /\ Len(Up(Seed(c))) = Len(Fixtures[c])
         /\ \A k \in 1..Len(Fixtures[c]) :
              Up(Seed(c))[k] = [do |-> "insert", what |-> Fixtures[c][k]]
         /\ \A n \in {"initialize_db", "seed_db"} :
              Mark(Migration(c, n)) \in Seq(Kinds(c)) /\ Up(Migration(c, n)) \in Seq(Kinds(c))
<1> DEFINE F == Fixtures[c]
           I == [do : {"insert"}, what : ToSet(F)]
<1>1. Up(Initialize(c)) = Creations(Tables[c])
  BY DEF Up, Initialize, Migration
<1>2. Up(Seed(c)) = [k \in DOMAIN F |-> [do |-> "insert", what |-> F[k]]]
  BY DEF Up, Seed, Migration
<1>3. DOMAIN F = 1..Len(F) /\ Len(F) \in Nat
  BY CollectionFacts, LenProperties
<1>4. Up(Seed(c)) \in [1..Len(F) -> I]
  BY <1>2, <1>3 DEF ToSet
<1>5. Up(Seed(c)) \in Seq(I) /\ Len(Up(Seed(c))) = Len(F)
  BY <1>3, <1>4, FunctionIsSeq
<1>6. Up(Initialize(c)) \in Seq([do : {"create"}, what : ToSet(Tables[c])])
  BY <1>1, CollectionFacts, CreationsSeq
<1>7. [do : {"create"}, what : ToSet(Tables[c])] \subseteq Kinds(c) /\ I \subseteq Kinds(c)
  BY DEF Kinds
<1> HIDE DEF I
<1>8. Up(Initialize(c)) \in Seq(Kinds(c)) /\ Up(Seed(c)) \in Seq(Kinds(c))
  BY <1>5, <1>6, <1>7, SeqMonotonic
<1>9. \A m \in {Initialize(c), Seed(c)} : Mark(m) \in Seq(Kinds(c))
  <2>1. \A m \in {Initialize(c), Seed(c)} : [do |-> "mark", what |-> m] \in Kinds(c)
    BY DEF Kinds
  <2> QED
    BY <2>1 DEF Mark
<1> QED
  BY <1>1, <1>2, <1>3, <1>5, <1>8, <1>9 DEF I, Initialize, Seed

\* All that a process may have to do are statements of its collection.
LEMMA StatementsSeq ==
  ASSUME NEW c \in Collections
  PROVE  /\ Statements(c) \subseteq Kinds(c)
         /\ Startup \in Seq(Statements(c))
         /\ Run(Initialize(c)) \in Seq(Statements(c))
         /\ Run(Seed(c)) \in Seq(Statements(c))
<1> DEFINE Names == {"initialize_db", "seed_db"}
           R(n) == Mark(Migration(c, n)) \o Up(Migration(c, n))
<1>1. Startup \in Seq(Kinds(c))
  <2>1. [do : {"create"}, what : ToSet(Bookkeeping)] \cup [do : {"read"}] \subseteq Kinds(c)
    BY DEF Kinds
  <2> QED
    BY <2>1, StartupSeq, SeqMonotonic
<1>2. \A n \in Names : R(n) \in Seq(Kinds(c))
  BY RunSeq, ConcatProperties
<1>3. Statements(c) = ToSet(Startup) \cup UNION {ToSet(R(n)) : n \in Names}
  BY DEF Statements
<1>4. Run(Initialize(c)) = R("initialize_db") /\ Run(Seed(c)) = R("seed_db")
  BY DEF Run, Initialize, Seed
<1> HIDE DEF R
<1>5. Statements(c) \subseteq Kinds(c)
  <2>1. ToSet(Startup) \subseteq Kinds(c)
    BY <1>1, Elements
  <2>2. \A n \in Names : ToSet(R(n)) \subseteq Kinds(c)
    BY <1>2, Elements
  <2> QED
    BY <1>3, <2>1, <2>2
<1>6. ToSet(Startup) \subseteq Statements(c) /\ \A n \in Names : ToSet(R(n)) \subseteq Statements(c)
  BY <1>3
<1>7. Startup \in Seq(Statements(c))
  BY <1>1, <1>6, SeqOfElements
<1>8. \A n \in Names : R(n) \in Seq(Statements(c))
  BY <1>2, <1>6, SeqOfElements
<1> QED
  BY <1>4, <1>5, <1>7, <1>8

-----------------------------------------------------------------------------
(* Types *)

\* What a process has to do next is a statement of its collection.
LEMMA HeadKind ==
  ASSUME TypeInv, NEW p \in Processes, todo[p] # <<>>
  PROVE  /\ Collection[p] \in Collections
         /\ Head(todo[p]) \in Kinds(Collection[p])
         /\ Tail(todo[p]) \in Seq(Statements(Collection[p]))
<1>1. Collection[p] \in Collections
  BY DEF Collections
<1>2. todo[p] \in Seq(Statements(Collection[p]))
  BY DEF TypeInv, TodoOK
<1>3. Statements(Collection[p]) \subseteq Kinds(Collection[p])
  BY <1>1, StatementsSeq
<1> QED
  BY <1>1, <1>2, <1>3, HeadTailProperties

\* Changing what one process has to do.
LEMMA TodoStep ==
  ASSUME TypeInv, NEW p \in Processes, NEW s \in Seq(Statements(Collection[p])),
         todo' = [todo EXCEPT ![p] = s]
  PROVE  /\ TodoOK' /\ todo'[p] = s
         /\ \A q \in Processes : q # p => todo'[q] = todo[q]
<1>1. todo = [q \in Processes |-> todo[q]]
  BY DEF TypeInv, TodoOK
<1>2. \A q \in Processes : todo'[q] = IF q = p THEN s ELSE todo[q]
  BY <1>1
<1>3. todo' = [q \in Processes |-> todo'[q]]
  BY <1>1
<1> QED
  BY <1>2, <1>3 DEF TypeInv, TodoOK

\* A process that fails ends, and is typed as before.
LEMMA EndType ==
  ASSUME TypeInv, NEW p \in Processes, End(p)
  PROVE  /\ TodoOK' /\ DatabaseOK'
         /\ pc' \in [Processes -> {"off", "starting", "listening"}]
         /\ looked' \in [Processes -> BOOLEAN]
<1>1. <<>> \in Seq(Statements(Collection[p]))
  BY EmptySeq
<1>2. TodoOK'
  BY <1>1, TodoStep DEF End
<1> QED
  BY <1>2 DEF End, TypeInv, DatabaseOK, ProcessesOK

\* A statement that is done leaves a list of statements.
LEMMA DoneType ==
  ASSUME TypeInv, NEW p \in Processes, todo[p] # <<>>, Done(p)
  PROVE  /\ TodoOK' /\ todo'[p] = Tail(todo[p])
         /\ UNCHANGED <<pc, crashes, interrupted>>
<1>1. Tail(todo[p]) \in Seq(Statements(Collection[p]))
  BY HeadKind
<1> QED
  BY <1>1, TodoStep DEF Done

\* Initially every variable has its type.
LEMMA InitType == Init => TypeInv
<1> SUFFICES ASSUME Init
             PROVE  TypeInv
  OBVIOUS
<1>1. TodoOK
  BY EmptySeq DEF Init, TodoOK
<1>2. DatabaseOK
  BY DEF Init, DatabaseOK
<1>3. ProcessesOK
  BY MigrationsAssumption DEF Init, ProcessesOK
<1> QED
  BY <1>1, <1>2, <1>3 DEF TypeInv

\* A process starts with the statements of bun's Init and of its query.
LEMMA StartType ==
  ASSUME TypeInv, NEW p \in Processes, Start(p)
  PROVE  TypeInv'
<1>1. Startup \in Seq(Statements(Collection[p]))
  BY StatementsSeq DEF Collections
<1>2. TodoOK'
  BY <1>1, TodoStep DEF Start
<1> QED
  BY <1>2 DEF Start, TypeInv, DatabaseOK, ProcessesOK

\* Looking for a table changes what one process knows.
LEMMA LookForTableType ==
  ASSUME TypeInv, NEW p \in Processes, LookForTable(p)
  PROVE  TypeInv'
<1>1. todo[p] # <<>> /\ UNCHANGED <<tables, rows, applied, pc, crashes, interrupted>>
  BY DEF LookForTable, Doing, Done
<1>2. TodoOK' /\ looked' \in [Processes -> BOOLEAN]
  <2>1. CASE Done(p) /\ UNCHANGED looked
    BY <1>1, <2>1, DoneType DEF TypeInv, ProcessesOK
  <2>2. CASE looked' = [looked EXCEPT ![p] = TRUE] /\ UNCHANGED todo
    BY <2>2 DEF TypeInv, ProcessesOK, TodoOK
  <2> QED
    BY <2>1, <2>2 DEF LookForTable
<1> QED
  BY <1>1, <1>2 DEF TypeInv, DatabaseOK, ProcessesOK

\* A table is created, or its process ends.
LEMMA CreateTableType ==
  ASSUME TypeInv, NEW p \in Processes, CreateTable(p)
  PROVE  TypeInv'
<1>1. todo[p] # <<>> /\ Head(todo[p]).do = "create"
  BY DEF CreateTable, Doing
<1>2. Head(todo[p]).what \in AllTables
  <2>1. /\ Collection[p] \in Collections
        /\ Head(todo[p]).what \in ToSet(Bookkeeping) \cup ToSet(Tables[Collection[p]])
    BY <1>1, HeadKind, KindOf
  <2> QED
    BY <2>1 DEF AllTables
<1>3. CASE /\ tables' = tables \cup {Head(todo[p]).what}
           /\ looked' = [looked EXCEPT ![p] = FALSE]
           /\ Done(p) /\ UNCHANGED <<rows, applied>>
  <2>1. TodoOK' /\ UNCHANGED <<pc, crashes, interrupted>>
    BY <1>1, <1>3, DoneType
  <2>2. DatabaseOK'
    BY <1>2, <1>3 DEF TypeInv, DatabaseOK
  <2> QED
    BY <1>3, <2>1, <2>2 DEF TypeInv, ProcessesOK
<1>4. CASE End(p) /\ UNCHANGED <<crashes, interrupted>>
  BY <1>4, EndType DEF TypeInv, ProcessesOK
<1> QED
  BY <1>3, <1>4 DEF CreateTable

\* A process that knows what is applied continues with migrations of its own.
LEMMA ReadAppliedType ==
  ASSUME TypeInv, NEW p \in Processes, ReadApplied(p)
  PROVE  TypeInv'
<1> DEFINE c == Collection[p]
<1>1. c \in Collections
  BY DEF Collections
<1>2. \A m \in {Initialize(c), Seed(c)} : RunUnapplied(m) \in Seq(Statements(c))
  <2>1. \A m \in {Initialize(c), Seed(c)} : Run(m) \in Seq(Statements(c))
    BY <1>1, StatementsSeq
  <2> HIDE DEF c
  <2> QED
    BY <2>1, EmptySeq DEF RunUnapplied
<1>3. Migrate(c) \in Seq(Statements(c))
  BY <1>2, ConcatProperties DEF Migrate, Initialize, Seed
<1>4. TodoOK'
  BY <1>3, TodoStep DEF ReadApplied
<1> QED
  BY <1>4 DEF ReadApplied, TypeInv, DatabaseOK, ProcessesOK

\* A mark is added, or its process ends.
LEMMA MarkAppliedType ==
  ASSUME TypeInv, NEW p \in Processes, MarkApplied(p)
  PROVE  TypeInv'
<1>1. todo[p] # <<>> /\ Head(todo[p]).do = "mark"
  BY DEF MarkApplied, Doing
<1>2. Head(todo[p]).what \in AllMarks
  <2>1. /\ Collection[p] \in Collections
        /\ Head(todo[p]).what \in {Initialize(Collection[p]), Seed(Collection[p])}
    BY <1>1, HeadKind, KindOf
  <2> QED
    BY <2>1 DEF AllMarks, Initialize, Seed
<1>3. TodoOK' /\ UNCHANGED <<pc, crashes, interrupted>>
  BY <1>1, DoneType DEF MarkApplied
<1> QED
  BY <1>2, <1>3 DEF MarkApplied, TypeInv, DatabaseOK, ProcessesOK

\* A row of the fixtures is added, or its process ends.
LEMMA AddRowType ==
  ASSUME TypeInv, NEW p \in Processes, AddRow(p)
  PROVE  TypeInv'
<1> DEFINE row == Head(todo[p]).what
<1>1. todo[p] # <<>> /\ Head(todo[p]).do = "insert"
  BY DEF AddRow, Doing
<1>2. row \in AllRows
  <2>1. Collection[p] \in Collections /\ row \in ToSet(Fixtures[Collection[p]])
    BY <1>1, HeadKind, KindOf
  <2> QED
    BY <2>1 DEF AllRows
<1>3. CASE /\ row.table \in tables /\ rows' = rows \cup {row}
           /\ Done(p) /\ UNCHANGED <<looked, tables, applied>>
  <2>1. TodoOK' /\ UNCHANGED <<pc, crashes, interrupted>>
    BY <1>1, <1>3, DoneType
  <2>2. DatabaseOK'
    BY <1>2, <1>3 DEF TypeInv, DatabaseOK
  <2> QED
    BY <1>3, <2>1, <2>2 DEF TypeInv, ProcessesOK
<1>4. CASE End(p) /\ UNCHANGED <<crashes, interrupted>>
  BY <1>4, EndType DEF TypeInv, ProcessesOK
<1> QED
  BY <1>3, <1>4 DEF AddRow

\* A crash ends a process and touches no table.
LEMMA CrashType ==
  ASSUME TypeInv, NEW p \in Processes, Crash(p)
  PROVE  TypeInv'
<1>1. crashes' \in 0..MaxCrashes /\ interrupted' \subseteq Processes
  <2>1. crashes \in 0..MaxCrashes /\ MaxCrashes \in Nat
    BY MigrationsAssumption DEF TypeInv, ProcessesOK
  <2> QED
    BY <2>1 DEF Crash, TypeInv, ProcessesOK
<1> QED
  BY <1>1, EndType DEF Crash, TypeInv, ProcessesOK

\* Types are kept.
LEMMA TypeStep == TypeInv /\ [Next]_vars => TypeInv'
<1> SUFFICES ASSUME TypeInv, [Next]_vars
             PROVE  TypeInv'
  OBVIOUS
<1>1. ASSUME NEW p \in Processes, Step(p)
      PROVE  TypeInv'
  BY <1>1, StartType, LookForTableType, CreateTableType, ReadAppliedType, MarkAppliedType,
     AddRowType DEF Step, Listen, TypeInv, TodoOK, DatabaseOK, ProcessesOK
<1>2. ASSUME NEW p \in Processes, Crash(p)
      PROVE  TypeInv'
  BY <1>2, CrashType
<1>3. CASE UNCHANGED vars
  BY <1>3 DEF vars, TypeInv, TodoOK, DatabaseOK, ProcessesOK
<1> QED
  BY <1>1, <1>2, <1>3 DEF Next

\* Every variable has its type, whoever crashes or fails when; no process
\* executes statements of another collection.
THEOREM TypeCorrect == Spec => []TypeOK
<1>1. TypeInv => TypeOK
  <2> SUFFICES ASSUME TypeInv
               PROVE  TypeOK
    OBVIOUS
  <2>1. \A p \in Processes : ToSet(todo[p]) \subseteq Statements(Collection[p])
    BY Elements DEF TypeInv, TodoOK
  <2> QED
    BY <2>1 DEF TypeInv, TypeOK, DatabaseOK, ProcessesOK, AllTables, AllRows, AllMarks
<1> QED
  BY <1>1, InitType, TypeStep, PTL DEF Spec

-----------------------------------------------------------------------------
(* What a process executes that finds nothing applied *)

Full(collection) == Run(Initialize(collection)) \o Run(Seed(collection))

\* A migration is marked, and then its statements follow.
LEMMA RunShape ==
  ASSUME NEW K, NEW m, Mark(m) \in Seq(K), Up(m) \in Seq(K)
  PROVE  /\ Run(m) \in Seq(K) /\ Len(Run(m)) = 1 + Len(Up(m)) /\ Len(Up(m)) \in Nat
         /\ Run(m)[1] = [do |-> "mark", what |-> m]
         /\ \A k \in 1..Len(Up(m)) : Run(m)[k + 1] = Up(m)[k]
<1> DEFINE M == Mark(m)
           U == Up(m)
<1>1. Len(M) = 1 /\ M[1] = [do |-> "mark", what |-> m]
  BY DEF Mark
<1>2. Len(U) \in Nat
  BY LenProperties
<1>3. Run(m) = M \o U
  BY DEF Run
<1> HIDE DEF M, U
<1>4. /\ M \o U \in Seq(K) /\ Len(M \o U) = Len(M) + Len(U)
      /\ \A i \in 1..(Len(M) + Len(U)) : (M \o U)[i] = IF i <= Len(M) THEN M[i] ELSE U[i - Len(M)]
  BY ConcatProperties DEF M, U
<1>5. Run(m)[1] = M[1]
  BY <1>1, <1>2, <1>3, <1>4
<1>6. ASSUME NEW k \in 1..Len(U)
      PROVE  Run(m)[k + 1] = U[k]
  <2>1. k + 1 \in 1..(Len(M) + Len(U)) /\ ~(k + 1 <= Len(M)) /\ (k + 1) - Len(M) = k
    BY <1>1, <1>2
  <2> QED
    BY <1>3, <1>4, <2>1
<1>7. Len(Run(m)) = 1 + Len(U) /\ Run(m) \in Seq(K)
  BY <1>1, <1>3, <1>4
<1> QED
  BY <1>1, <1>2, <1>5, <1>6, <1>7 DEF U

\* The statements by their positions.
LEMMA FullShape ==
  ASSUME NEW c \in Collections
  PROVE  LET a == Len(Tables[c])
             b == Len(Fixtures[c])
         IN /\ a \in Nat /\ b \in Nat
            /\ Full(c) \in Seq(Statements(c)) /\ Len(Full(c)) = a + b + 2
            /\ Full(c)[1] = [do |-> "mark", what |-> Initialize(c)]
            /\ \A k \in 1..a : Full(c)[k + 1] = [do |-> "create", what |-> Tables[c][k]]
            /\ Full(c)[a + 2] = [do |-> "mark", what |-> Seed(c)]
            /\ \A k \in 1..b : Full(c)[k + a + 2] = [do |-> "insert", what |-> Fixtures[c][k]]
<1> DEFINE a == Len(Tables[c])
           b == Len(Fixtures[c])
           A == Run(Initialize(c))
           B == Run(Seed(c))
<1>1. a \in Nat /\ b \in Nat
  BY CollectionFacts, LenProperties
<1>2. /\ Up(Initialize(c)) = Creations(Tables[c])
      /\ Len(Up(Initialize(c))) = a /\ Len(Up(Seed(c))) = b
      /\ \A k \in 1..a : Up(Initialize(c))[k] = [do |-> "create", what |-> Tables[c][k]]
      /\ \A k \in 1..b : Up(Seed(c))[k] = [do |-> "insert", what |-> Fixtures[c][k]]
  <2>1. /\ Len(Creations(Tables[c])) = a
        /\ \A k \in 1..a : Creations(Tables[c])[k] = [do |-> "create", what |-> Tables[c][k]]
    BY CollectionFacts, CreationsSeq
  <2>2. /\ Up(Initialize(c)) = Creations(Tables[c]) /\ Len(Up(Seed(c))) = b
        /\ \A k \in 1..b : Up(Seed(c))[k] = [do |-> "insert", what |-> Fixtures[c][k]]
    BY RunSeq
  <2> QED
    BY <2>1, <2>2
<1>3. \A m \in {Initialize(c), Seed(c)} : Mark(m) \in Seq(Kinds(c)) /\ Up(m) \in Seq(Kinds(c))
  BY RunSeq DEF Initialize, Seed
<1>4. /\ Len(A) = 1 + a /\ A[1] = [do |-> "mark", what |-> Initialize(c)]
      /\ \A k \in 1..a : A[k + 1] = [do |-> "create", what |-> Tables[c][k]]
  <2> DEFINE U == Up(Initialize(c))
  <2>1. /\ Len(A) = 1 + Len(U) /\ A[1] = [do |-> "mark", what |-> Initialize(c)]
        /\ \A k \in 1..Len(U) : A[k + 1] = U[k]
    BY <1>3, RunShape
  <2>2. Len(U) = a /\ \A k \in 1..a : U[k] = [do |-> "create", what |-> Tables[c][k]]
    BY <1>2
  <2> HIDE DEF A, U, a
  <2> QED
    BY <2>1, <2>2
<1>5. /\ Len(B) = 1 + b /\ B[1] = [do |-> "mark", what |-> Seed(c)]
      /\ \A k \in 1..b : B[k + 1] = [do |-> "insert", what |-> Fixtures[c][k]]
  <2> DEFINE U == Up(Seed(c))
  <2>1. /\ Len(B) = 1 + Len(U) /\ B[1] = [do |-> "mark", what |-> Seed(c)]
        /\ \A k \in 1..Len(U) : B[k + 1] = U[k]
    BY <1>3, RunShape
  <2>2. Len(U) = b /\ \A k \in 1..b : U[k] = [do |-> "insert", what |-> Fixtures[c][k]]
    BY <1>2
  <2> HIDE DEF B, U, b
  <2> QED
    BY <2>1, <2>2
<1>6. A \in Seq(Statements(c)) /\ B \in Seq(Statements(c))
  BY StatementsSeq
<1>7. Full(c) = A \o B
  BY DEF Full
<1> HIDE DEF a, b, A, B
<1>8. /\ Full(c) \in Seq(Statements(c)) /\ Len(Full(c)) = Len(A) + Len(B)
      /\ \A i \in 1..(Len(A) + Len(B)) : Full(c)[i] = IF i <= Len(A) THEN A[i] ELSE B[i - Len(A)]
  BY <1>6, <1>7, ConcatProperties
<1>9. Full(c)[1] = A[1]
  BY <1>1, <1>4, <1>5, <1>8
<1>10. ASSUME NEW k \in 1..a
       PROVE  Full(c)[k + 1] = A[k + 1]
  <2>1. k + 1 \in 1..(Len(A) + Len(B)) /\ k + 1 <= Len(A)
    BY <1>1, <1>4, <1>5
  <2> QED
    BY <1>8, <2>1
<1>11. ASSUME NEW k \in 0..b
       PROVE  Full(c)[k + a + 2] = B[k + 1]
  <2>1. /\ k + a + 2 \in 1..(Len(A) + Len(B)) /\ ~(k + a + 2 <= Len(A))
        /\ (k + a + 2) - Len(A) = k + 1
    BY <1>1, <1>4, <1>5
  <2> QED
    BY <1>8, <2>1
<1>12. Full(c)[a + 2] = B[1]
  <2>1. Full(c)[0 + a + 2] = B[0 + 1] /\ 0 + a + 2 = a + 2 /\ 0 + 1 = 1
    BY <1>1, <1>11
  <2> QED
    BY <2>1
<1>13. Len(Full(c)) = a + b + 2
  BY <1>1, <1>4, <1>5, <1>8
<1>14. \A k \in 1..b : Full(c)[k + a + 2] = B[k + 1]
  BY <1>1, <1>11
<1> QED
  BY <1>1, <1>4, <1>5, <1>8, <1>9, <1>10, <1>12, <1>13, <1>14 DEF a, b

\* What the proof needs of these positions: every table is created and every
\* row inserted, each row once, when all the tables have been created.
LEMMA FullFacts ==
  ASSUME NEW c \in Collections
  PROVE  LET F == Full(c)
             N == 1..Len(Full(c))
         IN /\ F \in Seq(Statements(c)) /\ Len(F) \in Nat
            /\ \A k \in N : F[k].do # "read"
            /\ \A k \in N : F[k].do = "create" => F[k].what \in ToSet(Tables[c])
            /\ \A j, k \in N :
                 F[j].do = "insert" /\ F[k].do = "insert" /\ F[j].what = F[k].what => j = k
            /\ \A k \in N : F[k].do = "insert" =>
                 \A t \in ToSet(Tables[c]) :
                   \E j \in 1..(k - 1) : F[j].do = "create" /\ F[j].what = t
            /\ \A t \in ToSet(Tables[c]) : \E j \in N : F[j].do = "create" /\ F[j].what = t
            /\ \A row \in ToSet(Fixtures[c]) : \E j \in N : F[j].do = "insert" /\ F[j].what = row
            /\ \A m \in {Initialize(c), Seed(c)} : \E j \in N : F[j].do = "mark" /\ F[j].what = m
<1> DEFINE F == Full(c)
           a == Len(Tables[c])
           b == Len(Fixtures[c])
           T == Tables[c]
           R == Fixtures[c]
<1>1. /\ a \in Nat /\ b \in Nat
      /\ F \in Seq(Statements(c)) /\ Len(F) = a + b + 2
      /\ F[1] = [do |-> "mark", what |-> Initialize(c)]
      /\ \A k \in 1..a : F[k + 1] = [do |-> "create", what |-> T[k]]
      /\ F[a + 2] = [do |-> "mark", what |-> Seed(c)]
      /\ \A k \in 1..b : F[k + a + 2] = [do |-> "insert", what |-> R[k]]
  BY FullShape
<1>2. /\ ToSet(T) = {T[k] : k \in 1..a} /\ ToSet(R) = {R[k] : k \in 1..b}
      /\ \A j, k \in 1..b : R[j] = R[k] => j = k
  <2>1. T \in Seq(ToSet(T)) /\ R \in Seq([table : ToSet(T), row : Nat])
    BY CollectionFacts
  <2>2. \A j, k \in DOMAIN R : R[j] = R[k] => j = k
    BY CollectionFacts
  <2>3. DOMAIN R = 1..b
    BY <2>1, LenProperties
  <2> HIDE DEF T, R
  <2>4. ToSet(T) = {T[k] : k \in 1..a}
    BY <2>1, Elements DEF T
  <2>5. ToSet(R) = {R[k] : k \in 1..b}
    BY <2>1, Elements DEF R
  <2> QED
    BY <2>2, <2>3, <2>4, <2>5
<1> HIDE DEF F, a, b, T, R
<1>3. ASSUME NEW k \in 1..(a + b + 2)
      PROVE  \/ k \in {1, a + 2} /\ F[k].do = "mark"
             \/ k \in 2..(a + 1) /\ F[k].do = "create" /\ F[k].what \in ToSet(T)
             \/ k \in (a + 3)..(a + b + 2) /\ F[k].do = "insert" /\ F[k].what = R[k - a - 2]
                /\ k - a - 2 \in 1..b
  <2>1. CASE k \in {1, a + 2}
    BY <1>1, <2>1
  <2>2. CASE k \in 2..(a + 1)
    <3>1. k - 1 \in 1..a /\ (k - 1) + 1 = k
      BY <1>1, <2>2
    <3>2. F[k] = [do |-> "create", what |-> T[k - 1]]
      BY <1>1, <3>1
    <3> QED
      BY <1>2, <2>2, <3>1, <3>2
  <2>3. CASE k \in (a + 3)..(a + b + 2)
    <3>1. k - a - 2 \in 1..b /\ (k - a - 2) + a + 2 = k
      BY <1>1, <2>3
    <3>2. F[k] = [do |-> "insert", what |-> R[k - a - 2]]
      BY <1>1, <3>1
    <3> QED
      BY <2>3, <3>1, <3>2
  <2> QED
    BY <1>1, <2>1, <2>2, <2>3
<1>4. \A t \in ToSet(T) : \E j \in 2..(a + 1) : F[j].do = "create" /\ F[j].what = t
  <2> SUFFICES ASSUME NEW k \in 1..a
               PROVE  \E j \in 2..(a + 1) : F[j].do = "create" /\ F[j].what = T[k]
    BY <1>2
  <2>1. k + 1 \in 2..(a + 1)
    BY <1>1
  <2>2. F[k + 1] = [do |-> "create", what |-> T[k]]
    BY <1>1
  <2> QED
    BY <2>1, <2>2
<1>5. \A row \in ToSet(R) : \E j \in 1..(a + b + 2) : F[j].do = "insert" /\ F[j].what = row
  <2> SUFFICES ASSUME NEW k \in 1..b
               PROVE  \E j \in 1..(a + b + 2) : F[j].do = "insert" /\ F[j].what = R[k]
    BY <1>2
  <2>1. k + a + 2 \in 1..(a + b + 2)
    BY <1>1
  <2>2. F[k + a + 2] = [do |-> "insert", what |-> R[k]]
    BY <1>1
  <2> QED
    BY <2>1, <2>2
<1>6. \A j, k \in 1..(a + b + 2) :
        F[j].do = "insert" /\ F[k].do = "insert" /\ F[j].what = F[k].what => j = k
  <2> SUFFICES ASSUME NEW j \in 1..(a + b + 2), NEW k \in 1..(a + b + 2),
                      F[j].do = "insert", F[k].do = "insert", F[j].what = F[k].what
               PROVE  j = k
    OBVIOUS
  <2>1. F[j].what = R[j - a - 2] /\ j - a - 2 \in 1..b
    BY <1>3
  <2>2. F[k].what = R[k - a - 2] /\ k - a - 2 \in 1..b
    BY <1>3
  <2>3. j - a - 2 = k - a - 2
    BY <1>2, <2>1, <2>2
  <2> QED
    BY <1>1, <2>3
<1>7. \A k \in 1..(a + b + 2) : F[k].do = "insert" =>
        \A t \in ToSet(T) : \E j \in 1..(k - 1) : F[j].do = "create" /\ F[j].what = t
  <2> SUFFICES ASSUME NEW k \in 1..(a + b + 2), F[k].do = "insert", NEW t \in ToSet(T)
               PROVE  \E j \in 1..(k - 1) : F[j].do = "create" /\ F[j].what = t
    OBVIOUS
  <2>1. k \in (a + 3)..(a + b + 2)
    BY <1>3
  <2>2. 2..(a + 1) \subseteq 1..(k - 1)
    BY <1>1, <2>1
  <2> QED
    BY <1>4, <2>2
<1>8. \A t \in ToSet(T) : \E j \in 1..(a + b + 2) : F[j].do = "create" /\ F[j].what = t
  <2>1. 2..(a + 1) \subseteq 1..(a + b + 2)
    BY <1>1
  <2> QED
    BY <1>4, <2>1
<1>9. \A m \in {Initialize(c), Seed(c)} :
        \E j \in 1..(a + b + 2) : F[j].do = "mark" /\ F[j].what = m
  <2>1. 1 \in 1..(a + b + 2) /\ a + 2 \in 1..(a + b + 2)
    BY <1>1
  <2> QED
    BY <1>1, <2>1
<1>10. Len(F) \in Nat
  BY <1>1
<1> QED
  BY <1>1, <1>3, <1>5, <1>6, <1>7, <1>8, <1>9, <1>10 DEF F, T, R

-----------------------------------------------------------------------------
(* A process that nobody competes with *)

Alone(p) == \A q \in Processes : Collection[q] = Collection[p] => q = p

Executed(s) ==
  /\ s.do = "create" => s.what \in tables
  /\ s.do = "mark" => s.what \in applied
  /\ s.do = "insert" => s.what \in rows

Migrated(c) == \A k \in 1..Len(Full(c)) : Executed(Full(c)[k])

Untouched(c) ==
  /\ \A m \in {Initialize(c), Seed(c)} : m \notin applied
  /\ \A row \in ToSet(Fixtures[c]) : row \notin rows

\* The process has still to execute the n-th statement and those after it.
WorkingFrom(p, c, n) ==
  /\ todo[p] = SubSeq(Full(c), n, Len(Full(c)))
  /\ \A k \in 1..(n - 1) : Executed(Full(c)[k])
  /\ \A k \in n..Len(Full(c)) : Full(c)[k].do = "insert" => Full(c)[k].what \notin rows

Working(p) == \E n \in 1..(Len(Full(Collection[p])) + 1) : WorkingFrom(p, Collection[p], n)

AtStartup(p) == \E n \in 1..3 : todo[p] = SubSeq(Startup, n, 3)

Settled(p) == Untouched(Collection[p]) \/ Migrated(Collection[p])

Lone(p) ==
  /\ pc[p] = "off" => Settled(p)
  /\ pc[p] = "listening" => Migrated(Collection[p])
  /\ pc[p] = "starting" => (AtStartup(p) /\ Settled(p)) \/ Working(p)
  /\ looked[p] =>
       /\ pc[p] = "starting" /\ todo[p] # <<>> /\ Head(todo[p]).do = "create"
       /\ Head(todo[p]).what \in ToSet(Tables[Collection[p]]) => Head(todo[p]).what \notin tables

LoneInv == \A p \in Processes : Alone(p) /\ p \notin interrupted => Lone(p)

\* The rest of a sequence: what comes next, and what comes then.
LEMMA Suffix ==
  ASSUME NEW S, NEW F \in Seq(S), NEW n \in 1..(Len(F) + 1)
  PROVE  /\ SubSeq(F, n, Len(F)) = <<>> <=> n = Len(F) + 1
         /\ n <= Len(F) => /\ n \in 1..Len(F) /\ n + 1 \in 1..(Len(F) + 1)
                           /\ Head(SubSeq(F, n, Len(F))) = F[n]
                           /\ Tail(SubSeq(F, n, Len(F))) = SubSeq(F, n + 1, Len(F))
<1>1. Len(F) \in Nat
  BY LenProperties
<1>2. CASE n = Len(F) + 1
  <2>1. SubSeq(F, n, Len(F)) = <<>>
    BY <1>1, <1>2, SubSeqEmpty
  <2> QED
    BY <1>1, <1>2, <2>1
<1>3. CASE n # Len(F) + 1
  <2>1. n \in 1..Len(F) /\ Len(F) \in n..Len(F) /\ n + 1 \in 1..(Len(F) + 1)
    BY <1>1, <1>3
  <2>2. Head(SubSeq(F, n, Len(F))) = F[n] /\ Tail(SubSeq(F, n, Len(F))) = SubSeq(F, n + 1, Len(F))
    BY <2>1, HeadTailOfSubSeq
  <2>3. SubSeq(F, n, Len(F)) # <<>>
    <3>1. \A i \in n..Len(F) : F[i] \in S
      BY <1>1, ElementOfSeq
    <3>2. Len(SubSeq(F, n, Len(F))) = Len(F) - n + 1
      BY <1>1, <2>1, <3>1, SubSeqProperties
    <3>3. Len(F) - n + 1 # 0
      BY <1>1, <2>1
    <3> QED
      BY <3>2, <3>3, EmptySeq
  <2> QED
    BY <1>3, <2>1, <2>2, <2>3
<1> QED
  BY <1>2, <1>3

\* A process that is at its startup statements: there are three, the last one
\* is the query.
LEMMA StartupNext ==
  ASSUME NEW p, AtStartup(p)
  PROVE  /\ todo[p] # <<>> /\ Head(todo[p]).do \in {"create", "read"}
         /\ Head(todo[p]).do = "create" =>
              \E n \in 1..3 : Tail(todo[p]) = SubSeq(Startup, n, 3)
<1>1. PICK n \in 1..3 : todo[p] = SubSeq(Startup, n, 3)
  BY DEF AtStartup
<1>2. /\ Len(Startup) = 3 /\ Startup[1].do = "create" /\ Startup[2].do = "create"
      /\ Startup[3] = [do |-> "read"]
  BY StartupSeq
<1>3. /\ todo[p] # <<>> /\ Head(todo[p]) = Startup[n]
      /\ Tail(todo[p]) = SubSeq(Startup, n + 1, 3)
  <2>1. \A m \in 1..(Len(Startup) + 1) :
          /\ SubSeq(Startup, m, Len(Startup)) = <<>> <=> m = Len(Startup) + 1
          /\ m <= Len(Startup) =>
               /\ Head(SubSeq(Startup, m, Len(Startup))) = Startup[m]
               /\ Tail(SubSeq(Startup, m, Len(Startup))) = SubSeq(Startup, m + 1, Len(Startup))
    BY StartupSeq, Suffix
  <2>2. n \in 1..(Len(Startup) + 1) /\ n <= Len(Startup) /\ n # Len(Startup) + 1
    BY <1>2
  <2>3. todo[p] = SubSeq(Startup, n, Len(Startup))
    BY <1>1, <1>2
  <2>4. todo[p] # <<>> /\ Head(todo[p]) = Startup[n] /\ Tail(todo[p]) = SubSeq(Startup, n + 1, Len(Startup))
    BY <2>1, <2>2, <2>3
  <2> QED
    BY <1>2, <2>4
<1>4. Startup[n].do \in {"create", "read"} /\ (Startup[n].do = "create" => n + 1 \in 1..3)
  BY <1>2
<1> QED
  BY <1>3, <1>4

\* A process that is at work on its migrations.
LEMMA WorkingNext ==
  ASSUME NEW p, NEW c \in Collections, NEW n \in 1..(Len(Full(c)) + 1), WorkingFrom(p, c, n)
  PROVE  /\ todo[p] = <<>> => Migrated(c)
         /\ todo[p] # <<>> =>
              /\ n \in 1..Len(Full(c)) /\ n + 1 \in 1..(Len(Full(c)) + 1)
              /\ Head(todo[p]) = Full(c)[n]
              /\ Tail(todo[p]) = SubSeq(Full(c), n + 1, Len(Full(c)))
<1>1. Full(c) \in Seq(Statements(c)) /\ Len(Full(c)) \in Nat
  BY FullFacts
<1>2. /\ todo[p] = <<>> <=> n = Len(Full(c)) + 1
      /\ n <= Len(Full(c)) =>
           /\ n \in 1..Len(Full(c)) /\ n + 1 \in 1..(Len(Full(c)) + 1)
           /\ Head(todo[p]) = Full(c)[n]
           /\ Tail(todo[p]) = SubSeq(Full(c), n + 1, Len(Full(c)))
  BY <1>1, Suffix DEF WorkingFrom
<1>3. n # Len(Full(c)) + 1 => n <= Len(Full(c))
  BY <1>1
<1>4. n = Len(Full(c)) + 1 => n - 1 = Len(Full(c))
  BY <1>1
<1> QED
  BY <1>2, <1>3, <1>4 DEF WorkingFrom, Migrated

\* A migrated collection is complete, and marked.
LEMMA MigratedComplete ==
  ASSUME NEW c \in Collections, Migrated(c)
  PROVE  Complete(c) /\ \A m \in {Initialize(c), Seed(c)} : m \in applied
<1> DEFINE F == Full(c)
           N == 1..Len(Full(c))
<1>1. /\ \A t \in ToSet(Tables[c]) : \E j \in N : F[j].do = "create" /\ F[j].what = t
      /\ \A row \in ToSet(Fixtures[c]) : \E j \in N : F[j].do = "insert" /\ F[j].what = row
      /\ \A m \in {Initialize(c), Seed(c)} : \E j \in N : F[j].do = "mark" /\ F[j].what = m
  BY FullFacts
<1>2. \A j \in N : Executed(F[j])
  BY DEF Migrated
<1> HIDE DEF F, N
<1> QED
  BY <1>1, <1>2 DEF Executed, Complete

\* What the steps of other collections leave alone.
Foreign(c) ==
  /\ tables \subseteq tables' /\ rows \subseteq rows' /\ applied \subseteq applied'
  /\ \A t \in ToSet(Tables[c]) : t \in tables' => t \in tables
  /\ \A row \in ToSet(Fixtures[c]) : row \in rows' => row \in rows
  /\ \A m \in {Initialize(c), Seed(c)} : m \in applied' => m \in applied

\* A statement of another collection touches nothing of this one.
LEMMA ForeignStep ==
  ASSUME TypeInv, NEW q \in Processes, NEW c \in Collections, c # Collection[q],
         Step(q) \/ Crash(q)
  PROVE  Foreign(c)
<1> DEFINE d == Collection[q]
           what == Head(todo[q]).what
<1>1. d \in Collections
  BY DEF Collections
<1>2. ToSet(Tables[c]) \cap ToSet(Tables[d]) = {} /\ ToSet(Tables[c]) \cap ToSet(Bookkeeping) = {}
  BY <1>1, MigrationsAssumption
<1>3. CASE UNCHANGED <<tables, rows, applied>>
  BY <1>3 DEF Foreign
<1>4. CASE CreateTable(q) /\ tables' = tables \cup {what} /\ UNCHANGED <<rows, applied>>
  <2>1. todo[q] # <<>> /\ Head(todo[q]).do = "create"
    BY <1>4 DEF CreateTable, Doing
  <2>2. what \in ToSet(Bookkeeping) \cup ToSet(Tables[d])
    BY <2>1, HeadKind, KindOf
  <2> HIDE DEF what
  <2> QED
    BY <1>2, <1>4, <2>2 DEF Foreign
<1>5. CASE MarkApplied(q)
  <2>1. todo[q] # <<>> /\ Head(todo[q]).do = "mark"
    BY <1>5 DEF MarkApplied, Doing
  <2>2. what \in {Initialize(d), Seed(d)}
    BY <2>1, HeadKind, KindOf
  <2>3. \A m \in {Initialize(c), Seed(c)} : m \notin {Initialize(d), Seed(d)}
    BY DEF Initialize, Seed, Migration
  <2>4. applied' = applied \cup {what} /\ UNCHANGED <<tables, rows>>
    BY <1>5 DEF MarkApplied
  <2> HIDE DEF what, d
  <2> QED
    BY <2>2, <2>3, <2>4 DEF Foreign
<1>6. CASE AddRow(q) /\ rows' = rows \cup {what} /\ UNCHANGED <<tables, applied>>
  <2>1. todo[q] # <<>> /\ Head(todo[q]).do = "insert"
    BY <1>6 DEF AddRow, Doing
  <2>2. what \in ToSet(Fixtures[d])
    BY <2>1, HeadKind, KindOf
  <2>3. what.table \in ToSet(Tables[d]) /\ \A row \in ToSet(Fixtures[c]) : row.table \in ToSet(Tables[c])
    BY <1>1, <2>2, CollectionFacts
  <2> HIDE DEF what
  <2> QED
    BY <1>2, <1>6, <2>3 DEF Foreign
<1> QED
  BY <1>3, <1>4, <1>5, <1>6
     DEF Step, Crash, Start, LookForTable, CreateTable, ReadApplied, AddRow, Listen, End, Done

\* What has been executed stays executed.
LEMMA Stable ==
  ASSUME NEW c, Foreign(c)
  PROVE  /\ \A s : Executed(s) => Executed(s)'
         /\ Migrated(c) => Migrated(c)'
         /\ Untouched(c) => Untouched(c)'
BY DEF Foreign, Executed, Migrated, Untouched

\* What is known of a collection's lone process holds while its own part of the database stays.
LEMMA LoneStable ==
  ASSUME TypeInv, NEW p \in Processes, Lone(p), Foreign(Collection[p]),
         pc'[p] = pc[p], todo'[p] = todo[p], looked'[p] = looked[p]
  PROVE  Lone(p)'
<1> DEFINE c == Collection[p]
<1>1. Settled(p) => Settled(p)'
  BY Stable DEF Settled
<1>2. Migrated(c) => Migrated(c)'
  BY Stable
<1>3. AtStartup(p) => AtStartup(p)'
  BY DEF AtStartup
<1>4. Working(p) => Working(p)'
  <2> SUFFICES ASSUME NEW n \in 1..(Len(Full(c)) + 1), WorkingFrom(p, c, n)
               PROVE  WorkingFrom(p, c, n)'
    BY DEF Working
  <2>1. \A k \in 1..(n - 1) : Executed(Full(c)[k])'
    BY Stable DEF WorkingFrom
  <2>2. ASSUME NEW k \in n..Len(Full(c)), Full(c)[k].do = "insert"
        PROVE  Full(c)[k].what \notin rows'
    <3>1. c \in Collections
      BY DEF Collections
    <3>2. Full(c) \in Seq(Statements(c)) /\ Len(Full(c)) \in Nat /\ Statements(c) \subseteq Kinds(c)
      BY <3>1, FullFacts, StatementsSeq
    <3>3. k \in 1..Len(Full(c))
      BY <3>2
    <3>4. Full(c)[k] \in Kinds(c)
      BY <3>2, <3>3, ElementOfSeq
    <3>5. Full(c)[k].what \in ToSet(Fixtures[c])
      BY <2>2, <3>4, KindOf
    <3>6. Full(c)[k].what \notin rows
      BY <2>2 DEF WorkingFrom
    <3> QED
      BY <3>5, <3>6 DEF Foreign
  <2> QED
    BY <2>1, <2>2 DEF WorkingFrom
<1>5. looked'[p] =>
        /\ pc'[p] = "starting" /\ todo'[p] # <<>> /\ Head(todo'[p]).do = "create"
        /\ Head(todo'[p]).what \in ToSet(Tables[c]) => Head(todo'[p]).what \notin tables'
  BY DEF Lone, Foreign
<1> QED
  BY <1>1, <1>2, <1>3, <1>4, <1>5 DEF Lone

\* The next statement has been executed.
LEMMA WorkingAdvances ==
  ASSUME TypeInv, NEW p \in Processes, todo[p] # <<>>,
         NEW n \in 1..(Len(Full(Collection[p])) + 1), WorkingFrom(p, Collection[p], n),
         tables \subseteq tables', rows \subseteq rows', applied \subseteq applied',
         todo'[p] = Tail(todo[p]), NEW s, s = Head(todo[p]), Executed(s)',
         \A k \in (n + 1)..Len(Full(Collection[p])) :
           Full(Collection[p])[k].do = "insert" => Full(Collection[p])[k].what \notin rows'
  PROVE  Working(p)'
<1> DEFINE c == Collection[p]
           F == Full(c)
<1>1. c \in Collections
  BY DEF Collections
<1>2. /\ n \in 1..Len(F) /\ n + 1 \in 1..(Len(F) + 1)
      /\ Head(todo[p]) = F[n]
      /\ Tail(todo[p]) = SubSeq(F, n + 1, Len(F))
  BY <1>1, WorkingNext
<1>3. \A k \in 1..(n - 1) : Executed(F[k])'
  BY DEF WorkingFrom, Executed
<1>4. Executed(F[n])'
  BY <1>2 DEF Executed
<1>5. \A k \in 1..((n + 1) - 1) : Executed(F[k])'
  <2>1. \A k \in 1..((n + 1) - 1) : k \in 1..(n - 1) \/ k = n
    OBVIOUS
  <2> QED
    BY <1>3, <1>4, <2>1
<1>6. WorkingFrom(p, c, n + 1)'
  BY <1>2, <1>5 DEF WorkingFrom
<1> QED
  BY <1>2, <1>6 DEF Working

\* Where the tables, rows and marks stay, so does what is known of them.
LEMMA SameDatabase ==
  ASSUME NEW p \in Processes, UNCHANGED <<tables, rows, applied>>
  PROVE  /\ Settled(p) => Settled(p)'
         /\ Migrated(Collection[p]) => Migrated(Collection[p])'
         /\ todo'[p] = todo[p] /\ Working(p) => Working(p)'
         /\ todo'[p] = todo[p] /\ AtStartup(p) => AtStartup(p)'
BY DEF Settled, Untouched, Migrated, Executed, Working, WorkingFrom, AtStartup

\* A process that starts has done nothing yet.
LEMMA StartLone ==
  ASSUME TypeInv, NEW p \in Processes, Lone(p), Start(p)
  PROVE  Lone(p)'
<1>1. /\ pc[p] = "off" /\ pc'[p] = "starting" /\ todo'[p] = Startup
      /\ UNCHANGED <<looked, tables, rows, applied>>
  BY DEF Start, TypeInv, ProcessesOK, TodoOK
<1>2. Settled(p)'
  BY <1>1, SameDatabase DEF Lone
<1>3. AtStartup(p)'
  <2>1. Startup = SubSeq(Startup, 1, 3)
    BY StartupSeq, SubSeqFull
  <2>2. 1 \in 1..3
    OBVIOUS
  <2> QED
    BY <1>1, <2>1, <2>2 DEF AtStartup
<1>4. ~looked[p]
  BY <1>1 DEF Lone
<1> QED
  BY <1>1, <1>2, <1>3, <1>4 DEF Lone

\* A startup statement other than the query, done.
LEMMA StartupAdvances ==
  ASSUME NEW p \in Processes, AtStartup(p), Head(todo[p]).do = "create",
         todo'[p] = Tail(todo[p])
  PROVE  AtStartup(p)'
BY StartupNext DEF AtStartup

\* What a CREATE of a process is about.
LEMMA CreatesOwn ==
  ASSUME TypeInv, NEW p \in Processes, todo[p] # <<>>, Head(todo[p]).do = "create", Working(p)
  PROVE  Head(todo[p]).what \in ToSet(Tables[Collection[p]])
<1> DEFINE c == Collection[p]
<1>1. c \in Collections
  BY DEF Collections
<1>2. PICK n \in 1..(Len(Full(c)) + 1) : WorkingFrom(p, c, n)
  BY DEF Working
<1>3. n \in 1..Len(Full(c)) /\ Head(todo[p]) = Full(c)[n]
  BY <1>1, <1>2, WorkingNext
<1> QED
  BY <1>1, <1>3, FullFacts

\* A table that is there.
LEMMA TableDone ==
  ASSUME TypeInv, NEW p \in Processes, todo[p] # <<>>, Head(todo[p]).do = "create",
         pc[p] = "starting", Lone(p), UNCHANGED <<rows, applied>>,
         tables' = tables \cup {Head(todo[p]).what}, todo'[p] = Tail(todo[p])
  PROVE  (AtStartup(p) /\ Settled(p))' \/ Working(p)'
<1> DEFINE c == Collection[p]
<1>1. CASE AtStartup(p) /\ Settled(p)
  <2>1. AtStartup(p)'
    BY <1>1, StartupAdvances
  <2>2. Settled(p)'
    BY <1>1 DEF Settled, Untouched, Migrated, Executed
  <2> QED
    BY <2>1, <2>2
<1>2. CASE Working(p)
  <2>1. PICK n \in 1..(Len(Full(c)) + 1) : WorkingFrom(p, c, n)
    BY <1>2 DEF Working
  <2>2. n \in 1..Len(Full(c))
    BY <2>1, WorkingNext DEF Collections
  <2>3. PICK s : s = Head(todo[p])
    OBVIOUS
  <2>4. Executed(s)'
    BY <2>3 DEF Executed
  <2>5. \A k \in (n + 1)..Len(Full(c)) : Full(c)[k].do = "insert" => Full(c)[k].what \notin rows'
    <3>1. (n + 1)..Len(Full(c)) \subseteq n..Len(Full(c))
      <4>1. Len(Full(c)) \in Nat
        BY FullFacts DEF Collections
      <4> QED
        BY <4>1
    <3> QED
      BY <2>1, <3>1 DEF WorkingFrom
  <2>6. tables \subseteq tables' /\ rows \subseteq rows' /\ applied \subseteq applied'
    OBVIOUS
  <2> QED
    BY <2>1, <2>3, <2>4, <2>5, <2>6, WorkingAdvances
<1> QED
  BY <1>1, <1>2 DEF Lone

\* A lone process skips a table that it finds, and remembers one that it does not.
LEMMA LookForTableLone ==
  ASSUME TypeInv, NEW p \in Processes, Lone(p), LookForTable(p)
  PROVE  Lone(p)'
<1>1. /\ todo[p] # <<>> /\ Head(todo[p]).do = "create" /\ pc[p] = "starting" /\ ~looked[p]
      /\ UNCHANGED <<pc, tables, rows, applied>>
  BY DEF LookForTable, Doing, Done
<1>2. CASE Head(todo[p]).what \in tables /\ Done(p) /\ UNCHANGED looked
  <2>1. todo'[p] = Tail(todo[p])
    BY <1>1, <1>2, DoneType
  <2>2. tables' = tables \cup {Head(todo[p]).what}
    BY <1>1, <1>2
  <2>3. (AtStartup(p) /\ Settled(p))' \/ Working(p)'
    BY <1>1, <2>1, <2>2, TableDone
  <2> QED
    BY <1>1, <1>2, <2>3 DEF Lone
<1>3. CASE /\ Head(todo[p]).what \notin tables
           /\ looked' = [looked EXCEPT ![p] = TRUE] /\ UNCHANGED todo
  <2>1. (AtStartup(p) /\ Settled(p))' \/ Working(p)'
    BY <1>1, <1>3, SameDatabase DEF Lone
  <2> QED
    BY <1>1, <1>3, <2>1 DEF Lone
<1> QED
  BY <1>2, <1>3 DEF LookForTable

\* A lone process creates what it did not find: nobody else creates it.
LEMMA CreateTableLone ==
  ASSUME TypeInv, NEW p \in Processes, Lone(p), CreateTable(p)
  PROVE  Lone(p)'
<1>1. todo[p] # <<>> /\ Head(todo[p]).do = "create" /\ pc[p] = "starting" /\ looked[p]
  BY DEF CreateTable, Doing
<1>2. CASE /\ tables' = tables \cup {Head(todo[p]).what}
           /\ looked' = [looked EXCEPT ![p] = FALSE]
           /\ Done(p) /\ UNCHANGED <<rows, applied>>
  <2>1. todo'[p] = Tail(todo[p]) /\ UNCHANGED pc
    BY <1>1, <1>2, DoneType
  <2>2. (AtStartup(p) /\ Settled(p))' \/ Working(p)'
    BY <1>1, <1>2, <2>1, TableDone
  <2>3. ~looked'[p]
    BY <1>2 DEF TypeInv, ProcessesOK
  <2> QED
    BY <1>1, <2>1, <2>2, <2>3 DEF Lone
<1>3. CASE Head(todo[p]).what \in tables /\ End(p)
  <2>1. ~Working(p)
    BY <1>1, <1>3, CreatesOwn DEF Lone
  <2>2. Settled(p)
    BY <1>1, <2>1 DEF Lone
  <2>3. /\ pc'[p] = "off" /\ ~looked'[p] /\ UNCHANGED <<tables, rows, applied>>
    BY <1>3 DEF End, TypeInv, ProcessesOK
  <2>4. Settled(p)'
    BY <2>2, <2>3, SameDatabase
  <2> QED
    BY <2>3, <2>4 DEF Lone
<1> QED
  BY <1>2, <1>3 DEF CreateTable

\* Nothing is left to do, or everything.
LEMMA ReadAppliedLone ==
  ASSUME TypeInv, NEW p \in Processes, Lone(p), ReadApplied(p)
  PROVE  Lone(p)'
<1> DEFINE c == Collection[p]
           F == Full(c)
<1>1. /\ todo[p] # <<>> /\ Head(todo[p]).do = "read" /\ pc[p] = "starting"
      /\ UNCHANGED <<pc, looked, tables, rows, applied>>
      /\ todo'[p] = Migrate(c)
  BY DEF ReadApplied, Doing, TypeInv, TodoOK
<1>2. c \in Collections /\ F \in Seq(Statements(c)) /\ Len(F) \in Nat
  BY FullFacts DEF Collections
<1>3. ~Working(p)
  <2> SUFFICES ASSUME NEW n \in 1..(Len(F) + 1), WorkingFrom(p, c, n)
               PROVE  FALSE
    BY DEF Working
  <2>1. n \in 1..Len(F) /\ Head(todo[p]) = F[n]
    BY <1>1, <1>2, WorkingNext
  <2> QED
    BY <1>1, <1>2, <2>1, FullFacts
<1>4. Untouched(c) \/ Migrated(c)
  BY <1>1, <1>3 DEF Lone, Settled
<1>5. CASE Untouched(c)
  <2>1. Migrate(c) = F
    BY <1>5 DEF Untouched, Migrate, RunUnapplied, Unapplied, Full, Initialize, Seed
  <2>2. F = SubSeq(F, 1, Len(F)) /\ 1 \in 1..(Len(F) + 1)
    BY <1>2, SubSeqFull
  <2>3. \A k \in 1..Len(F) : F[k].do = "insert" => F[k].what \notin rows'
    <3> SUFFICES ASSUME NEW k \in 1..Len(F), F[k].do = "insert"
                 PROVE  F[k].what \notin rows'
      OBVIOUS
    <3>1. F[k] \in Kinds(c)
      BY <1>2, StatementsSeq, ElementOfSeq
    <3>2. F[k].what \in ToSet(Fixtures[c])
      BY <3>1, KindOf
    <3> QED
      BY <1>1, <1>5, <3>2 DEF Untouched
  <2>4. \A k \in 1..(1 - 1) : Executed(F[k])'
    OBVIOUS
  <2>5. WorkingFrom(p, c, 1)'
    BY <1>1, <2>1, <2>2, <2>3, <2>4 DEF WorkingFrom
  <2>6. Working(p)'
    BY <2>2, <2>5 DEF Working
  <2> QED
    BY <1>1, <2>6 DEF Lone
<1>6. CASE Migrated(c)
  <2>1. Initialize(c) \in applied /\ Seed(c) \in applied
    BY <1>2, <1>6, MigratedComplete
  <2>2. Migrate(c) = <<>>
    <3>1. Migrate(c) = <<>> \o <<>>
      BY <2>1 DEF Migrate, RunUnapplied, Unapplied, Initialize, Seed
    <3> QED
      BY <3>1, EmptySeq, ConcatEmptySeq
  <2>3. SubSeq(F, Len(F) + 1, Len(F)) = <<>> /\ Len(F) + 1 \in 1..(Len(F) + 1)
    BY <1>2, Suffix
  <2>4. \A k \in 1..((Len(F) + 1) - 1) : Executed(F[k])'
    BY <1>1, <1>2, <1>6 DEF Migrated, Executed
  <2>5. \A k \in (Len(F) + 1)..Len(F) : F[k].do = "insert" => F[k].what \notin rows'
    BY <1>2
  <2>6. WorkingFrom(p, c, Len(F) + 1)'
    BY <1>1, <2>2, <2>3, <2>4, <2>5 DEF WorkingFrom
  <2>7. Working(p)'
    BY <2>3, <2>6 DEF Working
  <2> QED
    BY <1>1, <2>7 DEF Lone
<1> QED
  BY <1>4, <1>5, <1>6

\* A lone process marks the migration whose statements follow.
LEMMA MarkAppliedLone ==
  ASSUME TypeInv, NEW p \in Processes, Lone(p), MarkApplied(p)
  PROVE  Lone(p)'
<1> DEFINE c == Collection[p]
<1>1. /\ todo[p] # <<>> /\ Head(todo[p]).do = "mark" /\ pc[p] = "starting"
      /\ applied' = applied \cup {Head(todo[p]).what} /\ UNCHANGED <<pc, looked, tables, rows>>
  BY DEF MarkApplied, Doing, Done
<1>2. todo'[p] = Tail(todo[p])
  BY <1>1, DoneType DEF MarkApplied
<1>3. Working(p)
  BY <1>1, StartupNext DEF Lone
<1>4. PICK n \in 1..(Len(Full(c)) + 1) : WorkingFrom(p, c, n)
  BY <1>3 DEF Working
<1>5. Len(Full(c)) \in Nat
  BY FullFacts DEF Collections
<1>6. PICK s : s = Head(todo[p])
  OBVIOUS
<1>7. Executed(s)'
  BY <1>1, <1>6 DEF Executed
<1>8. \A k \in (n + 1)..Len(Full(c)) : Full(c)[k].do = "insert" => Full(c)[k].what \notin rows'
  BY <1>1, <1>4, <1>5 DEF WorkingFrom
<1>9. Working(p)'
  BY <1>1, <1>2, <1>4, <1>6, <1>7, <1>8, WorkingAdvances
<1>10. ~looked[p]
  BY <1>1 DEF Lone
<1> QED
  BY <1>1, <1>9, <1>10 DEF Lone

\* The table of the row has been created, and the row is new.
LEMMA AddRowLone ==
  ASSUME TypeInv, NEW p \in Processes, Lone(p), AddRow(p)
  PROVE  Lone(p)'
<1> DEFINE c == Collection[p]
           F == Full(c)
           row == Head(todo[p]).what
<1>1. todo[p] # <<>> /\ Head(todo[p]).do = "insert" /\ pc[p] = "starting"
  BY DEF AddRow, Doing
<1>2. Working(p)
  BY <1>1, StartupNext DEF Lone
<1>3. PICK n \in 1..(Len(F) + 1) : WorkingFrom(p, c, n)
  BY <1>2 DEF Working
<1>4. c \in Collections /\ Len(F) \in Nat /\ n \in 1..Len(F) /\ Head(todo[p]) = F[n]
  BY <1>1, <1>3, WorkingNext, FullFacts DEF Collections
<1>5. row \notin rows
  BY <1>1, <1>3, <1>4 DEF WorkingFrom
<1>6. row.table \in tables
  <2>1. row.table \in ToSet(Tables[c])
    BY <1>1, HeadKind, KindOf, CollectionFacts
  <2>2. PICK j \in 1..(n - 1) : F[j].do = "create" /\ F[j].what = row.table
    <3>1. \A k \in 1..Len(F) : F[k].do = "insert" =>
            \A t \in ToSet(Tables[c]) : \E j \in 1..(k - 1) : F[j].do = "create" /\ F[j].what = t
      BY <1>4, FullFacts
    <3>2. F[n].do = "insert"
      BY <1>1, <1>4
    <3> HIDE DEF F, row
    <3> QED
      BY <1>4, <2>1, <3>1, <3>2
  <2>3. Executed(F[j])
    BY <1>3 DEF WorkingFrom
  <2> QED
    BY <2>2, <2>3 DEF Executed
<1>7. rows' = rows \cup {row} /\ Done(p) /\ UNCHANGED <<looked, tables, applied>>
  BY <1>5, <1>6 DEF AddRow
<1>8. todo'[p] = Tail(todo[p]) /\ UNCHANGED pc
  BY <1>1, <1>7, DoneType
<1>9. PICK s : s = Head(todo[p])
  OBVIOUS
<1>10. Executed(s)'
  BY <1>1, <1>7, <1>9 DEF Executed
<1>11. \A k \in (n + 1)..Len(F) : F[k].do = "insert" => F[k].what \notin rows'
  <2> SUFFICES ASSUME NEW k \in (n + 1)..Len(F), F[k].do = "insert"
               PROVE  F[k].what \notin rows'
    OBVIOUS
  <2>1. k \in n..Len(F) /\ k \in 1..Len(F) /\ k # n
    BY <1>4
  <2>2. F[k].what \notin rows
    BY <1>3, <2>1 DEF WorkingFrom
  <2>3. F[k].what # F[n].what
    BY <1>1, <1>4, <2>1, FullFacts
  <2> QED
    BY <1>4, <1>7, <2>2, <2>3
<1>12. Working(p)'
  BY <1>1, <1>3, <1>7, <1>8, <1>9, <1>10, <1>11, WorkingAdvances
<1>13. ~looked[p]
  BY <1>1 DEF Lone
<1> QED
  BY <1>1, <1>7, <1>8, <1>12, <1>13 DEF Lone

\* A lone process that listens has executed all statements of its migrations.
LEMMA ListenLone ==
  ASSUME TypeInv, NEW p \in Processes, Lone(p), Listen(p)
  PROVE  Lone(p)'
<1> DEFINE c == Collection[p]
<1>1. /\ pc[p] = "starting" /\ todo[p] = <<>> /\ pc'[p] = "listening"
      /\ UNCHANGED <<todo, looked, tables, rows, applied>>
  BY DEF Listen, TypeInv, ProcessesOK
<1>2. Working(p)
  BY <1>1, StartupNext DEF Lone
<1>3. Migrated(c)
  BY <1>1, <1>2, WorkingNext DEF Working, Collections
<1>4. Migrated(c)'
  BY <1>1, <1>3, SameDatabase
<1>5. ~looked[p]
  BY <1>1 DEF Lone
<1> QED
  BY <1>1, <1>4, <1>5 DEF Lone

\* A process whose crash interrupts nothing had listened, and starts again on
\* settled tables.
LEMMA CrashLone ==
  ASSUME TypeInv, NEW p \in Processes, Lone(p), Crash(p), p \notin interrupted'
  PROVE  Lone(p)'
<1>1. pc[p] = "listening"
  BY DEF Crash, TypeInv, ProcessesOK
<1>2. /\ pc'[p] = "off" /\ ~looked'[p] /\ UNCHANGED <<tables, rows, applied>>
  BY DEF Crash, End, TypeInv, ProcessesOK
<1>3. Settled(p)
  BY <1>1 DEF Lone, Settled
<1>4. Settled(p)'
  BY <1>2, <1>3, SameDatabase
<1> QED
  BY <1>2, <1>4 DEF Lone

\* The steps of one process leave the others where they are.
LEMMA OnlyOneMoves ==
  ASSUME TypeInv, NEW q \in Processes, Step(q) \/ Crash(q)
  PROVE  /\ \A p \in Processes : p # q =>
              pc'[p] = pc[p] /\ todo'[p] = todo[p] /\ looked'[p] = looked[p]
         /\ interrupted \subseteq interrupted'
<1>1. /\ pc \in [Processes -> {"off", "starting", "listening"}]
      /\ looked \in [Processes -> BOOLEAN] /\ todo = [p \in Processes |-> todo[p]]
  BY DEF TypeInv, ProcessesOK, TodoOK
<1>2. Done(q) => /\ UNCHANGED <<pc, interrupted>>
                 /\ \A p \in Processes : p # q => todo'[p] = todo[p]
  BY <1>1 DEF Done
<1>3. End(q) => \A p \in Processes : p # q =>
                  pc'[p] = pc[p] /\ todo'[p] = todo[p] /\ looked'[p] = looked[p]
  BY <1>1 DEF End
<1>4. CASE Start(q) \/ ReadApplied(q) \/ Listen(q)
  BY <1>1, <1>4 DEF Start, ReadApplied, Listen
<1>5. CASE LookForTable(q) \/ CreateTable(q)
  BY <1>1, <1>2, <1>3, <1>5 DEF LookForTable, CreateTable
<1>6. CASE MarkApplied(q) \/ AddRow(q)
  BY <1>1, <1>2, <1>3, <1>6 DEF MarkApplied, AddRow
<1>7. CASE Crash(q)
  BY <1>3, <1>7 DEF Crash
<1> QED
  BY <1>4, <1>5, <1>6, <1>7 DEF Step

\* LoneInv is kept.
LEMMA LoneStep == TypeInv /\ LoneInv /\ [Next]_vars => LoneInv'
<1> SUFFICES ASSUME TypeInv, LoneInv, [Next]_vars, NEW p \in Processes, Alone(p),
                    p \notin interrupted'
             PROVE  Lone(p)'
  BY DEF LoneInv, Alone
<1>1. CASE UNCHANGED vars
  BY <1>1, SameDatabase DEF LoneInv, vars, Lone
<1>2. ASSUME NEW q \in Processes, Step(q) \/ Crash(q)
      PROVE  Lone(p)'
  <2>1. Lone(p)
    BY <1>2, OnlyOneMoves DEF LoneInv
  <2>2. CASE q = p
    BY <1>2, <2>1, <2>2, StartLone, LookForTableLone, CreateTableLone, ReadAppliedLone,
       MarkAppliedLone, AddRowLone, ListenLone, CrashLone DEF Step
  <2>3. CASE q # p
    <3>1. Collection[p] \in Collections /\ Collection[p] # Collection[q]
      BY <2>3 DEF Alone, Collections
    <3>2. Foreign(Collection[p])
      BY <1>2, <3>1, ForeignStep
    <3> QED
      BY <1>2, <2>1, <2>3, <3>2, OnlyOneMoves, LoneStable
  <2> QED
    BY <2>2, <2>3
<1> QED
  BY <1>1, <1>2 DEF Next

\* Whatever the other services do, and however often a process ends because of
\* them: one that nobody of its own service competes with, and that has not
\* crashed while it started, serves complete tables.
THEOREM UndisturbedServesComplete == Spec => []UndisturbedComplete
<1>1. Init => LoneInv
  <2> SUFFICES ASSUME Init, NEW p \in Processes
               PROVE  Lone(p)
    BY DEF LoneInv
  <2>1. Settled(p)
    BY DEF Init, Settled, Untouched
  <2> QED
    BY <2>1 DEF Init, Lone
<1>2. LoneInv => UndisturbedComplete
  <2> SUFFICES ASSUME LoneInv, NEW p \in Processes, pc[p] = "listening", p \notin interrupted,
                      Alone(p)
               PROVE  Complete(Collection[p])
    BY DEF UndisturbedComplete, Alone
  <2>1. Migrated(Collection[p])
    BY DEF LoneInv, Lone
  <2> QED
    BY <2>1, MigratedComplete DEF Collections
<1> QED
  BY <1>1, <1>2, InitType, TypeStep, LoneStep, PTL DEF Spec

=============================================================================
