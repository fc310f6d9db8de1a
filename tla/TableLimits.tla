---------------------------- MODULE TableLimits ----------------------------
(***************************************************************************)
(* The pruning rule of pkg/database/catalog.go: what is left of a table    *)
(* after the DELETE of enforceTableSizeLimits, as a function of the        *)
(* identifiers the table holds.                                            *)
(***************************************************************************)
EXTENDS Integers, FiniteSets

\* Mutants of Newest: the limit is off by one; the order is ascending.
NewestPlusOne(ids, maximum) ==
  {i \in ids : Cardinality({j \in ids : j > i}) <= maximum}

Oldest(ids, maximum) ==
  {i \in ids : Cardinality({j \in ids : j < i}) < maximum}

\* SELECT id ... ORDER BY id DESC LIMIT maximum
Newest(ids, maximum) ==
  {i \in ids : Cardinality({j \in ids : j > i}) < maximum}

\* Mutant of Kept: the last fixed row is not protected.
KeptFixedExclusive(ids, fixed, maximum) ==
  {i \in ids : maximum <= 0 \/ i \in Newest(ids, maximum) \/ i < fixed}

\* DELETE ... WHERE id NOT IN (Newest) AND id > fixed; nothing at all when
\* maximum is 0 or negative.
Kept(ids, fixed, maximum) ==
  {i \in ids : maximum <= 0 \/ i \in Newest(ids, maximum) \/ i <= fixed}

=============================================================================
