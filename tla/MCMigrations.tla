---------------------------- MODULE MCMigrations ----------------------------
(* An instance of Migrations for TLC: two replicas of the catalog, one copy *)
(* service.                                                                *)
EXTENDS Migrations, TLC

CONSTANTS catalog1, catalog2, copy1

SampleCollections == catalog1 :> "catalog" @@ catalog2 :> "catalog" @@ copy1 :> "copy"

SampleTables == [catalog |-> <<"users", "foods">>, copy |-> <<"quotes">>]

Row(table, row) == [table |-> table, row |-> row]

SampleFixtures ==
  [catalog |-> <<Row("users", 1), Row("foods", 1)>>,
   copy |-> <<Row("quotes", 1), Row("quotes", 2)>>]

=============================================================================
