---------------------------- MODULE MCMigrations ----------------------------
(* Model checking Migrations: every manual migration alters resource 2. *)
EXTENDS Migrations, TLC

CONSTANTS m1, m2

\* One reference against the lexical order; one along it, and one to itself.
SmallSchemas == {<<{2}, {}>>, <<{}, {1, 2}>>}
SchemasOfFour == [1..4 -> SUBSET (1..4)]
AltersTwo == [v \in Versions |-> 2]
RunnerSymmetry == Permutations(Runners)
=============================================================================
