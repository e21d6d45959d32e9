--------------------------- MODULE MCDependencies ---------------------------
(***************************************************************************)
(* What every process leans on: the schema of the database it connects to  *)
(* and the circuit breaker before Ollama.  They share nothing, so a        *)
(* behaviour is one of the migrations or one of the breaker.               *)
(***************************************************************************)
EXTENDS Migrations, CircuitBreaker

-----------------------------------------------------------------------------
(* The shapes of the migrations of commonplace_db/migrations.              *)

Ensure(o) == [op |-> "ensure", obj |-> o, needs |-> {}]
AddTo(t, o) == [op |-> "add", obj |-> o, needs |-> {t}]
DropTable(o) == [op |-> "drop", obj |-> o, needs |-> {}]

MCObject == {"documents", "chunks", "token_count", "rating", "read_date", "chunk_vectors", "vectors"}
MCRowsOf == [o \in MCObject |-> IF o = "chunk_vectors" THEN {"vectors"} ELSE {}]

\* 0001 and 0002: IF NOT EXISTS, and a column between.
Additive == << <<Ensure("documents"), Ensure("chunks")>>,
               <<AddTo("chunks", "token_count"), Ensure("chunk_vectors")>>,
               <<AddTo("documents", "rating"), AddTo("documents", "read_date")>> >>

\* 0001, the tables of 0002, and 0016, which rebuilds one of them.
Rebuild == << <<Ensure("documents"), Ensure("chunks")>>,
              <<Ensure("chunk_vectors")>>,
              <<DropTable("chunk_vectors"),
                [op |-> "add", obj |-> "chunk_vectors", needs |-> {"chunks"}],
                AddTo("chunk_vectors", "vectors")>> >>

-----------------------------------------------------------------------------
\* Nobody migrates.
Migrated ==
    /\ schema = {} /\ recorded = {} /\ deaths = MaxDeaths
    /\ at = [p \in Process |-> [pc |-> "done"]]

\* Nobody embeds.
Silent ==
    /\ circuit = Closed /\ up = TRUE
    /\ call = [c \in Caller |-> [pc |-> "done", probe |-> FALSE]]

DependenciesInit ==
    \/ MigrationInit /\ Silent
    \/ Migrated /\ BreakerInit

Migrating == \A p \in Process : at[p].pc # "done"

DependenciesNext ==
    \/ Migrating /\ MigrationNext /\ UNCHANGED breakerVars
    \/ ~Migrating /\ BreakerNext /\ UNCHANGED migrationVars

DependenciesSpec ==
    /\ DependenciesInit
    /\ [][DependenciesNext]_<<migrationVars, breakerVars>>
    /\ \A p \in Process : WF_migrationVars(Migrate(p))
    /\ BreakerFairness
=============================================================================
