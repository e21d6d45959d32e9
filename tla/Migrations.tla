----------------------------- MODULE Migrations -----------------------------
(***************************************************************************)
(* commonplace_db.migrate, which every process calls on every connection   *)
(* it opens.  executescript runs the statements of a migration one by one, *)
(* each its own transaction; the version row follows in another.  A failed *)
(* or killed process is started again and migrates again.                  *)
(***************************************************************************)
EXTENDS Naturals, Sequences

CONSTANTS
    Process,        \* the server, the worker, the scripts
    Script,         \* statements of each migration, in order of their versions
    Object,         \* tables, columns, and the rows a migration fills a table with
    RowsOf,         \* the rows that go with a table when it is dropped
    MaxDeaths       \* bound: processes killed in the middle

Version == 1..Len(Script)

Statements == [op : {"ensure", "add", "drop"}, obj : Object, needs : SUBSET Object]

ASSUME MigrationAssumption ==
    /\ Script \in Seq(Seq(Statements) \ {<<>>})
    /\ RowsOf \in [Object -> SUBSET Object]
    /\ MaxDeaths \in Nat

VARIABLES
    schema,     \* objects of the database
    recorded,   \* schema_version
    at,         \* how far each process is in migrate()
    deaths      \* counter for MaxDeaths

migrationVars == <<schema, recorded, at, deaths>>

Progress == [pc : {"away", "script", "record", "up"}, applied : SUBSET Version, step : Nat]
Away == [pc |-> "away", applied |-> {}, step |-> 0]

\* The next file that is not in the process's own copy of the applied versions.
NextVersion(applied) == CHOOSE v \in Version \ applied : \A w \in Version \ applied : v <= w

MigrationTypeOK ==
    /\ schema \subseteq Object
    /\ recorded \subseteq Version
    /\ at \in [Process -> Progress]
    /\ \A p \in Process :
        at[p].pc = "script" => at[p].step \in DOMAIN Script[NextVersion(at[p].applied)]
    /\ deaths \in 0..MaxDeaths

MigrationInit ==
    /\ schema = {}
    /\ recorded = {}
    /\ at = [p \in Process |-> Away]
    /\ deaths = 0

-----------------------------------------------------------------------------
Current(p) == NextVersion(at[p].applied)
Statement(p) == Script[Current(p)][at[p].step]

\* Where a process is once it holds these versions as applied.
Proceed(applied) ==
    IF applied = Version THEN [pc |-> "up", applied |-> applied, step |-> 0]
    ELSE [pc |-> "script", applied |-> applied, step |-> 1]

\* Mutant: the version row is written before the script runs.
StartAndRecord(p) ==
    /\ at[p].pc = "away"
    /\ at' = [at EXCEPT ![p] = Proceed(recorded)]
    /\ recorded' = IF recorded = Version THEN recorded ELSE recorded \cup {NextVersion(recorded)}
    /\ UNCHANGED <<schema, deaths>>

\* connect, migrate: the versions are read once.
StartMigrate(p) ==
    /\ at[p].pc = "away"
    /\ at' = [at EXCEPT ![p] = Proceed(recorded)]
    /\ UNCHANGED <<schema, recorded, deaths>>

\* Mutant: DROP TABLE without IF EXISTS.
FailsOnMissing(st) ==
    \/ st.op = "add" /\ st.obj \in schema
    \/ st.op = "drop" /\ st.obj \notin schema
    \/ ~(st.needs \subseteq schema)

\* A statement fails on an object that is there already, or one that is not.
Fails(st) == (st.op = "add" /\ st.obj \in schema) \/ ~(st.needs \subseteq schema)

AfterStatement(st) ==
    IF st.op = "drop" THEN schema \ ({st.obj} \cup RowsOf[st.obj]) ELSE schema \cup {st.obj}

RunStatement(p) ==
    /\ at[p].pc = "script" /\ ~Fails(Statement(p))
    /\ schema' = AfterStatement(Statement(p))
    /\ at' = IF at[p].step = Len(Script[Current(p)])
             THEN [at EXCEPT ![p].pc = "record"]
             ELSE [at EXCEPT ![p].step = @ + 1]
    /\ UNCHANGED <<recorded, deaths>>

\* Mutant: the statement is tried again until it works.
StatementRetried(p) ==
    /\ at[p].pc = "script" /\ Fails(Statement(p))
    /\ UNCHANGED migrationVars

\* The OperationalError ends the process; launchd or the user starts it again.
StatementFails(p) ==
    /\ at[p].pc = "script" /\ Fails(Statement(p))
    /\ at' = [at EXCEPT ![p] = Away]
    /\ UNCHANGED <<schema, recorded, deaths>>

RecordVersion(p) ==
    /\ at[p].pc = "record" /\ Current(p) \notin recorded
    /\ recorded' = recorded \cup {Current(p)}
    /\ at' = [at EXCEPT ![p] = Proceed(@.applied \cup {Current(p)})]
    /\ UNCHANGED <<schema, deaths>>

\* version is the primary key.
RecordFails(p) ==
    /\ at[p].pc = "record" /\ Current(p) \in recorded
    /\ at' = [at EXCEPT ![p] = Away]
    /\ UNCHANGED <<schema, recorded, deaths>>

\* The connection is used and closed; a later call opens another.
Done(p) ==
    /\ at[p].pc = "up"
    /\ at' = [at EXCEPT ![p] = Away]
    /\ UNCHANGED <<schema, recorded, deaths>>

Killed(p) ==
    /\ at[p].pc # "away" /\ deaths < MaxDeaths
    /\ at' = [at EXCEPT ![p] = Away]
    /\ deaths' = deaths + 1
    /\ UNCHANGED <<schema, recorded>>

-----------------------------------------------------------------------------
Migrate(p) ==
    \/ StartMigrate(p) \/ RunStatement(p) \/ StatementFails(p)
    \/ RecordVersion(p) \/ RecordFails(p) \/ Done(p)

MigrationNext == \E p \in Process : Migrate(p) \/ Killed(p)

MigrationSpec == MigrationInit /\ [][MigrationNext]_migrationVars

\* KeepAlive restarts the services, and each of them makes its steps.
MigrationFairSpec == MigrationSpec /\ \A p \in Process : WF_migrationVars(Migrate(p))

-----------------------------------------------------------------------------
Drops(w, r, o) == Script[w][r].op = "drop" /\ o \in {Script[w][r].obj} \cup RowsOf[Script[w][r].obj]

\* What a migration leaves in the database: what no later statement drops.
Leaves(v) ==
    {o \in Object : \E s \in DOMAIN Script[v] :
        /\ Script[v][s].op # "drop" /\ Script[v][s].obj = o
        /\ \A w \in v..Len(Script) : \A r \in DOMAIN Script[w] :
            w > v \/ r > s => ~Drops(w, r, o)}

\* A recorded version is in the database, so that skipping it is right, however
\* many processes migrate at once and wherever they are killed.
RecordedIsApplied == \A v \in recorded : Leaves(v) \subseteq schema

\* "this drops, recreates with cosine, and repopulates" (migration 0016): once
\* nobody migrates, the index that was rebuilt is there.
RebuildSettles == (\A p \in Process : at[p].pc = "away") => RecordedIsApplied

\* Whatever happened to a process, it can be started again and comes up.
ComesUp == \A p \in Process : []<>(at[p].pc = "up")

\* Processes that start together on an old database come up in the end, although
\* they fail each other's statements, if none of them is killed.
ComesUpUndisturbed == [](deaths = 0) => ComesUp
=============================================================================
