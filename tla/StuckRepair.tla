---------------------------- MODULE StuckRepair ----------------------------
(***************************************************************************)
(* scripts/repair_stuck_ingestions.py over the DocumentIndex: a plan is    *)
(* read without a transaction, the database is backed up, and the plan is  *)
(* applied: orphaned vectors and stuck documents are deleted and fresh     *)
(* jobs are submitted.  jobs.submit commits, so the deletions and the      *)
(* first fresh job are one transaction and every further job is its own.   *)
(***************************************************************************)
EXTENDS DocumentIndex

VARIABLES
    repair,     \* where the script is, and its RepairPlan
    owed        \* history: what a deleted document held, until a job takes it up

repairVars == <<indexVars, repair, owed>>

NoPlan == [pc |-> "idle", docs |-> {}, orphans |-> {}, todo |-> {}]

RepairTypeOK ==
    /\ IndexTypeOK
    /\ repair \in [pc : {"idle", "apply", "submit"}, docs : SUBSET Id,
                   orphans : SUBSET Id, todo : SUBSET Text]
    /\ owed \subseteq Text

RepairInit == IndexInit /\ repair = NoPlan /\ owed = {}

-----------------------------------------------------------------------------
\* Zero-chunk documents in 'ingesting', of the content types the script knows.
Partial ==
    {d \in Id : /\ docs[d] # None /\ docs[d].status = "ingesting"
                /\ ChunksOf(d) = {}
                /\ kind[docs[d].text.src] # "dayone"}

Orphans == {c \in Id : vec[c] # None /\ chunk[c] = None}

\* The failed jobs that would ingest the document again: a book by its path, a
\* conversation by content hash or source_url.
Matching(d) ==
    {t \in Text : "failed" \in jobs[t] /\ t.src = docs[d].text.src}

Pending(t) == jobs[t] \cap {"queued", "running"} # {}

\* created_at is at least --min-age-minutes ago: any of the documents may be,
\* since an update keeps created_at and a long book takes long.
BuildPlan ==
    /\ repair = NoPlan
    /\ quiet => \A a \in Actor : at[a] = Idle
    /\ \E old \in SUBSET Partial :
        /\ \A d \in old : Matching(d) # {}
        /\ old # {} \/ Orphans # {}
        /\ \E todo \in SUBSET UNION {Matching(d) : d \in old} :
            /\ \A d \in old : Cardinality(todo \cap Matching(d)) = 1
            /\ repair' = [pc |-> "apply", docs |-> old, orphans |-> Orphans, todo |-> todo]
    /\ UNCHANGED <<latest, jobs, docs, chunk, vec, at, owed>>

\* Mutant: pending jobs are not looked for, failed ones count.
SubmitFreshUnlessFailed(todo) ==
    LET fresh == {t \in todo : jobs[t] = {}} IN
    IF fresh = {}
    THEN repair' = NoPlan /\ UNCHANGED jobs
    ELSE \E t \in fresh :
            /\ jobs' = [jobs EXCEPT ![t] = @ \cup {"queued"}]
            /\ repair' = IF fresh = {t} THEN NoPlan
                         ELSE [NoPlan EXCEPT !.pc = "submit", !.todo = fresh \ {t}]

\* What the loop does up to and including the next commit.
SubmitFresh(todo) ==
    LET fresh == {t \in todo : ~Pending(t)} IN
    IF fresh = {}
    THEN repair' = NoPlan /\ UNCHANGED jobs
    ELSE \E t \in fresh :
            /\ jobs' = [jobs EXCEPT ![t] = @ \cup {"queued"}]
            /\ repair' = IF fresh = {t} THEN NoPlan
                         ELSE [NoPlan EXCEPT !.pc = "submit", !.todo = fresh \ {t}]

\* Mutant: the DELETE names the document by its id alone.
StillPartialUnchecked == {d \in repair.docs : docs[d] # None}

\* The DELETE's own WHERE.
StillPartial ==
    {d \in repair.docs : docs[d] # None /\ docs[d].status = "ingesting" /\ ChunksOf(d) = {}}

ApplyPlan ==
    /\ repair.pc = "apply"
    /\ vec' = [c \in Id |-> IF c \in repair.orphans THEN None ELSE vec[c]]
    /\ docs' = [d \in Id |-> IF d \in StillPartial THEN None ELSE docs[d]]
    /\ owed' = owed \cup {docs[d].text : d \in StillPartial}
    /\ chunk' = [c \in Id |-> IF chunk[c] # None /\ chunk[c].doc \in StillPartial
                              THEN None ELSE chunk[c]]
    /\ SubmitFresh(repair.todo)
    /\ UNCHANGED <<latest, at>>

SubmitRest ==
    /\ repair.pc = "submit"
    /\ SubmitFresh(repair.todo)
    /\ UNCHANGED <<latest, docs, chunk, vec, at, owed>>

RepairDies ==
    /\ repair # NoPlan
    /\ repair' = NoPlan
    /\ UNCHANGED <<latest, jobs, docs, chunk, vec, at, owed>>

-----------------------------------------------------------------------------
Repair == (BuildPlan \/ ApplyPlan \/ SubmitRest) /\ UNCHANGED habits

\* What was deleted is no longer owed once a job for its source runs.
Index ==
    /\ quiet => repair = NoPlan
    /\ IndexNext
    /\ owed' = {t \in owed : \A u \in Text : u.src = t.src => "running" \notin jobs'[u]}
    /\ UNCHANGED repair

RepairNext == Index \/ Repair
RepairSpec == RepairInit /\ [][RepairNext]_repairVars
DyingRepairSpec == RepairInit /\ [][RepairNext \/ (RepairDies /\ UNCHANGED habits)]_repairVars

-----------------------------------------------------------------------------
\* A document the repair deleted while the worker stood still has a job that will
\* bring it back, or the script is still about to submit it.
DeletedHasJob ==
    quiet => \A t \in owed : \E u \in Text :
        u.src = t.src /\ (Pending(u) \/ u \in repair.todo)

\* The repair takes no chunk with it: a document is deleted by it only while it
\* still is what the plan saw, although the plan may be old.
RepairSparesChunks ==
    [][repair.pc = "apply" /\ repair' # repair => chunk' = chunk]_repairVars

\* Nobody but the repair parts a chunk from its vector: neither the worker nor
\* the re-embedding, both at work, while chunk ids are given out again and old
\* vectors are left behind, leave a chunk with no vector or with another text's.
VectorFits(c) == chunk[c] # None => vec[c] = chunk[c].text

ChunkKeepsItsVector ==
    [][\A c \in Id :
        VectorFits(c) /\ ~VectorFits(c)' => repair.pc = "apply" /\ repair' # repair]_repairVars

\* "Repair zero-chunk documents left in ``status='ingesting'``": one that is
\* left so, nobody working on it, has a failed job to be repaired from.
StuckIsRepairable ==
    at["worker"] = Idle => \A d \in Partial :
        Matching(d) # {} \/ \E t \in Text : t.src = docs[d].text.src /\ Pending(t)
=============================================================================
