------------------------------ MODULE JobQueue ------------------------------
(***************************************************************************)
(* The job_queue table of library.db and everything that writes to it: the *)
(* MCP server (submit, cancel), the worker's polling loop (poll_once and   *)
(* its four _mark_* helpers) and the watchdog that launchd starts every    *)
(* five minutes (find_zombies, fail_zombie, purge_old_records).  Each      *)
(* action is one SQLite transaction; the processes share nothing else.     *)
(*                                                                         *)
(* A row's started_at and completed_at are abstracted to `age`, the time   *)
(* since started_at while the row is running and since completed_at once   *)
(* it is complete, failed or cancelled: no query reads either column in    *)
(* another status.  Ages saturate at AgeCap, beyond every threshold.       *)
(* Rows are created in id order (INTEGER PRIMARY KEY takes the largest id  *)
(* plus one), so "ORDER BY created_at" is "smallest id first".             *)
(***************************************************************************)
EXTENDS Naturals, FiniteSets

CONSTANTS
    Worker,             \* worker processes polling the queue
    Key,                \* distinct (kind, payload) texts that get submitted
    Unrunnable,         \* keys whose kind has no handler or whose JSON is bad
    MaxJobs,            \* bound: rows of the table that exist at once
    MaxRetryAttempts,   \* _MAX_RETRY_ATTEMPTS
    PoisonThreshold,    \* _POISON_FAILURE_THRESHOLD, 0 switches the guard off
    PoisonWindow,       \* _POISON_WINDOW_MINUTES
    ZombieAge,          \* KIND_THRESHOLDS, per key
    PurgeAge,           \* retention of terminal rows in purge_old_records
    AgeCap              \* bound: ages saturate here

ASSUME QueueAssumption ==
    /\ Unrunnable \subseteq Key
    /\ MaxJobs \in Nat
    /\ MaxRetryAttempts \in Nat \ {0}
    /\ PoisonThreshold \in Nat
    /\ PoisonWindow \in Nat
    /\ ZombieAge \in [Key -> Nat]
    /\ PurgeAge \in Nat
    /\ AgeCap \in Nat
    /\ AgeCap > PoisonWindow
    /\ AgeCap > PurgeAge
    /\ \A k \in Key : AgeCap > ZombieAge[k]

ASSUME WorkerAssumption == IsFiniteSet(Worker)

VARIABLES
    jobs,       \* the job_queue table: a row, or NoRow, for every id
    ckpts,      \* ids that have rows in job_stage_checkpoints
    worker,     \* where each worker is in poll_once, and its local variables
    watchdog,   \* where the watchdog is, and the zombies it has read
    retried     \* history: retryable failures of the job since its submit

vars == <<jobs, ckpts, worker, watchdog, retried>>

-----------------------------------------------------------------------------
JobId == 1..MaxJobs
Terminal == {"complete", "failed", "cancelled"}
Status == {"queued", "running"} \cup Terminal
Error == {"none", "handler", "retryable", "retry_exhausted", "no_handler",
          "poison", "zombie"}
Age == 0..AgeCap

\* The columns of a row that some statement reads or a client sees.
Row == [key : Key, status : Status, attempts : Nat, error : Error, age : Age]
NoRow == [status |-> "none"]

WorkerState == [pc : {"idle", "claimed", "handling", "purging"},
                job : JobId \cup {0}, attempts : Nat]
Idle == [pc |-> "idle", job |-> 0, attempts |-> 0]

\* `since` is the time since the watchdog read its clock: fail_zombie stamps
\* completed_at with that reading.
WatchdogState ==
    [pc : {"idle", "found", "purge"}, zombies : SUBSET JobId, since : Age]
Resting == [pc |-> "idle", zombies |-> {}, since |-> 0]

TypeOK ==
    /\ jobs \in [JobId -> Row \cup {NoRow}]
    /\ ckpts \subseteq JobId
    /\ worker \in [Worker -> WorkerState]
    /\ watchdog \in WatchdogState
    /\ retried \in [JobId -> Nat]

Exists(i) == jobs[i].status # "none"
Queued(i) == jobs[i].status = "queued"
Running(i) == jobs[i].status = "running"
Ended(i) == jobs[i].status \in Terminal

\* Worker w has claimed row i and has not yet written how it ended.
Holds(w, i) == worker[w].pc \in {"claimed", "handling"} /\ worker[w].job = i
Held(i) == \E w \in Worker : Holds(w, i)

Init ==
    /\ jobs = [i \in JobId |-> NoRow]
    /\ ckpts = {}
    /\ worker = [w \in Worker |-> Idle]
    /\ watchdog = Resting
    /\ retried = [i \in JobId |-> 0]

-----------------------------------------------------------------------------
(* The MCP server and the scripts that enqueue work.                       *)

\* The id SQLite gives the next row: one more than the largest in the table.
IsNextId(i) ==
    /\ \A j \in JobId : j >= i => ~Exists(j)
    /\ i # 1 => Exists(i - 1)

Submit(k) ==
    \E i \in JobId :
        /\ IsNextId(i)
        /\ jobs' = [jobs EXCEPT ![i] = [key |-> k, status |-> "queued",
                      attempts |-> 0, error |-> "none", age |-> 0]]
        /\ retried' = [retried EXCEPT ![i] = 0]
        /\ UNCHANGED <<ckpts, worker, watchdog>>

Cancel(i) ==
    /\ jobs[i].status \in {"queued", "running"}
    /\ jobs' = [jobs EXCEPT ![i].status = "cancelled", ![i].age = 0]
    /\ UNCHANGED <<ckpts, worker, watchdog, retried>>

-----------------------------------------------------------------------------
(* The worker: one iteration of poll_once, cut at its transactions.        *)

\* Mutant: the newest queued row goes first.
ClaimNewest(w) ==
    \E i \in JobId :
        /\ worker[w].pc = "idle"
        /\ Queued(i)
        /\ \A j \in JobId : Queued(j) => i >= j
        /\ jobs' = [jobs EXCEPT ![i].status = "running", ![i].age = 0,
                                ![i].attempts = @ + 1]
        /\ worker' = [worker EXCEPT ![w] = [pc |-> "claimed", job |-> i,
                                            attempts |-> jobs[i].attempts + 1]]
        /\ UNCHANGED <<ckpts, watchdog, retried>>

\* UPDATE ... RETURNING: take the oldest queued row and count the attempt.
Claim(w) ==
    \E i \in JobId :
        /\ worker[w].pc = "idle"
        /\ Queued(i)
        /\ \A j \in JobId : Queued(j) => i <= j
        /\ jobs' = [jobs EXCEPT ![i].status = "running", ![i].age = 0,
                                ![i].attempts = @ + 1]
        /\ worker' = [worker EXCEPT ![w] = [pc |-> "claimed", job |-> i,
                                            attempts |-> jobs[i].attempts + 1]]
        /\ UNCHANGED <<ckpts, watchdog, retried>>

\* Rows that _is_poison_pill counts for key k.
RecentFailures(k) ==
    {j \in JobId : /\ jobs[j].status = "failed"
                   /\ jobs[j].key = k
                   /\ jobs[j].age <= PoisonWindow}

\* Mutant: the threshold is off by one.
IsPoisonPillOffByOne(k) ==
    /\ PoisonThreshold > 0
    /\ Cardinality(RecentFailures(k)) > PoisonThreshold

IsPoisonPill(k) ==
    /\ PoisonThreshold > 0
    /\ Cardinality(RecentFailures(k)) >= PoisonThreshold

\* UPDATE job_queue ... WHERE id = ?, whatever status the row has by now.  The
\* row is there: NoHandlerOutlivesPurge keeps it while a worker is on it.
Write(i, status, attempts, error) ==
    jobs' = [jobs EXCEPT ![i].status = status, ![i].attempts = attempts,
                         ![i].error = error, ![i].age = 0]

MarkFailed(w, error) ==
    /\ Write(worker[w].job, "failed", worker[w].attempts, error)
    /\ worker' = [worker EXCEPT ![w] = Idle]
    /\ UNCHANGED <<ckpts, watchdog, retried>>

\* No handler for the kind, or a payload that does not parse.
RejectUnrunnable(w) ==
    /\ worker[w].pc = "claimed"
    /\ jobs[worker[w].job].key \in Unrunnable
    /\ MarkFailed(w, "no_handler")

SkipPoisonPill(w) ==
    /\ worker[w].pc = "claimed"
    /\ jobs[worker[w].job].key \notin Unrunnable
    /\ IsPoisonPill(jobs[worker[w].job].key)
    /\ MarkFailed(w, "poison")

StartHandler(w) ==
    /\ worker[w].pc = "claimed"
    /\ jobs[worker[w].job].key \notin Unrunnable
    /\ ~IsPoisonPill(jobs[worker[w].job].key)
    /\ worker' = [worker EXCEPT ![w].pc = "handling"]
    /\ UNCHANGED <<jobs, ckpts, watchdog, retried>>

\* The handler upserts a stage row (Checkpointer._upsert).
RecordStage(w) ==
    /\ worker[w].pc = "handling"
    /\ ckpts' = ckpts \cup {worker[w].job}
    /\ UNCHANGED <<jobs, worker, watchdog, retried>>

\* The handler raised a plain exception.
HandlerFails(w) ==
    /\ worker[w].pc = "handling"
    /\ MarkFailed(w, "handler")

\* Mutant: the attempt is not given back.
HandlerCircuitOpenCounts(w) ==
    /\ worker[w].pc = "handling"
    /\ Write(worker[w].job, "queued", worker[w].attempts,
             jobs[worker[w].job].error)
    /\ worker' = [worker EXCEPT ![w] = Idle]
    /\ UNCHANGED <<ckpts, watchdog, retried>>

\* CircuitOpenError: _mark_requeued gives the attempt back.  The handler does
\* not move the error column, so an earlier retry's text stays in it.
HandlerCircuitOpen(w) ==
    /\ worker[w].pc = "handling"
    /\ LET i == worker[w].job IN
         Write(i, "queued",
               IF worker[w].attempts = 0 THEN 0 ELSE worker[w].attempts - 1,
               jobs[i].error)
    /\ worker' = [worker EXCEPT ![w] = Idle]
    /\ UNCHANGED <<ckpts, watchdog, retried>>

\* RetryableHandlerError with attempts left: _mark_retry_queued keeps the count.
HandlerRetryable(w) ==
    /\ worker[w].pc = "handling"
    /\ worker[w].attempts < MaxRetryAttempts
    /\ Write(worker[w].job, "queued", worker[w].attempts, "retryable")
    /\ retried' = [retried EXCEPT ![worker[w].job] = @ + 1]
    /\ worker' = [worker EXCEPT ![w] = Idle]
    /\ UNCHANGED <<ckpts, watchdog>>

HandlerExhausted(w) ==
    /\ worker[w].pc = "handling"
    /\ worker[w].attempts >= MaxRetryAttempts
    /\ MarkFailed(w, "retry_exhausted")

\* _mark_complete commits, and only then opens purge_for_job's transaction.
HandlerReturns(w) ==
    /\ worker[w].pc = "handling"
    /\ Write(worker[w].job, "complete", jobs[worker[w].job].attempts, "none")
    /\ worker' = [worker EXCEPT ![w].pc = "purging"]
    /\ UNCHANGED <<ckpts, watchdog, retried>>

PurgeForJob(w) ==
    /\ worker[w].pc = "purging"
    /\ ckpts' = ckpts \ {worker[w].job}
    /\ worker' = [worker EXCEPT ![w] = Idle]
    /\ UNCHANGED <<jobs, watchdog, retried>>

\* The process dies and launchd starts a fresh one; the row keeps its status.
Crash(w) ==
    /\ worker[w].pc # "idle"
    /\ worker' = [worker EXCEPT ![w] = Idle]
    /\ UNCHANGED <<jobs, ckpts, watchdog, retried>>

-----------------------------------------------------------------------------
(* The watchdog: find_zombies reads, fail_zombie writes later, then purge. *)

Zombies == {i \in JobId : Running(i) /\ jobs[i].age > ZombieAge[jobs[i].key]}

FindZombies ==
    /\ watchdog.pc = "idle"
    /\ watchdog' = [pc |-> IF Zombies = {} THEN "purge" ELSE "found",
                    zombies |-> Zombies, since |-> 0]
    /\ UNCHANGED <<jobs, ckpts, worker, retried>>

\* Mutant: the watchdog puts zombies back in the queue.
FailZombiesRequeues ==
    /\ watchdog.pc = "found"
    /\ jobs' = [i \in JobId |->
                  IF i \in watchdog.zombies /\ Running(i)
                  THEN [jobs[i] EXCEPT !.status = "queued", !.error = "zombie",
                                       !.age = 0]
                  ELSE jobs[i]]
    /\ watchdog' = [pc |-> "purge", zombies |-> {}, since |-> 0]
    /\ UNCHANGED <<ckpts, worker, retried>>

\* One transaction over the ids read before; each UPDATE re-checks the status.
FailZombies ==
    /\ watchdog.pc = "found"
    /\ jobs' = [i \in JobId |->
                  IF i \in watchdog.zombies /\ Running(i)
                  THEN [jobs[i] EXCEPT !.status = "failed", !.error = "zombie",
                                       !.age = watchdog.since]
                  ELSE jobs[i]]
    /\ watchdog' = [pc |-> "purge", zombies |-> {}, since |-> 0]
    /\ UNCHANGED <<ckpts, worker, retried>>

\* Environment assumption: no handler is still running when its row has been
\* terminal for the whole retention time (90 days).
NoHandlerOutlivesPurge(i) ==
    \A w \in Worker : worker[w].pc # "idle" => worker[w].job # i

\* Mutant: old rows are purged whatever their status.
PurgeEverythingOld ==
    /\ watchdog.pc = "purge"
    /\ jobs' = [i \in JobId |->
                  IF Exists(i) /\ jobs[i].age > PurgeAge
                     /\ NoHandlerOutlivesPurge(i)
                  THEN NoRow ELSE jobs[i]]
    /\ watchdog' = Resting
    /\ UNCHANGED <<ckpts, worker, retried>>

\* The connection is a bare sqlite3.connect: foreign_keys is off, nothing
\* cascades to job_stage_checkpoints.
PurgeOldRecords ==
    /\ watchdog.pc = "purge"
    /\ jobs' = [i \in JobId |->
                  IF Ended(i) /\ jobs[i].age > PurgeAge
                     /\ NoHandlerOutlivesPurge(i)
                  THEN NoRow ELSE jobs[i]]
    /\ watchdog' = Resting
    /\ UNCHANGED <<ckpts, worker, retried>>

WatchdogCrash ==
    /\ watchdog.pc # "idle"
    /\ watchdog' = Resting
    /\ UNCHANGED <<jobs, ckpts, worker, retried>>

Older(row) ==
    IF row.status \in {"running"} \cup Terminal /\ row.age < AgeCap
    THEN [row EXCEPT !.age = @ + 1] ELSE row

Tick ==
    /\ jobs' = [i \in JobId |-> Older(jobs[i])]
    /\ watchdog' = IF watchdog.pc = "found" /\ watchdog.since < AgeCap
                   THEN [watchdog EXCEPT !.since = @ + 1] ELSE watchdog
    /\ <<jobs', watchdog'>> # <<jobs, watchdog>>
    /\ UNCHANGED <<ckpts, worker, retried>>

-----------------------------------------------------------------------------
PollOnce(w) ==
    \/ Claim(w) \/ RejectUnrunnable(w) \/ SkipPoisonPill(w) \/ StartHandler(w)
    \/ RecordStage(w) \/ HandlerFails(w) \/ HandlerCircuitOpen(w)
    \/ HandlerRetryable(w) \/ HandlerExhausted(w) \/ HandlerReturns(w)
    \/ PurgeForJob(w)

RunWatchdog == FindZombies \/ FailZombies \/ PurgeOldRecords

Next ==
    \/ \E k \in Key : Submit(k)
    \/ \E i \in JobId : Cancel(i)
    \/ \E w \in Worker : PollOnce(w) \/ Crash(w)
    \/ RunWatchdog \/ WatchdogCrash
    \/ Tick

Spec == Init /\ [][Next]_vars

-----------------------------------------------------------------------------
(* Fairness.  launchd keeps the worker alive (KeepAlive) and starts the    *)
(* watchdog on a timer (StartInterval); time passes.                       *)

\* The handler ends in a way that uses the attempt up.
Verdict(w) ==
    HandlerFails(w) \/ HandlerRetryable(w) \/ HandlerExhausted(w)
        \/ HandlerReturns(w)

\* What run_forever does by itself, without waiting for a handler.
Poll(w) ==
    \/ Claim(w) \/ RejectUnrunnable(w) \/ SkipPoisonPill(w) \/ StartHandler(w)
    \/ PurgeForJob(w)

WorkerFairness == \A w \in Worker : WF_vars(Poll(w))

\* Handlers end (their subprocesses and HTTP calls have timeouts), and the
\* outages that open the circuit and the crashes do not go on for ever.
HandlerFairness == \A w \in Worker : SF_vars(Verdict(w))

WatchdogFairness ==
    WF_vars(FindZombies) /\ SF_vars(FailZombies) /\ WF_vars(PurgeOldRecords)
        /\ WF_vars(Tick)

FairSpec == Spec /\ WorkerFairness /\ HandlerFairness /\ WatchdogFairness

\* Handlers may hang: only the worker's own code and the watchdog are fair.
HangingSpec == Spec /\ WorkerFairness /\ WatchdogFairness

\* Handlers may hang and the worker's process may stay down.
WatchdogSpec == Spec /\ WatchdogFairness

-----------------------------------------------------------------------------
(* Properties.                                                             *)

\* poll_once, cancel and the watchdog between them never let two workers be in
\* the same job, and never offer a job that some worker is still in: the claim
\* is exclusive over the whole run of the handler, not only when it is made,
\* although every write after it ignores the status it overwrites.
NoDoubleExecution ==
    \A w \in Worker : worker[w].pc # "idle" =>
        /\ ~Queued(worker[w].job)
        /\ \A v \in Worker \ {w} :
              worker[v].pc # "idle" => worker[v].job # worker[w].job

\* The attempts column counts retryable failures and nothing else: neither an
\* open circuit, a cancellation, the watchdog nor a write that lost a race
\* consumes one of the _MAX_RETRY_ATTEMPTS, and no retry goes uncounted.
RetriesCounted ==
    \A i \in JobId : Exists(i) =>
        /\ Queued(i) => jobs[i].attempts = retried[i]
        /\ Held(i) => jobs[i].attempts = retried[i] + 1
        /\ jobs[i].attempts <= MaxRetryAttempts

\* The poison-pill guard counts before the handlers run, so it cannot stop the
\* workers already past it; but no more handlers than that get to crash on one
\* (kind, payload) within the window.
CrashedRecently(k) ==
    {i \in RecentFailures(k) : jobs[i].error \in {"handler", "retry_exhausted"}}
HandlingKey(k) ==
    {w \in Worker : worker[w].pc = "handling" /\ jobs[worker[w].job].key = k}

PoisonBrakeBounds ==
    PoisonThreshold > 0 => \A k \in Key :
        Cardinality(CrashedRecently(k)) + Cardinality(HandlingKey(k))
            < PoisonThreshold + Cardinality(Worker)

\* The queue implements JobLifecycle: a job some worker holds is taken,
\* whatever its row says meanwhile (cancelled by a user, failed by the
\* watchdog); a running row nobody holds is lost.
StageOf(i) ==
    CASE Held(i) -> "taken"
      [] ~Held(i) /\ ~Exists(i) -> "absent"
      [] ~Held(i) /\ Queued(i) -> "waiting"
      [] ~Held(i) /\ Running(i) -> "lost"
      [] ~Held(i) /\ Ended(i) -> "over"

Life == INSTANCE JobLifecycle WITH
    Job <- JobId,
    stage <- [i \in JobId |-> StageOf(i)],
    taker <- [i \in JobId |-> {w \in Worker : Holds(w, i)}]

ImplementsLifecycle == Life!LifeSpec

\* Every queued job is claimed in the end (or cancelled): retries and circuit
\* requeues keep their place at the head, but the head cannot stay there. And no
\* job stays "running": neither a dead worker nor a handler that hangs keeps its
\* row from being closed by the watchdog.
QueueDrains ==
    \A i \in JobId : (Queued(i) ~> ~Queued(i)) /\ (Running(i) ~> ~Running(i))

-----------------------------------------------------------------------------
(* What comments and docs of the code say, and the code does not do.       *)

\* "job_queue statuses that mean the row will never be picked up again"
\* (maintenance.py): a cancelled job that is still in its handler is requeued
\* when the handler asks for a retry.
TerminalNeverPickedUpAgain ==
    [][\A i \in JobId : Ended(i) => jobs'[i].status \notin {"queued", "running"}]_vars

\* "For any job in running state whose started_at exceeds a per-kind threshold,
\* marks it failed" (zombie_job_watchdog.py): between the read and the write
\* the row can be requeued and claimed afresh.
WatchdogFailsOnlyStale ==
    [][\A i \in JobId :
         FailZombies /\ jobs'[i] # jobs[i] => jobs[i].age > ZombieAge[jobs[i].key]]_vars

\* "a job that crashed mid-execution can resume from the last completed stage
\* on its next attempt" (migration 0011): there is no next attempt.
CrashedJobResumes ==
    \A i \in JobId : (Running(i) /\ ~Held(i)) ~> (Held(i) \/ jobs[i].status = "cancelled")

\* "ON DELETE CASCADE from job_queue.id so stage rows disappear with their
\* parent job when the queue is pruned" (migration 0011).
CheckpointsHaveJob == \A i \in ckpts : Exists(i)

\* "clears started_at and any prior error so the job looks fresh to the next
\* poll" (_mark_requeued).
RequeuedLooksFresh ==
    [][\A w \in Worker :
         HandlerCircuitOpen(w) => jobs'[worker[w].job].error = "none"]_vars

\* "decrementing attempts so the transient blip doesn't eat into
\* COMMONPLACE_MAX_ATTEMPTS" (RetryableHandlerError).
RetryGivesAttemptBack ==
    [][\A w \in Worker :
         HandlerRetryable(w) => jobs'[worker[w].job].attempts < worker[w].attempts]_vars

\* "Prevents the queue from getting permanently wedged when a worker crash or
\* an external hang leaves rows in running state forever" (the watchdog): it
\* frees the row, not the worker that hangs.
NeverWedged == \A i \in JobId : Queued(i) ~> ~Queued(i)

=============================================================================
