--------------------------- MODULE JobQueueProofs ---------------------------
(***************************************************************************)
(* Theorems about JobQueue for any number of workers, keys and jobs, and   *)
(* for any thresholds: type correctness, exclusive claims, the meaning of  *)
(* the attempts column, the poison-pill guard, and that the queue          *)
(* implements JobLifecycle.  None of them assumes anything of the          *)
(* watchdog, of cancellations or of crashes.                               *)
(***************************************************************************)
EXTENDS JobQueue, FiniteSetTheorems, TLAPS

\* What a worker between its claim and its last write can rely on.  The row is
\* there and is not queued, nobody else has it, and its attempts column is
\* still the one the claim returned: that is what makes the unconditional
\* writes of the _mark_* helpers harmless to the count.
Exclusive ==
    \A w \in Worker : worker[w].pc # "idle" =>
        /\ worker[w].job \in JobId
        /\ Exists(worker[w].job)
        /\ ~Queued(worker[w].job)
        /\ \A v \in Worker \ {w} :
              worker[v].pc # "idle" => worker[v].job # worker[w].job

HolderKnowsAttempts ==
    \A w \in Worker : worker[w].pc \in {"claimed", "handling"} =>
        /\ worker[w].attempts = jobs[worker[w].job].attempts
        /\ worker[w].attempts = retried[worker[w].job] + 1

AttemptsBelowLimit ==
    \A i \in JobId : Exists(i) =>
        /\ jobs[i].attempts <= MaxRetryAttempts
        /\ Queued(i) => /\ jobs[i].attempts = retried[i]
                        /\ jobs[i].attempts < MaxRetryAttempts

IInv == TypeOK /\ Exclusive /\ HolderKnowsAttempts /\ AttemptsBelowLimit

-----------------------------------------------------------------------------
(* Facts about single rows.                                                *)

\* A row that exists has all its columns.
LEMMA RowHasColumns ==
    ASSUME TypeOK, NEW i \in JobId, Exists(i)
    PROVE  jobs[i] \in Row
BY DEF TypeOK, Exists, NoRow

\* An UPDATE by id of a row that exists changes that row only.
LEMMA WriteIsLocal ==
    ASSUME TypeOK, NEW i \in JobId, Exists(i),
           NEW status \in Status, NEW attempts \in Nat, NEW error \in Error,
           Write(i, status, attempts, error)
    PROVE  /\ jobs' \in [JobId -> Row \cup {NoRow}]
           /\ jobs'[i] \in Row
           /\ jobs'[i].status = status
           /\ jobs'[i].attempts = attempts
           /\ \A j \in JobId : j # i => jobs'[j] = jobs[j]
<1>1. jobs[i] \in Row
  BY RowHasColumns
<1>2. jobs'[i] = [jobs[i] EXCEPT !.status = status, !.attempts = attempts,
                                 !.error = error, !.age = 0]
  BY DEF TypeOK, Write
<1>3. jobs'[i] \in Row
  <2>1. 0 \in Age
    BY QueueAssumption DEF Age
  <2> QED BY <1>1, <1>2, <2>1 DEF Row
<1>4. jobs'[i].status = status /\ jobs'[i].attempts = attempts
  BY <1>1, <1>2 DEF Row
<1>5. \A j \in JobId : j # i => jobs'[j] = jobs[j]
  BY DEF TypeOK, Write
<1>6. jobs' \in [JobId -> Row \cup {NoRow}]
  BY <1>3 DEF TypeOK, Write
<1> QED BY <1>3, <1>4, <1>5, <1>6

-----------------------------------------------------------------------------
(* A worker that lets its job go.                                          *)

\* The worker writes a final or queued row and goes idle; the attempts it
\* writes agree with the retries counted so far.
LEMMA LettingGo ==
    ASSUME IInv, NEW w \in Worker, worker[w].pc \in {"claimed", "handling"},
           NEW status \in {"queued", "failed"}, NEW attempts \in Nat,
           NEW error \in Error,
           Write(worker[w].job, status, attempts, error),
           worker' = [worker EXCEPT ![w] = Idle],
           UNCHANGED <<ckpts, watchdog>>,
           retried' \in [JobId -> Nat],
           \A j \in JobId : j # worker[w].job => retried'[j] = retried[j],
           attempts <= MaxRetryAttempts,
           status = "queued" => /\ attempts = retried'[worker[w].job]
                                /\ attempts < MaxRetryAttempts
    PROVE  IInv'
<1> DEFINE i == worker[w].job
<1>1. i \in JobId /\ Exists(i) /\ TypeOK
  BY DEF IInv, Exclusive
<1>2. status \in Status
  BY DEF Status, Terminal
<1>3. /\ jobs' \in [JobId -> Row \cup {NoRow}]
      /\ jobs'[i] \in Row
      /\ jobs'[i].status = status
      /\ jobs'[i].attempts = attempts
      /\ \A j \in JobId : j # i => jobs'[j] = jobs[j]
  <2> HIDE DEF i
  <2>1. Write(i, status, attempts, error)
    BY DEF i
  <2> QED BY <1>1, <1>2, <2>1, WriteIsLocal
<1>4. TypeOK'
  BY <1>1, <1>3 DEF TypeOK, WorkerState, Idle
<1>5. \A v \in Worker : worker'[v].pc # "idle" =>
        /\ v # w
        /\ worker'[v] = worker[v]
        /\ worker[v].pc # "idle"
        /\ worker[v].job # i
  BY <1>1 DEF TypeOK, Idle, IInv, Exclusive
<1>6. Exclusive'
  BY <1>3, <1>5 DEF IInv, Exclusive, Exists, Queued
<1>7. HolderKnowsAttempts'
  BY <1>3, <1>5 DEF IInv, HolderKnowsAttempts, Exclusive
<1>8. AttemptsBelowLimit'
  BY <1>3 DEF IInv, AttemptsBelowLimit, Exists, Queued
<1> QED BY <1>4, <1>6, <1>7, <1>8 DEF IInv

\* Every failure the worker itself records goes through _mark_failed.
LEMMA FailingIsLettingGo ==
    ASSUME IInv, NEW w \in Worker, worker[w].pc \in {"claimed", "handling"},
           NEW error \in Error, MarkFailed(w, error)
    PROVE  IInv'
<1>1. worker[w].attempts \in Nat /\ worker[w].job \in JobId
  BY DEF IInv, TypeOK, WorkerState, Exclusive
<1>2. worker[w].attempts <= MaxRetryAttempts
  BY DEF IInv, Exclusive, HolderKnowsAttempts, AttemptsBelowLimit
<1> QED BY <1>1, <1>2, LettingGo DEF MarkFailed, IInv, TypeOK

-----------------------------------------------------------------------------
(* The initial state and the steps.                                        *)

LEMMA InitEstablishes == Init => IInv
<1> SUFFICES ASSUME Init PROVE IInv
  OBVIOUS
<1>1. 0 \in Age
  BY QueueAssumption DEF Age
<1>2. TypeOK
  <2>1. Idle \in WorkerState /\ Resting \in WatchdogState
    BY <1>1 DEF Idle, WorkerState, Resting, WatchdogState
  <2> QED BY <2>1 DEF Init, TypeOK
<1>3. \A i \in JobId : ~Exists(i)
  BY DEF Init, Exists, NoRow
<1>4. Exclusive /\ HolderKnowsAttempts /\ AttemptsBelowLimit
  BY <1>3 DEF Init, Exclusive, HolderKnowsAttempts, AttemptsBelowLimit, Idle
<1> QED BY <1>2, <1>4 DEF IInv

\* The server's two statements.
LEMMA SubmitPreserves ==
    ASSUME IInv, NEW k \in Key, Submit(k)
    PROVE  IInv'
<1>1. PICK i \in JobId :
        /\ IsNextId(i)
        /\ jobs' = [jobs EXCEPT ![i] = [key |-> k, status |-> "queued",
                      attempts |-> 0, error |-> "none", age |-> 0]]
        /\ retried' = [retried EXCEPT ![i] = 0]
        /\ UNCHANGED <<ckpts, worker, watchdog>>
  BY DEF Submit
<1>2. ~Exists(i)
  BY <1>1 DEF IsNextId, JobId
<1>3. jobs'[i] \in Row /\ jobs'[i].status = "queued" /\ jobs'[i].attempts = 0
  <2>1. 0 \in Age
    BY QueueAssumption DEF Age
  <2> QED BY <1>1, <2>1 DEF Row, Status, Error, IInv, TypeOK
<1>4. \A j \in JobId : j # i => jobs'[j] = jobs[j] /\ retried'[j] = retried[j]
  BY <1>1 DEF IInv, TypeOK
<1>5. TypeOK'
  BY <1>1, <1>3 DEF IInv, TypeOK
<1>6. \A w \in Worker : worker[w].pc # "idle" => worker[w].job # i
  BY <1>2 DEF IInv, Exclusive
<1>7. Exclusive'
  BY <1>1, <1>4, <1>6 DEF IInv, Exclusive, Exists, Queued
<1>8. HolderKnowsAttempts'
  BY <1>1, <1>4, <1>6 DEF IInv, HolderKnowsAttempts, Exclusive
<1>9. AttemptsBelowLimit'
  <2>1. retried'[i] = 0
    BY <1>1 DEF IInv, TypeOK
  <2> QED BY <1>3, <1>4, <2>1, QueueAssumption
        DEF IInv, AttemptsBelowLimit, Exists, Queued
<1> QED BY <1>5, <1>7, <1>8, <1>9 DEF IInv

\* A step that leaves the workers and the counters alone, and turns rows only
\* into rows nobody will queue, keeps the invariant; rows that go away have no
\* worker on them.  Cancel, FailZombies, PurgeOldRecords and Tick are such.
LEMMA ClosingRowsPreserves ==
    ASSUME IInv, UNCHANGED <<ckpts, worker, retried>>,
           watchdog' \in WatchdogState,
           jobs' \in [JobId -> Row \cup {NoRow}],
           \A i \in JobId :
              \/ jobs'[i] = jobs[i]
              \/ jobs'[i] = NoRow /\ NoHandlerOutlivesPurge(i)
              \/ /\ Exists(i)
                 /\ Exists(i)'
                 /\ jobs'[i].attempts = jobs[i].attempts
                 /\ Queued(i)' => Queued(i)
    PROVE  IInv'
<1>1. TypeOK'
  BY DEF IInv, TypeOK
<1>2. \A w \in Worker : worker[w].pc # "idle" =>
        LET i == worker[w].job IN
          /\ Exists(i)'
          /\ jobs'[i].attempts = jobs[i].attempts
          /\ Queued(i)' => Queued(i)
  BY DEF IInv, Exclusive, NoHandlerOutlivesPurge, Exists, Queued
<1>3. Exclusive'
  BY <1>2 DEF IInv, Exclusive
<1>4. HolderKnowsAttempts'
  BY <1>2 DEF IInv, HolderKnowsAttempts
<1>5. AttemptsBelowLimit'
  <2> SUFFICES ASSUME NEW i \in JobId, Exists(i)'
               PROVE  /\ jobs'[i].attempts <= MaxRetryAttempts
                      /\ Queued(i)' => /\ jobs'[i].attempts = retried'[i]
                                       /\ jobs'[i].attempts < MaxRetryAttempts
    BY DEF AttemptsBelowLimit
  <2>1. /\ Exists(i)
        /\ jobs'[i].attempts = jobs[i].attempts
        /\ Queued(i)' => Queued(i)
    BY DEF Exists, Queued, NoRow
  <2> QED BY <2>1 DEF IInv, AttemptsBelowLimit
<1> QED BY <1>1, <1>3, <1>4, <1>5 DEF IInv

LEMMA CancelPreserves ==
    ASSUME IInv, NEW i \in JobId, Cancel(i)
    PROVE  IInv'
<1>1. Exists(i) /\ jobs[i] \in Row
  BY RowHasColumns DEF Cancel, Exists, IInv
<1>2. jobs' = [jobs EXCEPT ![i] = [jobs[i] EXCEPT !.status = "cancelled",
                                                  !.age = 0]]
  BY DEF Cancel, IInv, TypeOK
<1>3. /\ jobs'[i] \in Row
      /\ jobs'[i].status = "cancelled"
      /\ jobs'[i].attempts = jobs[i].attempts
  <2>1. 0 \in Age
    BY QueueAssumption DEF Age
  <2> QED BY <1>1, <1>2, <2>1 DEF Row, Status, Terminal, IInv, TypeOK
<1>4. jobs' \in [JobId -> Row \cup {NoRow}]
  BY <1>2, <1>3 DEF IInv, TypeOK
<1>5. \A j \in JobId :
        \/ jobs'[j] = jobs[j]
        \/ jobs'[j] = NoRow /\ NoHandlerOutlivesPurge(j)
        \/ /\ Exists(j)
           /\ Exists(j)'
           /\ jobs'[j].attempts = jobs[j].attempts
           /\ Queued(j)' => Queued(j)
  BY <1>1, <1>2, <1>3 DEF Exists, Queued, IInv, TypeOK
<1> QED BY <1>4, <1>5, ClosingRowsPreserves DEF Cancel, IInv, TypeOK

LEMMA FailZombiesPreserves ==
    ASSUME IInv, FailZombies
    PROVE  IInv'
<1>1. watchdog.since \in Age /\ 0 \in Age
  BY QueueAssumption DEF IInv, TypeOK, WatchdogState, Age
<1>2. watchdog' \in WatchdogState
  BY <1>1 DEF FailZombies, WatchdogState
<1>3. \A j \in JobId : Running(j) => Exists(j) /\ jobs[j] \in Row
  BY RowHasColumns DEF IInv, Running, Exists
<1>4. \A j \in JobId :
        \/ jobs'[j] = jobs[j]
        \/ /\ Running(j)
           /\ jobs'[j] \in Row
           /\ jobs'[j].status = "failed"
           /\ jobs'[j].attempts = jobs[j].attempts
  <2> SUFFICES ASSUME NEW j \in JobId, jobs'[j] # jobs[j]
               PROVE  /\ Running(j)
                      /\ jobs'[j] \in Row
                      /\ jobs'[j].status = "failed"
                      /\ jobs'[j].attempts = jobs[j].attempts
    OBVIOUS
  <2>1. /\ Running(j)
        /\ jobs'[j] = [jobs[j] EXCEPT !.status = "failed", !.error = "zombie",
                                      !.age = watchdog.since]
    BY DEF FailZombies
  <2> QED BY <1>1, <1>3, <2>1 DEF Row, Status, Terminal, Error
<1>5. jobs' \in [JobId -> Row \cup {NoRow}]
  <2>1. jobs' = [j \in JobId |-> jobs'[j]]
    BY DEF FailZombies
  <2> QED BY <1>4, <2>1 DEF IInv, TypeOK
<1>6. \A j \in JobId :
        \/ jobs'[j] = jobs[j]
        \/ jobs'[j] = NoRow /\ NoHandlerOutlivesPurge(j)
        \/ /\ Exists(j)
           /\ Exists(j)'
           /\ jobs'[j].attempts = jobs[j].attempts
           /\ Queued(j)' => Queued(j)
  BY <1>3, <1>4 DEF Exists, Queued
<1> QED BY <1>2, <1>5, <1>6, ClosingRowsPreserves DEF FailZombies

LEMMA PurgePreserves ==
    ASSUME IInv, PurgeOldRecords
    PROVE  IInv'
<1>1. watchdog' \in WatchdogState
  BY QueueAssumption DEF PurgeOldRecords, Resting, WatchdogState, Age
<1>2. \A j \in JobId :
        jobs'[j] = jobs[j] \/ (jobs'[j] = NoRow /\ NoHandlerOutlivesPurge(j))
  BY DEF PurgeOldRecords
<1>3. jobs' \in [JobId -> Row \cup {NoRow}]
  BY DEF PurgeOldRecords, IInv, TypeOK
<1>4. \A j \in JobId :
        \/ jobs'[j] = jobs[j]
        \/ jobs'[j] = NoRow /\ NoHandlerOutlivesPurge(j)
        \/ /\ Exists(j)
           /\ Exists(j)'
           /\ jobs'[j].attempts = jobs[j].attempts
           /\ Queued(j)' => Queued(j)
  BY <1>2
<1> QED BY <1>1, <1>3, <1>4, ClosingRowsPreserves DEF PurgeOldRecords

LEMMA TickPreserves ==
    ASSUME IInv, Tick
    PROVE  IInv'
<1>1. watchdog' \in WatchdogState
  BY QueueAssumption DEF Tick, IInv, TypeOK, WatchdogState, Age
<1>2. \A j \in JobId : Older(jobs[j]) \in
        IF Exists(j) THEN {r \in Row : /\ r.status = jobs[j].status
                                       /\ r.attempts = jobs[j].attempts}
        ELSE {NoRow}
  <2> SUFFICES ASSUME NEW j \in JobId
               PROVE  Older(jobs[j]) \in
                        IF Exists(j) THEN {r \in Row : /\ r.status = jobs[j].status
                                                       /\ r.attempts = jobs[j].attempts}
                        ELSE {NoRow}
    OBVIOUS
  <2>1. CASE Exists(j)
    <3>1. jobs[j] \in Row
      BY <2>1, RowHasColumns DEF IInv
    <3>2. jobs[j].age < AgeCap => jobs[j].age + 1 \in Age
      BY <3>1, QueueAssumption DEF Row, Age
    <3> QED BY <2>1, <3>1, <3>2, QueueAssumption DEF Older, Row, Age
  <2>2. CASE ~Exists(j)
    <3>1. jobs[j] = NoRow
      BY <2>2 DEF IInv, TypeOK, Exists, Row, Status, Terminal
    <3> QED BY <2>2, <3>1 DEF Older, NoRow, Terminal
  <2> QED BY <2>1, <2>2
<1>3. jobs' \in [JobId -> Row \cup {NoRow}]
  BY <1>2 DEF Tick
<1>4. \A j \in JobId :
        \/ jobs'[j] = jobs[j]
        \/ jobs'[j] = NoRow /\ NoHandlerOutlivesPurge(j)
        \/ /\ Exists(j)
           /\ Exists(j)'
           /\ jobs'[j].attempts = jobs[j].attempts
           /\ Queued(j)' => Queued(j)
  BY <1>2 DEF Tick, Exists, Queued, IInv, Exclusive, NoHandlerOutlivesPurge
<1> QED BY <1>1, <1>3, <1>4, ClosingRowsPreserves DEF Tick

LEMMA ClaimPreserves ==
    ASSUME IInv, NEW w \in Worker, Claim(w)
    PROVE  IInv'
<1>1. PICK i \in JobId :
        /\ worker[w].pc = "idle"
        /\ Queued(i)
        /\ jobs' = [jobs EXCEPT ![i].status = "running", ![i].age = 0,
                                ![i].attempts = @ + 1]
        /\ worker' = [worker EXCEPT ![w] = [pc |-> "claimed", job |-> i,
                                            attempts |-> jobs[i].attempts + 1]]
        /\ UNCHANGED <<ckpts, watchdog, retried>>
  BY DEF Claim
<1>2. Exists(i) /\ jobs[i] \in Row
  BY <1>1, RowHasColumns DEF Exists, Queued, IInv
<1>3. jobs'[i] = [jobs[i] EXCEPT !.status = "running", !.age = 0,
                                 !.attempts = jobs[i].attempts + 1]
  BY <1>1, <1>2 DEF IInv, TypeOK, Row
<1>4. /\ jobs'[i] \in Row
      /\ jobs'[i].status = "running"
      /\ jobs'[i].attempts = jobs[i].attempts + 1
  <2>1. 0 \in Age
    BY QueueAssumption DEF Age
  <2>2. "running" \in Status
    BY DEF Status
  <2>3. jobs[i].attempts + 1 \in Nat
    BY <1>2 DEF Row
  <2> QED BY <1>2, <1>3, <2>1, <2>2, <2>3 DEF Row
<1>5. \A j \in JobId : j # i => jobs'[j] = jobs[j]
  BY <1>1 DEF IInv, TypeOK
<1>6. \A v \in Worker : v # w =>
        worker'[v] = worker[v] /\ (worker[v].pc # "idle" => worker[v].job # i)
  BY <1>1 DEF IInv, TypeOK, Exclusive
<1>7. /\ worker'[w].pc = "claimed"
      /\ worker'[w].job = i
      /\ worker'[w].attempts = jobs[i].attempts + 1
  BY <1>1 DEF IInv, TypeOK
<1>8. TypeOK'
  <2>1. jobs' \in [JobId -> Row \cup {NoRow}]
    BY <1>1, <1>4 DEF IInv, TypeOK
  <2>2. worker' \in [Worker -> WorkerState]
    BY <1>1, <1>2 DEF IInv, TypeOK, WorkerState, Row
  <2> QED BY <1>1, <2>1, <2>2 DEF IInv, TypeOK
<1>9. Exclusive'
  BY <1>4, <1>5, <1>6, <1>7 DEF IInv, Exclusive, Exists, Queued
<1>10. HolderKnowsAttempts'
  <2>1. retried[i] = jobs[i].attempts
    BY <1>1, <1>2 DEF IInv, AttemptsBelowLimit
  <2> SUFFICES ASSUME NEW v \in Worker, worker'[v].pc \in {"claimed", "handling"}
               PROVE  /\ worker'[v].attempts = jobs'[worker'[v].job].attempts
                      /\ worker'[v].attempts = retried'[worker'[v].job] + 1
    BY DEF HolderKnowsAttempts
  <2>2. CASE v = w
    BY <1>1, <1>4, <1>7, <2>1, <2>2
  <2>3. CASE v # w
    <3>1. worker'[v] = worker[v] /\ worker[v].job \in JobId /\ worker[v].job # i
      BY <1>6, <2>3 DEF IInv, Exclusive
    <3> QED BY <1>1, <1>5, <3>1 DEF IInv, HolderKnowsAttempts
  <2> QED BY <2>2, <2>3
<1>11. AttemptsBelowLimit'
  <2>1. jobs[i].attempts \in Nat /\ jobs[i].attempts < MaxRetryAttempts
    BY <1>1, <1>2 DEF IInv, AttemptsBelowLimit, Row
  <2>2. jobs[i].attempts + 1 <= MaxRetryAttempts
    BY <2>1, QueueAssumption
  <2> QED BY <1>1, <1>4, <1>5, <2>2
        DEF IInv, AttemptsBelowLimit, Exists, Queued
<1> QED BY <1>8, <1>9, <1>10, <1>11 DEF IInv

\* A worker that only moves on, or dies: no row changes, and it keeps the job
\* it has or lets it go.
LEMMA MovingOnPreserves ==
    ASSUME IInv, NEW w \in Worker, UNCHANGED <<jobs, watchdog, retried>>,
           ckpts' \subseteq JobId,
           NEW s \in WorkerState, worker' = [worker EXCEPT ![w] = s],
           \/ s.pc = "idle"
           \/ /\ s.pc = "handling"
              /\ worker[w].pc \in {"claimed", "handling"}
              /\ s.job = worker[w].job
              /\ s.attempts = worker[w].attempts
    PROVE  IInv'
<1>1. worker'[w] = s /\ \A v \in Worker : v # w => worker'[v] = worker[v]
  BY DEF IInv, TypeOK
<1>2. TypeOK'
  BY DEF IInv, TypeOK
<1>3. Exclusive'
  BY <1>1 DEF IInv, Exclusive, Exists, Queued
<1>4. HolderKnowsAttempts'
  BY <1>1 DEF IInv, HolderKnowsAttempts
<1>5. AttemptsBelowLimit'
  BY DEF IInv, AttemptsBelowLimit, Exists, Queued
<1> QED BY <1>2, <1>3, <1>4, <1>5 DEF IInv

LEMMA HandlerReturnsPreserves ==
    ASSUME IInv, NEW w \in Worker, HandlerReturns(w)
    PROVE  IInv'
<1> DEFINE i == worker[w].job
<1>1. i \in JobId /\ Exists(i) /\ jobs[i] \in Row
  BY RowHasColumns DEF HandlerReturns, IInv, Exclusive
<1>2. /\ jobs' \in [JobId -> Row \cup {NoRow}]
      /\ jobs'[i] \in Row
      /\ jobs'[i].status = "complete"
      /\ jobs'[i].attempts = jobs[i].attempts
      /\ \A j \in JobId : j # i => jobs'[j] = jobs[j]
  <2>1. Write(i, "complete", jobs[i].attempts, "none")
    BY DEF HandlerReturns
  <2>2. jobs[i].attempts \in Nat /\ "complete" \in Status /\ "none" \in Error
    BY <1>1 DEF Row, Status, Terminal, Error
  <2>3. TypeOK
    BY DEF IInv
  <2> HIDE DEF i
  <2> QED BY <1>1, <2>1, <2>2, <2>3, WriteIsLocal
<1>3. /\ worker'[w].pc = "purging"
      /\ worker'[w].job = i
      /\ \A v \in Worker : v # w => worker'[v] = worker[v]
  BY DEF HandlerReturns, IInv, TypeOK
<1>4. \A v \in Worker : v # w /\ worker[v].pc # "idle" => worker[v].job # i
  BY DEF HandlerReturns, IInv, Exclusive
<1>5. TypeOK'
  <2>1. worker' \in [Worker -> WorkerState]
    BY DEF HandlerReturns, IInv, TypeOK, WorkerState
  <2> QED BY <1>2, <2>1 DEF HandlerReturns, IInv, TypeOK
<1>6. Exclusive'
  BY <1>1, <1>2, <1>3, <1>4 DEF IInv, Exclusive, Exists, Queued
<1>7. HolderKnowsAttempts'
  BY <1>2, <1>3, <1>4 DEF HandlerReturns, IInv, HolderKnowsAttempts, Exclusive
<1>8. AttemptsBelowLimit'
  BY <1>1, <1>2 DEF HandlerReturns, IInv, AttemptsBelowLimit, Exists, Queued
<1> QED BY <1>5, <1>6, <1>7, <1>8 DEF IInv

\* The two ways a worker puts its job back.
LEMMA RequeueingPreserves ==
    ASSUME IInv, NEW w \in Worker, HandlerCircuitOpen(w) \/ HandlerRetryable(w)
    PROVE  IInv'
<1> DEFINE i == worker[w].job
<1>1. /\ worker[w].pc = "handling"
      /\ worker' = [worker EXCEPT ![w] = Idle]
      /\ UNCHANGED <<ckpts, watchdog>>
  BY DEF HandlerCircuitOpen, HandlerRetryable
<1>2. i \in JobId /\ jobs[i] \in Row /\ retried[i] \in Nat
  BY <1>1, RowHasColumns DEF IInv, Exclusive, TypeOK
<1>3. /\ worker[w].attempts = jobs[i].attempts
      /\ worker[w].attempts = retried[i] + 1
      /\ worker[w].attempts \in Nat
      /\ worker[w].attempts <= MaxRetryAttempts
  BY <1>1, <1>2
     DEF IInv, Exclusive, HolderKnowsAttempts, AttemptsBelowLimit, Row
<1>4. CASE HandlerCircuitOpen(w)
  <2>1. Write(i, "queued", retried[i], jobs[i].error)
    BY <1>2, <1>3, <1>4 DEF HandlerCircuitOpen
  <2>2. retried' = retried /\ retried[i] < MaxRetryAttempts
    BY <1>2, <1>3, <1>4, QueueAssumption DEF HandlerCircuitOpen
  <2>3. jobs[i].error \in Error
    BY <1>2 DEF Row
  <2>4. retried' \in [JobId -> Nat] /\ retried[i] <= MaxRetryAttempts
    BY <1>2, <2>2, QueueAssumption DEF IInv, TypeOK
  <2> HIDE DEF i
  <2>5. i = worker[w].job
    BY DEF i
  <2> QED BY <1>1, <1>2, <2>1, <2>2, <2>3, <2>4, <2>5, LettingGo
<1>5. CASE HandlerRetryable(w)
  <2>1. /\ Write(i, "queued", worker[w].attempts, "retryable")
        /\ retried' = [retried EXCEPT ![i] = @ + 1]
        /\ worker[w].attempts < MaxRetryAttempts
    BY <1>5 DEF HandlerRetryable
  <2>2. /\ retried' \in [JobId -> Nat]
        /\ retried'[i] = worker[w].attempts
        /\ \A j \in JobId : j # i => retried'[j] = retried[j]
    BY <1>2, <1>3, <2>1 DEF IInv, TypeOK
  <2>3. "retryable" \in Error
    BY DEF Error
  <2> QED BY <1>1, <1>3, <2>1, <2>2, <2>3, LettingGo
<1> QED BY <1>4, <1>5

-----------------------------------------------------------------------------
(* The theorems.                                                           *)

THEOREM StepPreserves == IInv /\ [Next]_vars => IInv'
<1> SUFFICES ASSUME IInv, [Next]_vars
             PROVE  IInv'
  OBVIOUS
<1>1. ASSUME NEW k \in Key, Submit(k) PROVE IInv'
  BY <1>1, SubmitPreserves
<1>2. ASSUME NEW i \in JobId, Cancel(i) PROVE IInv'
  BY <1>2, CancelPreserves
<1>3. ASSUME NEW w \in Worker, PollOnce(w) PROVE IInv'
  <2>1. CASE Claim(w)
    BY <2>1, ClaimPreserves
  <2>2. CASE RejectUnrunnable(w)
    BY <2>2, FailingIsLettingGo DEF RejectUnrunnable, Error
  <2>3. CASE SkipPoisonPill(w)
    BY <2>3, FailingIsLettingGo DEF SkipPoisonPill, Error
  <2>4. CASE StartHandler(w)
    <3>1. worker[w] \in WorkerState
      BY DEF IInv, TypeOK
    <3>2. [worker[w] EXCEPT !.pc = "handling"] \in WorkerState
      BY <3>1 DEF WorkerState
    <3>3. worker' = [worker EXCEPT ![w] = [worker[w] EXCEPT !.pc = "handling"]]
      BY <2>4 DEF StartHandler
    <3> QED BY <2>4, <3>1, <3>2, <3>3, MovingOnPreserves
          DEF StartHandler, WorkerState, IInv, TypeOK
  <2>5. CASE RecordStage(w)
    <3>1. worker[w] \in WorkerState /\ worker' = [worker EXCEPT ![w] = worker[w]]
      BY <2>5 DEF RecordStage, IInv, TypeOK
    <3>2. ckpts' \subseteq JobId
      BY <2>5 DEF RecordStage, IInv, TypeOK, Exclusive
    <3> QED BY <2>5, <3>1, <3>2, MovingOnPreserves DEF RecordStage
  <2>6. CASE HandlerFails(w)
    BY <2>6, FailingIsLettingGo DEF HandlerFails, Error
  <2>7. CASE HandlerCircuitOpen(w)
    BY <2>7, RequeueingPreserves
  <2>8. CASE HandlerRetryable(w)
    BY <2>8, RequeueingPreserves
  <2>9. CASE HandlerExhausted(w)
    BY <2>9, FailingIsLettingGo DEF HandlerExhausted, Error
  <2>10. CASE HandlerReturns(w)
    BY <2>10, HandlerReturnsPreserves
  <2>11. CASE PurgeForJob(w)
    <3>1. Idle \in WorkerState /\ Idle.pc = "idle"
      BY DEF Idle, WorkerState
    <3> QED BY <2>11, <3>1, MovingOnPreserves DEF PurgeForJob, IInv, TypeOK
  <2> QED BY <1>3, <2>1, <2>2, <2>3, <2>4, <2>5, <2>6, <2>7, <2>8, <2>9,
             <2>10, <2>11 DEF PollOnce
<1>4. ASSUME NEW w \in Worker, Crash(w) PROVE IInv'
  <2>1. Idle \in WorkerState /\ Idle.pc = "idle"
    BY DEF Idle, WorkerState
  <2> QED BY <1>4, <2>1, MovingOnPreserves DEF Crash, IInv, TypeOK
<1>5. CASE FindZombies \/ WatchdogCrash
  <2>1. Zombies \subseteq JobId /\ 0 \in Age
    BY QueueAssumption DEF Zombies, Age
  <2>2. watchdog' \in WatchdogState
    BY <1>5, <2>1 DEF FindZombies, WatchdogCrash, Resting, WatchdogState
  <2>3. UNCHANGED <<jobs, ckpts, worker, retried>>
    BY <1>5 DEF FindZombies, WatchdogCrash
  <2> QED BY <2>2, <2>3, ClosingRowsPreserves DEF IInv, TypeOK
<1>6. CASE FailZombies
  BY <1>6, FailZombiesPreserves
<1>7. CASE PurgeOldRecords
  BY <1>7, PurgePreserves
<1>8. CASE Tick
  BY <1>8, TickPreserves
<1>9. CASE UNCHANGED vars
  BY <1>9 DEF vars, IInv, TypeOK, Exclusive, HolderKnowsAttempts,
     AttemptsBelowLimit, Exists, Queued
<1> QED BY <1>1, <1>2, <1>3, <1>4, <1>5, <1>6, <1>7, <1>8, <1>9
        DEF Next, RunWatchdog

THEOREM Invariance == Spec => []IInv
BY InitEstablishes, StepPreserves, PTL DEF Spec

\* The variables keep their types, whatever the constants.
THEOREM TypeCorrect == Spec => []TypeOK
<1>1. IInv => TypeOK
  BY DEF IInv
<1> QED BY <1>1, Invariance, PTL

\* The claim of poll_once is exclusive until the worker's last write, for any
\* number of workers, with cancellations, watchdog and crashes at any moment.
THEOREM ClaimsAreExclusive == Spec => []NoDoubleExecution
<1>1. IInv => NoDoubleExecution
  BY DEF IInv, Exclusive, NoDoubleExecution
<1> QED BY <1>1, Invariance, PTL

\* The attempts column counts the retryable failures and never passes the limit.
THEOREM AttemptsCountRetries == Spec => []RetriesCounted
<1>1. IInv => RetriesCounted
  BY DEF IInv, Exclusive, HolderKnowsAttempts, AttemptsBelowLimit,
     RetriesCounted, Held, Holds
<1> QED BY <1>1, Invariance, PTL

-----------------------------------------------------------------------------
(* The poison-pill guard.  Failures of a key that the guard could have     *)
(* prevented, plus the handlers that may still fail, only grow when a      *)
(* handler starts, and then the guard has just counted the failures.       *)

Crashed(i) == jobs[i].status = "failed" /\ jobs[i].error \in {"handler", "retry_exhausted"}

\* No row outside X turns into a crash or is younger than it was.
RowsCalm(X) ==
    \A i \in JobId \ X : Crashed(i)' =>
        Crashed(i) /\ jobs'[i].key = jobs[i].key /\ jobs[i].age <= jobs'[i].age

\* A worker outside V that is in a handler was in it already.
WorkersCalm(V) ==
    \A v \in Worker \ V : worker'[v].pc = "handling" =>
        /\ worker[v].pc = "handling"
        /\ jobs'[worker'[v].job].key = jobs[worker[v].job].key

Brake(k) ==
    Cardinality(CrashedRecently(k)) + Cardinality(HandlingKey(k))
        < PoisonThreshold + Cardinality(Worker)

LEMMA FiniteCounts ==
    ASSUME TypeOK, NEW k \in Key
    PROVE  /\ IsFiniteSet(CrashedRecently(k)) /\ Cardinality(CrashedRecently(k)) \in Nat
           /\ IsFiniteSet(HandlingKey(k)) /\ Cardinality(HandlingKey(k)) \in Nat
           /\ Cardinality(HandlingKey(k)) <= Cardinality(Worker)
           /\ Cardinality(Worker) \in Nat
<1>1. IsFiniteSet(JobId)
  BY FS_Interval, QueueAssumption DEF JobId
<1>2. CrashedRecently(k) \in SUBSET JobId /\ HandlingKey(k) \in SUBSET Worker
  BY DEF CrashedRecently, RecentFailures, HandlingKey
<1> HIDE DEF CrashedRecently
<1>3. IsFiniteSet(CrashedRecently(k)) /\ IsFiniteSet(HandlingKey(k))
  BY <1>1, <1>2, FS_Subset, WorkerAssumption
<1> QED BY <1>2, <1>3, FS_Subset, FS_CardinalityType, WorkerAssumption

LEMMA CalmKeepsBrake ==
    ASSUME TypeOK, TypeOK', NEW k \in Key, Brake(k), RowsCalm({}), WorkersCalm({})
    PROVE  Brake(k)'
<1>1. CrashedRecently(k)' \subseteq CrashedRecently(k)
  BY QueueAssumption DEF RowsCalm, Crashed, CrashedRecently, RecentFailures, TypeOK, Row, NoRow, Age
<1>2. HandlingKey(k)' \subseteq HandlingKey(k)
  BY DEF WorkersCalm, HandlingKey
<1>3. /\ Cardinality(CrashedRecently(k)') <= Cardinality(CrashedRecently(k))
      /\ Cardinality(HandlingKey(k)') <= Cardinality(HandlingKey(k))
  BY <1>1, <1>2, FiniteCounts, FS_Subset
<1>4. /\ Cardinality(CrashedRecently(k)') \in Nat /\ Cardinality(HandlingKey(k)') \in Nat
  BY <1>1, <1>2, FiniteCounts, FS_Subset, FS_CardinalityType
<1> QED BY <1>3, <1>4, FiniteCounts, QueueAssumption DEF Brake

\* A crash takes the worker out of the handlers of the key it adds a row to.
LEMMA CrashKeepsBrake ==
    ASSUME TypeOK, TypeOK', NEW k \in Key, Brake(k), NEW w \in Worker, NEW i \in JobId,
           worker[w].pc = "handling", worker[w].job = i, jobs'[i].key = jobs[i].key,
           worker'[w].pc # "handling", RowsCalm({i}), WorkersCalm({w})
    PROVE  Brake(k)'
<1>1. CASE jobs[i].key # k
  <2>1. CrashedRecently(k)' \subseteq CrashedRecently(k)
    BY <1>1, QueueAssumption
       DEF RowsCalm, Crashed, CrashedRecently, RecentFailures, TypeOK, Row, NoRow, Age
  <2>2. HandlingKey(k)' \subseteq HandlingKey(k)
    BY DEF WorkersCalm, HandlingKey
  <2>3. /\ Cardinality(CrashedRecently(k)') <= Cardinality(CrashedRecently(k))
        /\ Cardinality(HandlingKey(k)') <= Cardinality(HandlingKey(k))
        /\ Cardinality(CrashedRecently(k)') \in Nat /\ Cardinality(HandlingKey(k)') \in Nat
    BY <2>1, <2>2, FiniteCounts, FS_Subset, FS_CardinalityType
  <2> QED BY <2>3, FiniteCounts, QueueAssumption DEF Brake
<1>2. CASE jobs[i].key = k
  <2>1. CrashedRecently(k)' \subseteq CrashedRecently(k) \cup {i}
    BY QueueAssumption
       DEF RowsCalm, Crashed, CrashedRecently, RecentFailures, TypeOK, Row, NoRow, Age
  <2>2. HandlingKey(k)' \subseteq HandlingKey(k) \ {w} /\ w \in HandlingKey(k)
    BY <1>2 DEF WorkersCalm, HandlingKey
  <2>3. /\ Cardinality(CrashedRecently(k)') <= Cardinality(CrashedRecently(k)) + 1
        /\ Cardinality(CrashedRecently(k)') \in Nat
    <3>1. /\ IsFiniteSet(CrashedRecently(k) \cup {i})
          /\ Cardinality(CrashedRecently(k) \cup {i}) <= Cardinality(CrashedRecently(k)) + 1
          /\ Cardinality(CrashedRecently(k) \cup {i}) \in Nat
      <4> DEFINE crashed == CrashedRecently(k)
      <4>1. IsFiniteSet(crashed) /\ Cardinality(crashed) \in Nat
        BY FiniteCounts
      <4> HIDE DEF crashed
      <4>2. /\ IsFiniteSet(crashed \cup {i})
            /\ Cardinality(crashed \cup {i}) =
                  IF i \in crashed THEN Cardinality(crashed) ELSE Cardinality(crashed) + 1
        BY <4>1, FS_AddElement
      <4>3. /\ IsFiniteSet(crashed \cup {i})
            /\ Cardinality(crashed \cup {i}) <= Cardinality(crashed) + 1
            /\ Cardinality(crashed \cup {i}) \in Nat
        BY <4>1, <4>2
      <4> QED BY <4>3 DEF crashed
    <3>2. /\ Cardinality(CrashedRecently(k)') <= Cardinality(CrashedRecently(k) \cup {i})
          /\ Cardinality(CrashedRecently(k)') \in Nat
      BY <2>1, <3>1, FS_Subset, FS_CardinalityType
    <3> QED BY <3>1, <3>2, FiniteCounts
  <2>4. /\ Cardinality(HandlingKey(k)') <= Cardinality(HandlingKey(k)) - 1
        /\ Cardinality(HandlingKey(k)') \in Nat
    <3>1. /\ IsFiniteSet(HandlingKey(k) \ {w})
          /\ Cardinality(HandlingKey(k) \ {w}) = Cardinality(HandlingKey(k)) - 1
      BY <2>2, FiniteCounts, FS_RemoveElement
    <3>2. /\ Cardinality(HandlingKey(k)') <= Cardinality(HandlingKey(k) \ {w})
          /\ Cardinality(HandlingKey(k)') \in Nat
      BY <2>2, <3>1, FS_Subset, FS_CardinalityType
    <3> QED BY <3>1, <3>2, FiniteCounts
  <2> QED BY <2>3, <2>4, FiniteCounts, QueueAssumption DEF Brake
<1> QED BY <1>1, <1>2

\* The guard has counted the key's failures, or another key's handler starts.
LEMMA StartKeepsBrake ==
    ASSUME IInv, TypeOK', NEW k \in Key, Brake(k), NEW w \in Worker, PoisonThreshold > 0,
           StartHandler(w)
    PROVE  Brake(k)'
<1>1. CrashedRecently(k)' = CrashedRecently(k)
  BY DEF StartHandler, CrashedRecently, RecentFailures
<1>2. CASE jobs[worker[w].job].key = k
  <2>1. ~(Cardinality(RecentFailures(k)) >= PoisonThreshold)
    BY <1>2 DEF StartHandler, IsPoisonPill
  <2>2. /\ Cardinality(CrashedRecently(k)) <= Cardinality(RecentFailures(k))
        /\ Cardinality(RecentFailures(k)) \in Nat
    <3>1. IsFiniteSet(JobId)
      BY FS_Interval, QueueAssumption DEF JobId
    <3>2. RecentFailures(k) \in SUBSET JobId
      BY DEF RecentFailures
    <3>3. CrashedRecently(k) \in SUBSET RecentFailures(k)
      BY DEF CrashedRecently
    <3> HIDE DEF RecentFailures, CrashedRecently
    <3> QED BY <3>1, <3>2, <3>3, FS_Subset, FS_CardinalityType
  <2>3. /\ Cardinality(HandlingKey(k)') <= Cardinality(Worker)
        /\ Cardinality(HandlingKey(k)') \in Nat
    <3>1. HandlingKey(k)' \in SUBSET Worker
      BY DEF HandlingKey
    <3> QED BY <3>1, FS_Subset, FS_CardinalityType, WorkerAssumption
  <2> QED BY <1>1, <2>1, <2>2, <2>3, FiniteCounts, QueueAssumption DEF Brake, IInv
<1>3. CASE jobs[worker[w].job].key # k
  <2>1. HandlingKey(k)' \subseteq HandlingKey(k)
    BY <1>3 DEF StartHandler, HandlingKey, IInv, TypeOK, WorkerState
  <2>2. /\ Cardinality(HandlingKey(k)') <= Cardinality(HandlingKey(k))
        /\ Cardinality(HandlingKey(k)') \in Nat
    BY <2>1, FiniteCounts, FS_Subset, FS_CardinalityType DEF IInv
  <2> QED BY <1>1, <2>2, FiniteCounts, QueueAssumption DEF Brake, IInv
<1> QED BY <1>2, <1>3

\* The worker writes its row and lets it go.
LEMMA WriteIsCalm ==
    ASSUME IInv, NEW w \in Worker, worker[w].pc # "idle", NEW status \in Status,
           NEW attempts, NEW error, Write(worker[w].job, status, attempts, error),
           NEW place \in {"idle", "purging"}, worker'[w].pc = place,
           \A v \in Worker \ {w} : worker'[v] = worker[v]
    PROVE  /\ worker[w].job \in JobId /\ jobs'[worker[w].job].key = jobs[worker[w].job].key
           /\ RowsCalm({worker[w].job}) /\ WorkersCalm({w})
           /\ status # "failed" \/ error \notin {"handler", "retry_exhausted"} =>
                 RowsCalm({}) /\ WorkersCalm({})
<1> PICK i \in JobId : i = worker[w].job
  BY DEF IInv, Exclusive
<1>1. TypeOK /\ jobs[i] \in Row
  BY RowHasColumns DEF IInv, Exclusive
<1>2. jobs'[i] = [jobs[i] EXCEPT !.status = status, !.attempts = attempts,
                                 !.error = error, !.age = 0]
  BY <1>1 DEF TypeOK, Write
<1>3. jobs'[i].key = jobs[i].key /\ jobs'[i].status = status /\ jobs'[i].error = error
  BY <1>1, <1>2 DEF Row
<1>4. \A j \in JobId \ {i} : jobs'[j] = jobs[j]
  BY <1>1 DEF TypeOK, Write
<1>5. RowsCalm({i})
  <2> SUFFICES ASSUME NEW j \in JobId \ {i}, Crashed(j)'
               PROVE  Crashed(j) /\ jobs'[j].key = jobs[j].key /\ jobs[j].age <= jobs'[j].age
    BY DEF RowsCalm
  <2>1. jobs'[j] = jobs[j] /\ Crashed(j)
    BY <1>4 DEF Crashed
  <2>2. jobs[j].age \in Nat
    BY <1>1, <2>1, QueueAssumption, RowHasColumns DEF Crashed, Exists, Row, Age
  <2> QED BY <2>1, <2>2
<1>6. WorkersCalm({w})
  BY <1>3, <1>4, <1>1 DEF WorkersCalm, IInv, Exclusive
<1>7. ASSUME status # "failed" \/ error \notin {"handler", "retry_exhausted"}
      PROVE  RowsCalm({}) /\ WorkersCalm({})
  BY <1>3, <1>5, <1>6, <1>7 DEF RowsCalm, WorkersCalm, Crashed
<1> QED BY <1>3, <1>5, <1>6, <1>7

\* A worker's write that is no crash.
LEMMA HarmlessWrite ==
    ASSUME IInv, TypeOK', NEW k \in Key, Brake(k), NEW w \in Worker, worker[w].pc # "idle",
           NEW status \in Status, NEW attempts, NEW error,
           Write(worker[w].job, status, attempts, error),
           \/ worker' = [worker EXCEPT ![w] = Idle]
           \/ worker' = [worker EXCEPT ![w].pc = "purging"],
           status # "failed" \/ error \notin {"handler", "retry_exhausted"}
    PROVE  Brake(k)'
<1>1. worker'[w].pc \in {"idle", "purging"} /\ \A v \in Worker \ {w} : worker'[v] = worker[v]
  BY DEF IInv, TypeOK, Idle, WorkerState
<1>2. RowsCalm({}) /\ WorkersCalm({})
  BY <1>1, WriteIsCalm
<1> QED BY <1>2, CalmKeepsBrake DEF IInv

LEMMA StepKeepsBrake ==
    ASSUME IInv, IInv', PoisonThreshold > 0, NEW k \in Key, Brake(k), Next
    PROVE  Brake(k)'
<1> USE DEF IInv
<1>1. RowsCalm({}) /\ WorkersCalm({}) => Brake(k)'
  BY CalmKeepsBrake
<1>2. \A i \in JobId : Crashed(i) => jobs[i].age \in Nat
  BY RowHasColumns, QueueAssumption DEF Crashed, Exists, Row, Age
<1>3. ASSUME NEW q \in Key, Submit(q) PROVE Brake(k)'
  <2>1. PICK i \in JobId :
          /\ IsNextId(i)
          /\ jobs' = [jobs EXCEPT ![i] = [key |-> q, status |-> "queued",
                        attempts |-> 0, error |-> "none", age |-> 0]]
          /\ UNCHANGED worker
    BY <1>3 DEF Submit
  <2>2. ~Exists(i) /\ \A j \in JobId \ {i} : jobs'[j] = jobs[j]
    BY <2>1 DEF IsNextId, TypeOK, JobId
  <2>3. RowsCalm({})
    BY <1>2, <2>1, <2>2 DEF RowsCalm, Crashed, TypeOK
  <2>4. WorkersCalm({})
    BY <2>1, <2>2 DEF WorkersCalm, Exclusive
  <2> QED BY <1>1, <2>3, <2>4
<1>4. ASSUME NEW i \in JobId, Cancel(i) PROVE Brake(k)'
  <2>1. jobs[i] \in Row
    BY <1>4, RowHasColumns DEF Cancel, Exists
  <2>2. jobs'[i] = [jobs[i] EXCEPT !.status = "cancelled", !.age = 0]
    BY <1>4 DEF Cancel, TypeOK
  <2>3. /\ jobs'[i].status = "cancelled" /\ jobs'[i].key = jobs[i].key /\ UNCHANGED worker
        /\ \A j \in JobId \ {i} : jobs'[j] = jobs[j]
    BY <1>4, <2>1, <2>2 DEF Row, Cancel, TypeOK
  <2>4. RowsCalm({}) /\ WorkersCalm({})
    BY <1>2, <2>3 DEF RowsCalm, Crashed, WorkersCalm, Exclusive
  <2> QED BY <1>1, <2>4
<1>5. ASSUME NEW w \in Worker, PollOnce(w) PROVE Brake(k)'
  <2>1. CASE Claim(w)
    <3>1. PICK i \in JobId :
            /\ Queued(i)
            /\ jobs' = [jobs EXCEPT ![i].status = "running", ![i].age = 0, ![i].attempts = @ + 1]
            /\ worker' = [worker EXCEPT ![w] = [pc |-> "claimed", job |-> i,
                                                attempts |-> jobs[i].attempts + 1]]
      BY <2>1 DEF Claim
    <3>2. worker'[w].pc = "claimed" /\ \A v \in Worker \ {w} : worker'[v] = worker[v]
      BY <3>1 DEF TypeOK
    <3>3. jobs[i] \in Row
      BY <3>1, RowHasColumns DEF Queued, Exists
    <3>4. jobs'[i] = [jobs[i] EXCEPT !.status = "running", !.age = 0, !.attempts = @ + 1]
      BY <3>1 DEF TypeOK
    <3>5. /\ jobs'[i].status = "running" /\ jobs'[i].key = jobs[i].key
          /\ \A j \in JobId \ {i} : jobs'[j] = jobs[j]
      BY <3>1, <3>3, <3>4 DEF Row, TypeOK
    <3>6. RowsCalm({}) /\ WorkersCalm({})
      BY <1>2, <3>2, <3>5 DEF RowsCalm, Crashed, WorkersCalm, Exclusive
    <3> QED BY <1>1, <3>6
  <2>2. CASE StartHandler(w)
    BY <2>2, StartKeepsBrake
  <2>3. CASE RecordStage(w) \/ PurgeForJob(w)
    <3>1. UNCHANGED jobs /\ (UNCHANGED worker \/ worker' = [worker EXCEPT ![w] = Idle])
      BY <2>3 DEF RecordStage, PurgeForJob
    <3>2. RowsCalm({})
      BY <1>2, <3>1 DEF RowsCalm, Crashed
    <3>3. WorkersCalm({})
      BY <3>1 DEF WorkersCalm, TypeOK, Idle
    <3> QED BY <1>1, <3>2, <3>3
  <2>4. CASE RejectUnrunnable(w) \/ SkipPoisonPill(w) \/ HandlerCircuitOpen(w)
             \/ HandlerRetryable(w) \/ HandlerReturns(w)
    <3>1. "failed" \in Status /\ "queued" \in Status /\ "complete" \in Status
      BY DEF Status, Terminal
    <3>2. CASE RejectUnrunnable(w)
      <4>1. Write(worker[w].job, "failed", worker[w].attempts, "no_handler")
        BY <3>2 DEF RejectUnrunnable, MarkFailed
      <4>2. worker[w].pc # "idle" /\ worker' = [worker EXCEPT ![w] = Idle]
        BY <3>2 DEF RejectUnrunnable, MarkFailed
      <4>3. "no_handler" \notin {"handler", "retry_exhausted"}
        OBVIOUS
      <4> QED BY <3>1, <4>1, <4>2, <4>3, HarmlessWrite
    <3>3. CASE SkipPoisonPill(w)
      <4>1. Write(worker[w].job, "failed", worker[w].attempts, "poison")
        BY <3>3 DEF SkipPoisonPill, MarkFailed
      <4>2. worker[w].pc # "idle" /\ worker' = [worker EXCEPT ![w] = Idle]
        BY <3>3 DEF SkipPoisonPill, MarkFailed
      <4>3. "poison" \notin {"handler", "retry_exhausted"}
        OBVIOUS
      <4> QED BY <3>1, <4>1, <4>2, <4>3, HarmlessWrite
    <3>4. CASE HandlerCircuitOpen(w)
      <4>1. PICK attempts, error : Write(worker[w].job, "queued", attempts, error)
        BY <3>4 DEF HandlerCircuitOpen
      <4>2. worker[w].pc # "idle" /\ worker' = [worker EXCEPT ![w] = Idle]
        BY <3>4 DEF HandlerCircuitOpen
      <4> QED BY <3>1, <4>1, <4>2, HarmlessWrite
    <3>5. CASE HandlerRetryable(w)
      <4>1. Write(worker[w].job, "queued", worker[w].attempts, "retryable")
        BY <3>5 DEF HandlerRetryable
      <4>2. worker[w].pc # "idle" /\ worker' = [worker EXCEPT ![w] = Idle]
        BY <3>5 DEF HandlerRetryable
      <4> QED BY <3>1, <4>1, <4>2, HarmlessWrite
    <3>6. CASE HandlerReturns(w)
      BY <3>1, <3>6, HarmlessWrite DEF HandlerReturns
    <3> QED BY <2>4, <3>2, <3>3, <3>4, <3>5, <3>6
  <2>5. CASE HandlerFails(w) \/ HandlerExhausted(w)
    <3>1. PICK error :
            /\ Write(worker[w].job, "failed", worker[w].attempts, error)
            /\ worker[w].pc = "handling" /\ worker' = [worker EXCEPT ![w] = Idle]
      BY <2>5 DEF HandlerFails, HandlerExhausted, MarkFailed
    <3>2. worker'[w].pc = "idle" /\ \A v \in Worker \ {w} : worker'[v] = worker[v]
      BY <3>1 DEF TypeOK, Idle
    <3>3. "failed" \in Status
      BY DEF Status, Terminal
    <3>4. /\ worker[w].job \in JobId /\ jobs'[worker[w].job].key = jobs[worker[w].job].key
          /\ RowsCalm({worker[w].job}) /\ WorkersCalm({w})
      BY <3>1, <3>2, <3>3, WriteIsCalm
    <3>5. PICK i \in JobId : i = worker[w].job
      BY <3>4
    <3> QED BY <3>1, <3>2, <3>4, <3>5, CrashKeepsBrake
  <2> QED BY <1>5, <2>1, <2>2, <2>3, <2>4, <2>5 DEF PollOnce
<1>6. ASSUME NEW w \in Worker, Crash(w) PROVE Brake(k)'
  <2>1. RowsCalm({}) /\ WorkersCalm({})
    BY <1>2, <1>6 DEF Crash, RowsCalm, Crashed, WorkersCalm, TypeOK, Idle
  <2> QED BY <1>1, <2>1
<1>7. CASE FindZombies \/ WatchdogCrash
  <2>1. RowsCalm({}) /\ WorkersCalm({})
    BY <1>2, <1>7 DEF FindZombies, WatchdogCrash, RowsCalm, Crashed, WorkersCalm
  <2> QED BY <1>1, <2>1
<1>8. CASE FailZombies
  <2>1. UNCHANGED worker
    BY <1>8 DEF FailZombies
  <2>2. ASSUME NEW i \in JobId
        PROVE  /\ jobs'[i] = jobs[i] \/ jobs'[i].error = "zombie"
               /\ Exists(i) => jobs'[i].key = jobs[i].key
    <3>1. CASE i \in watchdog.zombies /\ Running(i)
      <4>1. jobs[i] \in Row
        BY <3>1, RowHasColumns DEF Running, Exists
      <4>2. jobs'[i] = [jobs[i] EXCEPT !.status = "failed", !.error = "zombie",
                                       !.age = watchdog.since]
        BY <1>8, <3>1 DEF FailZombies
      <4> QED BY <4>1, <4>2 DEF Row
    <3>2. CASE ~(i \in watchdog.zombies /\ Running(i))
      BY <1>8, <3>2 DEF FailZombies
    <3> QED BY <3>1, <3>2
  <2>3. RowsCalm({}) /\ WorkersCalm({})
    BY <1>2, <2>1, <2>2 DEF RowsCalm, Crashed, WorkersCalm, Exclusive
  <2> QED BY <1>1, <2>3
<1>9. CASE PurgeOldRecords
  <2>1. /\ UNCHANGED worker
        /\ \A i \in JobId : \/ jobs'[i] = jobs[i]
                            \/ (jobs'[i] = NoRow /\ NoHandlerOutlivesPurge(i))
    BY <1>9 DEF PurgeOldRecords
  <2>2. RowsCalm({}) /\ WorkersCalm({})
    BY <1>2, <2>1 DEF RowsCalm, Crashed, WorkersCalm, Exclusive, NoRow, NoHandlerOutlivesPurge
  <2> QED BY <1>1, <2>2
<1>10. CASE Tick
  <2>1. UNCHANGED worker /\ \A i \in JobId : jobs'[i] = Older(jobs[i])
    BY <1>10 DEF Tick
  <2>2. ASSUME NEW i \in JobId, Exists(i)
        PROVE  /\ jobs'[i].status = jobs[i].status /\ jobs'[i].error = jobs[i].error
               /\ jobs'[i].key = jobs[i].key /\ jobs[i].age <= jobs'[i].age
    <3>1. jobs[i] \in Row /\ jobs[i].age \in Nat
      BY <2>2, RowHasColumns, QueueAssumption DEF Row, Age
    <3>2. jobs'[i] = [jobs[i] EXCEPT !.age = @ + 1] \/ jobs'[i] = jobs[i]
      BY <2>1 DEF Older
    <3> QED BY <3>1, <3>2 DEF Row
  <2>3. \A i \in JobId : ~Exists(i) => ~Exists(i)'
    BY <2>1 DEF Exists, Older, Terminal
  <2>4. RowsCalm({}) /\ WorkersCalm({})
    BY <2>1, <2>2, <2>3 DEF RowsCalm, Crashed, WorkersCalm, Exclusive, Exists
  <2> QED BY <1>1, <2>4
<1> QED BY <1>3, <1>4, <1>5, <1>6, <1>7, <1>8, <1>9, <1>10 DEF Next, RunWatchdog

\* However many workers there are, only those already past the guard can add to
\* the failures it counts.
THEOREM PoisonIsBraked == Spec => []PoisonBrakeBounds
<1>1. Init => PoisonBrakeBounds
  <2> SUFFICES ASSUME Init, PoisonThreshold > 0, NEW k \in Key
               PROVE  Brake(k)
    BY DEF PoisonBrakeBounds, Brake
  <2>1. CrashedRecently(k) = {} /\ HandlingKey(k) = {}
    BY DEF Init, CrashedRecently, RecentFailures, HandlingKey, NoRow, Idle
  <2>2. Cardinality(Worker) \in Nat
    BY FS_CardinalityType, WorkerAssumption
  <2> QED BY <2>1, <2>2, FS_EmptySet, QueueAssumption DEF Brake
<1>2. IInv /\ PoisonBrakeBounds /\ [Next]_vars => PoisonBrakeBounds'
  <2> SUFFICES ASSUME IInv, PoisonBrakeBounds, [Next]_vars, PoisonThreshold > 0, NEW k \in Key
               PROVE  Brake(k)'
    BY DEF PoisonBrakeBounds, Brake
  <2>1. Brake(k) /\ IInv'
    BY StepPreserves DEF PoisonBrakeBounds, Brake
  <2>2. CASE UNCHANGED vars
    BY <2>1, <2>2 DEF Brake, CrashedRecently, RecentFailures, HandlingKey, vars
  <2> QED BY <2>1, <2>2, StepKeepsBrake
<1> QED BY <1>1, <1>2, Invariance, PTL DEF Spec

-----------------------------------------------------------------------------
(* JobQueue implements JobLifecycle.                                       *)

\* What StageOf says, one case at a time.
StageCases ==
    \A i \in JobId :
        /\ Held(i) => StageOf(i) = "taken"
        /\ ~Held(i) /\ ~Exists(i) => StageOf(i) = "absent"
        /\ ~Held(i) /\ Queued(i) => StageOf(i) = "waiting"
        /\ ~Held(i) /\ Running(i) => StageOf(i) = "lost"
        /\ ~Held(i) /\ Ended(i) => StageOf(i) = "over"
        /\ Exists(i) <=> Queued(i) \/ Running(i) \/ Ended(i)

LEMMA StagesAreTotal == TypeOK => StageCases
<1> SUFFICES ASSUME TypeOK, NEW i \in JobId
             PROVE  /\ Held(i) => StageOf(i) = "taken"
                    /\ ~Held(i) /\ ~Exists(i) => StageOf(i) = "absent"
                    /\ ~Held(i) /\ Queued(i) => StageOf(i) = "waiting"
                    /\ ~Held(i) /\ Running(i) => StageOf(i) = "lost"
                    /\ ~Held(i) /\ Ended(i) => StageOf(i) = "over"
                    /\ Exists(i) <=> Queued(i) \/ Running(i) \/ Ended(i)
  BY DEF StageCases
<1>1. Exists(i) <=> Queued(i) \/ Running(i) \/ Ended(i)
  <2>1. CASE Exists(i)
    BY <2>1, RowHasColumns DEF Row, Status, Queued, Running, Ended, Exists
  <2>2. CASE ~Exists(i)
    BY <2>2 DEF Exists, Queued, Running, Ended, Terminal
  <2> QED BY <2>1, <2>2
<1>2. /\ ~(Queued(i) /\ Running(i))
      /\ ~(Queued(i) /\ Ended(i))
      /\ ~(Running(i) /\ Ended(i))
  BY DEF Queued, Running, Ended, Terminal
<1> QED BY <1>1, <1>2 DEF StageOf

-----------------------------------------------------------------------------
(* The abstract step of each kind of concrete step.                        *)

\* Who holds what does not change, and at most rows nobody holds do.
SameHolders ==
    \A w \in Worker, i \in JobId : Holds(w, i)' <=> Holds(w, i)

\* A worker writes its row and lets go of it, or dies on it.
LEMMA LettingGoRefines ==
    ASSUME IInv, TypeOK', NEW w \in Worker, NEW i \in JobId, Holds(w, i),
           worker'[w].pc \notin {"claimed", "handling"},
           \A v \in Worker : v # w => worker'[v] = worker[v],
           Exists(i)',
           \A j \in JobId : j # i => jobs'[j] = jobs[j]
    PROVE  Life!LetGo(i)
<1>1. StageCases /\ StageCases'
  BY StagesAreTotal, PTL DEF IInv
<1>2. \A v \in Worker : Holds(v, i) => v = w
  BY DEF IInv, Exclusive, Holds
<1>3. \A v \in Worker : ~Holds(v, i)'
  BY <1>2 DEF Holds
<1>4. \A v \in Worker, j \in JobId : j # i => (Holds(v, j)' <=> Holds(v, j))
  BY DEF Holds
<1>5. StageOf(i) = "taken" /\ StageOf(i)' \in {"waiting", "lost", "over"}
  <2>1. Held(i) /\ ~Held(i)'
    BY <1>3 DEF Held
  <2> QED BY <1>1, <2>1 DEF StageCases
<1>6. \A j \in JobId : j # i => StageOf(j)' = StageOf(j)
  <2> SUFFICES ASSUME NEW j \in JobId, j # i
               PROVE  StageOf(j)' = StageOf(j)
    OBVIOUS
  <2>1. Held(j)' <=> Held(j)
    BY <1>4 DEF Held
  <2>2. /\ Exists(j)' <=> Exists(j)
        /\ Queued(j)' <=> Queued(j)
        /\ Running(j)' <=> Running(j)
        /\ Ended(j)' <=> Ended(j)
    BY DEF Exists, Queued, Running, Ended
  <2> QED BY <1>1, <2>1, <2>2 DEF StageCases
<1>7. [j \in JobId |-> StageOf(j)]' =
        [[j \in JobId |-> StageOf(j)] EXCEPT ![i] = StageOf(i)']
  BY <1>6
<1>8. [j \in JobId |-> {v \in Worker : Holds(v, j)}]' =
        [[j \in JobId |-> {v \in Worker : Holds(v, j)}] EXCEPT ![i] = {}]
  BY <1>3, <1>4
<1> QED BY <1>5, <1>7, <1>8 DEF Life!LetGo, Life!Move

\* Rows are closed, or nothing the abstraction sees changes.
LEMMA ClosingRefines ==
    ASSUME TypeOK, TypeOK', SameHolders,
           \A j \in JobId :
              \/ jobs'[j].status = jobs[j].status
              \/ (Queued(j) \/ Running(j)) /\ Ended(j)'
    PROVE  Life!Close
<1> DEFINE J == {j \in JobId : ~Held(j) /\ (Queued(j) \/ Running(j)) /\ Ended(j)'}
<1>1. StageCases /\ StageCases'
  BY StagesAreTotal, PTL
<1>2. \A j \in JobId : Held(j)' <=> Held(j)
  BY DEF SameHolders, Held
<1>3. \A j \in J : StageOf(j) \in {"waiting", "lost"}
  BY <1>1 DEF StageCases
<1>4. \A j \in JobId : StageOf(j)' = IF j \in J THEN "over" ELSE StageOf(j)
  <2> SUFFICES ASSUME NEW j \in JobId
               PROVE  StageOf(j)' = IF j \in J THEN "over" ELSE StageOf(j)
    OBVIOUS
  <2>1. CASE j \in J
    BY <1>1, <1>2, <2>1 DEF StageCases
  <2>2. CASE j \notin J /\ Held(j)
    BY <1>1, <1>2, <2>2 DEF StageCases
  <2>3. CASE j \notin J /\ ~Held(j)
    <3>1. jobs'[j].status = jobs[j].status
      BY <2>3
    <3>2. /\ Exists(j)' <=> Exists(j)
          /\ Queued(j)' <=> Queued(j)
          /\ Running(j)' <=> Running(j)
          /\ Ended(j)' <=> Ended(j)
      BY <3>1 DEF Exists, Queued, Running, Ended
    <3> QED BY <1>1, <1>2, <2>3, <3>2 DEF StageCases
  <2> QED BY <2>1, <2>2, <2>3
<1>5. [j \in JobId |-> StageOf(j)]' =
        [j \in JobId |-> IF j \in J THEN "over"
                        ELSE [k \in JobId |-> StageOf(k)][j]]
  BY <1>4
<1>6. UNCHANGED [j \in JobId |-> {v \in Worker : Holds(v, j)}]
  BY DEF SameHolders
<1>7. \A j \in J : [k \in JobId |-> StageOf(k)][j] \in {"waiting", "lost"}
  BY <1>3
<1>8. J \in SUBSET JobId
  OBVIOUS
<1> HIDE DEF J
<1> QED BY <1>5, <1>6, <1>7, <1>8 DEF Life!Close

\* Closed rows go away.
LEMMA ForgettingRefines ==
    ASSUME TypeOK, TypeOK', SameHolders,
           \A j \in JobId :
              \/ jobs'[j] = jobs[j]
              \/ ~Held(j) /\ Ended(j) /\ ~Exists(j)'
    PROVE  Life!Forget
<1> DEFINE J == {j \in JobId : ~Held(j) /\ Ended(j) /\ ~Exists(j)'}
<1>1. StageCases /\ StageCases'
  BY StagesAreTotal, PTL
<1>2. \A j \in JobId : Held(j)' <=> Held(j)
  BY DEF SameHolders, Held
<1>3. \A j \in JobId : StageOf(j)' = IF j \in J THEN "absent" ELSE StageOf(j)
  <2> SUFFICES ASSUME NEW j \in JobId
               PROVE  StageOf(j)' = IF j \in J THEN "absent" ELSE StageOf(j)
    OBVIOUS
  <2>1. CASE j \in J
    BY <1>1, <1>2, <2>1 DEF StageCases
  <2>2. CASE j \notin J
    <3>1. /\ Exists(j)' <=> Exists(j)
          /\ Queued(j)' <=> Queued(j)
          /\ Running(j)' <=> Running(j)
          /\ Ended(j)' <=> Ended(j)
      BY <2>2 DEF Exists, Queued, Running, Ended
    <3> QED BY <1>1, <1>2, <2>2, <3>1 DEF StageCases
  <2> QED BY <2>1, <2>2
<1>4. [j \in JobId |-> StageOf(j)]' =
        [j \in JobId |-> IF j \in J THEN "absent"
                        ELSE [k \in JobId |-> StageOf(k)][j]]
  BY <1>3
<1>5. UNCHANGED [j \in JobId |-> {v \in Worker : Holds(v, j)}]
  BY DEF SameHolders
<1>6. \A j \in J : [k \in JobId |-> StageOf(k)][j] = "over"
  BY <1>1 DEF StageCases
<1>7. J \in SUBSET JobId
  OBVIOUS
<1> HIDE DEF J
<1> QED BY <1>4, <1>5, <1>6, <1>7 DEF Life!Forget

LEMMA ClaimRefines ==
    ASSUME IInv, TypeOK', NEW w \in Worker, Claim(w)
    PROVE  \E i \in JobId : Life!Take(i, w)
<1>1. PICK i \in JobId :
        /\ worker[w].pc = "idle"
        /\ Queued(i)
        /\ jobs' = [jobs EXCEPT ![i].status = "running", ![i].age = 0,
                                ![i].attempts = @ + 1]
        /\ worker' = [worker EXCEPT ![w] = [pc |-> "claimed", job |-> i,
                                            attempts |-> jobs[i].attempts + 1]]
  BY DEF Claim
<1>2. StageCases /\ StageCases'
  BY StagesAreTotal, PTL DEF IInv
<1>3. \A v \in Worker : ~Holds(v, i)
  BY <1>1 DEF IInv, Exclusive, Holds
<1>4. \A v \in Worker, j \in JobId :
        Holds(v, j)' <=> (v = w /\ j = i) \/ Holds(v, j)
  BY <1>1 DEF Holds, IInv, TypeOK
<1>5. StageOf(i) = "waiting"
  BY <1>1, <1>2, <1>3 DEF StageCases, Held
<1>6. StageOf(i)' = "taken"
  BY <1>2, <1>4 DEF StageCases, Held
<1>7. \A j \in JobId : j # i => StageOf(j)' = StageOf(j)
  <2> SUFFICES ASSUME NEW j \in JobId, j # i
               PROVE  StageOf(j)' = StageOf(j)
    OBVIOUS
  <2>1. Held(j)' <=> Held(j)
    BY <1>4 DEF Held
  <2>2. jobs'[j] = jobs[j]
    BY <1>1 DEF IInv, TypeOK
  <2>3. /\ Exists(j)' <=> Exists(j)
        /\ Queued(j)' <=> Queued(j)
        /\ Running(j)' <=> Running(j)
        /\ Ended(j)' <=> Ended(j)
    BY <2>2 DEF Exists, Queued, Running, Ended
  <2> QED BY <1>2, <2>1, <2>3 DEF StageCases
<1>8. [j \in JobId |-> StageOf(j)]' =
        [[j \in JobId |-> StageOf(j)] EXCEPT ![i] = "taken"]
  BY <1>6, <1>7
<1>9. [j \in JobId |-> {v \in Worker : Holds(v, j)}]' =
        [[j \in JobId |-> {v \in Worker : Holds(v, j)}] EXCEPT ![i] = {w}]
  BY <1>3, <1>4
<1>10. \A j \in JobId : w \notin [k \in JobId |-> {v \in Worker : Holds(v, k)}][j]
  BY <1>1 DEF Holds
<1> QED BY <1>5, <1>8, <1>9, <1>10 DEF Life!Take, Life!Move

LEMMA SubmitRefines ==
    ASSUME IInv, TypeOK', NEW k \in Key, Submit(k)
    PROVE  \E i \in JobId : Life!Post(i)
<1>1. PICK i \in JobId :
        /\ IsNextId(i)
        /\ jobs' = [jobs EXCEPT ![i] = [key |-> k, status |-> "queued",
                      attempts |-> 0, error |-> "none", age |-> 0]]
        /\ UNCHANGED worker
  BY DEF Submit
<1>2. StageCases /\ StageCases'
  BY StagesAreTotal, PTL DEF IInv
<1>3. \A v \in Worker, j \in JobId : Holds(v, j)' <=> Holds(v, j)
  BY <1>1 DEF Holds
<1>4. ~Exists(i) /\ Queued(i)'
  BY <1>1 DEF IsNextId, JobId, Queued, IInv, TypeOK
<1>5. \A j \in JobId : Held(j)' <=> Held(j)
  BY <1>3 DEF Held
<1>6. ~Held(i)
  BY <1>4 DEF IInv, Exclusive, Held, Holds
<1>7. StageOf(i) = "absent" /\ StageOf(i)' = "waiting"
  BY <1>2, <1>4, <1>5, <1>6 DEF StageCases
<1>8. \A j \in JobId : j # i => StageOf(j)' = StageOf(j)
  <2> SUFFICES ASSUME NEW j \in JobId, j # i
               PROVE  StageOf(j)' = StageOf(j)
    OBVIOUS
  <2>1. jobs'[j] = jobs[j]
    BY <1>1 DEF IInv, TypeOK
  <2>2. /\ Exists(j)' <=> Exists(j)
        /\ Queued(j)' <=> Queued(j)
        /\ Running(j)' <=> Running(j)
        /\ Ended(j)' <=> Ended(j)
    BY <2>1 DEF Exists, Queued, Running, Ended
  <2> QED BY <1>2, <1>5, <2>2 DEF StageCases
<1>9. [j \in JobId |-> StageOf(j)]' =
        [[j \in JobId |-> StageOf(j)] EXCEPT ![i] = "waiting"]
  BY <1>7, <1>8
<1>10. UNCHANGED [j \in JobId |-> {v \in Worker : Holds(v, j)}]
  BY <1>3
<1> QED BY <1>7, <1>9, <1>10 DEF Life!Post, Life!Move

-----------------------------------------------------------------------------
(* The theorem.                                                            *)

LEMMA InitRefines == Init => Life!LifeInit
<1> SUFFICES ASSUME Init PROVE Life!LifeInit
  OBVIOUS
<1>1. StageCases
  BY InitEstablishes, StagesAreTotal DEF IInv
<1>2. \A w \in Worker, i \in JobId : ~Holds(w, i)
  BY DEF Init, Holds, Idle
<1>3. \A i \in JobId : StageOf(i) = "absent"
  BY <1>1, <1>2 DEF StageCases, Held, Init, Exists, NoRow
<1> QED BY <1>2, <1>3 DEF Life!LifeInit

\* The row an UPDATE by id leaves behind exists, in whatever status.
LEMMA WriteKeepsRow ==
    ASSUME TypeOK, NEW i \in JobId, NEW status \in Status,
           NEW attempts, NEW error, Exists(i),
           Write(i, status, attempts, error)
    PROVE  Exists(i)' /\ \A j \in JobId : j # i => jobs'[j] = jobs[j]
<1>1. jobs[i] \in Row
  BY RowHasColumns
<1>2. jobs'[i] = [jobs[i] EXCEPT !.status = status, !.attempts = attempts,
                                 !.error = error, !.age = 0]
  BY DEF TypeOK, Write
<1>3. jobs'[i].status = status
  BY <1>1, <1>2 DEF Row
<1> QED BY <1>3 DEF Exists, Status, Terminal, TypeOK, Write

LEMMA StepRefines == IInv /\ [Next]_vars => [Life!LifeNext]_(Life!lifeVars)
<1> SUFFICES ASSUME IInv, [Next]_vars
             PROVE  Life!LifeNext \/ UNCHANGED Life!lifeVars
  OBVIOUS
<1>1. TypeOK /\ IInv' /\ TypeOK'
  BY StepPreserves DEF IInv
<1>2. ASSUME NEW k \in Key, Submit(k) PROVE Life!LifeNext
  BY <1>1, <1>2, SubmitRefines DEF Life!LifeNext
<1>3. ASSUME NEW w \in Worker, Claim(w) PROVE Life!LifeNext
  BY <1>1, <1>3, ClaimRefines DEF Life!LifeNext
<1>4. ASSUME NEW w \in Worker, NEW i \in JobId, Holds(w, i),
             worker'[w].pc \notin {"claimed", "handling"},
             \A v \in Worker : v # w => worker'[v] = worker[v],
             Exists(i)',
             \A j \in JobId : j # i => jobs'[j] = jobs[j]
      PROVE  Life!LifeNext
  BY <1>1, <1>4, LettingGoRefines DEF Life!LifeNext
<1>5. ASSUME NEW w \in Worker,
             NEW i \in JobId, Holds(w, i),
             NEW status \in Status, NEW attempts, NEW error,
             Write(i, status, attempts, error),
             NEW s, worker' = [worker EXCEPT ![w] = s],
             s.pc \in {"idle", "purging"}
      PROVE  Life!LifeNext
  <2>1. Exists(i)
    BY <1>5 DEF Holds, IInv, Exclusive
  <2>2. Exists(i)' /\ \A j \in JobId : j # i => jobs'[j] = jobs[j]
    BY <1>1, <1>5, <2>1, WriteKeepsRow
  <2>3. /\ worker'[w].pc \notin {"claimed", "handling"}
        /\ \A v \in Worker : v # w => worker'[v] = worker[v]
    BY <1>1, <1>5 DEF TypeOK
  <2> QED BY <1>4, <1>5, <2>2, <2>3
<1>6. ASSUME NEW w \in Worker, worker[w].pc \in {"claimed", "handling"},
             \E e \in Error : MarkFailed(w, e)
      PROVE  Life!LifeNext
  <2>1. PICK e \in Error : MarkFailed(w, e)
    BY <1>6
  <2>2. worker[w].job \in JobId /\ Holds(w, worker[w].job)
    BY <1>6 DEF IInv, Exclusive, Holds
  <2>3. "failed" \in Status /\ Idle.pc = "idle"
    BY DEF Status, Terminal, Idle
  <2> QED BY <1>5, <2>1, <2>2, <2>3 DEF MarkFailed
<1>7. ASSUME SameHolders,
             \A j \in JobId :
                \/ jobs'[j].status = jobs[j].status
                \/ (Queued(j) \/ Running(j)) /\ Ended(j)'
      PROVE  Life!LifeNext
  BY <1>1, <1>7, ClosingRefines DEF Life!LifeNext
<1>8. ASSUME NEW i \in JobId, Cancel(i) PROVE Life!LifeNext
  <2>1. SameHolders
    BY <1>8 DEF Cancel, SameHolders, Holds
  <2>2. jobs[i] \in Row
    BY <1>1, <1>8, RowHasColumns DEF Cancel, Exists
  <2>3. jobs'[i] = [jobs[i] EXCEPT !.status = "cancelled", !.age = 0]
    BY <1>1, <1>8 DEF Cancel, TypeOK
  <2>4. Ended(i)' /\ (Queued(i) \/ Running(i))
    BY <1>8, <2>2, <2>3 DEF Cancel, Ended, Terminal, Queued, Running, Row
  <2>5. \A j \in JobId : j # i => jobs'[j] = jobs[j]
    BY <1>1, <1>8 DEF Cancel, TypeOK
  <2> QED BY <1>7, <2>1, <2>4, <2>5
<1>9. ASSUME NEW w \in Worker, PollOnce(w) PROVE Life!LifeNext
  <2>1. CASE Claim(w)
    BY <1>3, <2>1
  <2>2. CASE RejectUnrunnable(w) \/ SkipPoisonPill(w)
             \/ HandlerFails(w) \/ HandlerExhausted(w)
    BY <1>6, <2>2
       DEF RejectUnrunnable, SkipPoisonPill, HandlerFails, HandlerExhausted, Error
  <2>3. CASE StartHandler(w) \/ RecordStage(w) \/ PurgeForJob(w)
    <3>1. SameHolders
      BY <1>1, <2>3 DEF StartHandler, RecordStage, PurgeForJob, Idle,
         SameHolders, Holds, TypeOK, WorkerState
    <3>2. UNCHANGED jobs
      BY <2>3 DEF StartHandler, RecordStage, PurgeForJob
    <3> QED BY <1>7, <3>1, <3>2
  <2>4. CASE HandlerCircuitOpen(w) \/ HandlerRetryable(w) \/ HandlerReturns(w)
    <3>1. worker[w].pc = "handling"
      BY <2>4 DEF HandlerCircuitOpen, HandlerRetryable, HandlerReturns
    <3>2. worker[w].job \in JobId /\ Holds(w, worker[w].job)
      BY <3>1 DEF IInv, Exclusive, Holds
    <3>3. PICK status \in Status, attempts \in Nat \cup {jobs[worker[w].job].attempts},
               error \in Error \cup {jobs[worker[w].job].error} :
            Write(worker[w].job, status, attempts, error)
      <4>1. {"queued", "complete"} \subseteq Status /\ {"none", "retryable"} \subseteq Error
        BY DEF Status, Terminal, Error
      <4>2. worker[w].attempts \in Nat
        BY <1>1 DEF TypeOK, WorkerState
      <4>3. CASE HandlerCircuitOpen(w)
        BY <4>1, <4>2, <4>3 DEF HandlerCircuitOpen
      <4>4. CASE HandlerRetryable(w)
        BY <4>1, <4>2, <4>4 DEF HandlerRetryable
      <4>5. CASE HandlerReturns(w)
        BY <4>1, <4>5 DEF HandlerReturns
      <4> QED BY <2>4, <4>3, <4>4, <4>5
    <3>4. \E s : worker' = [worker EXCEPT ![w] = s] /\ s.pc \in {"idle", "purging"}
      <4>1. worker' = [worker EXCEPT ![w] = Idle]
            \/ worker' = [worker EXCEPT ![w] = [worker[w] EXCEPT !.pc = "purging"]]
        BY <2>4, <1>1 DEF HandlerCircuitOpen, HandlerRetryable, HandlerReturns, TypeOK
      <4>2. [worker[w] EXCEPT !.pc = "purging"].pc = "purging" /\ Idle.pc = "idle"
        BY <1>1 DEF TypeOK, WorkerState, Idle
      <4> QED BY <4>1, <4>2
    <3> QED BY <1>5, <3>2, <3>3, <3>4
  <2> QED BY <1>9, <2>1, <2>2, <2>3, <2>4 DEF PollOnce
<1>10. ASSUME NEW w \in Worker, Crash(w) PROVE Life!LifeNext
  <2>1. /\ UNCHANGED jobs
        /\ worker'[w].pc = "idle"
        /\ \A v \in Worker : v # w => worker'[v] = worker[v]
    BY <1>1, <1>10 DEF Crash, TypeOK, Idle
  <2>2. CASE worker[w].pc \in {"claimed", "handling"}
    <3>1. PICK i \in JobId : Holds(w, i) /\ Exists(i)
      BY <2>2 DEF IInv, Exclusive, Holds
    <3>2. Exists(i)'
      BY <2>1, <3>1 DEF Exists
    <3> QED BY <1>4, <2>1, <3>1, <3>2
  <2>3. CASE worker[w].pc \notin {"claimed", "handling"}
    <3>1. SameHolders
      BY <2>1, <2>3 DEF SameHolders, Holds
    <3> QED BY <1>7, <2>1, <3>1
  <2> QED BY <2>2, <2>3
<1>11. CASE FindZombies \/ WatchdogCrash
  BY <1>7, <1>11 DEF FindZombies, WatchdogCrash, SameHolders, Holds
<1>12. CASE FailZombies
  <2>1. SameHolders
    BY <1>12 DEF FailZombies, SameHolders, Holds
  <2>2. \A j \in JobId : \/ jobs'[j] = jobs[j]
                         \/ Running(j) /\ Ended(j)'
    <3> SUFFICES ASSUME NEW j \in JobId, jobs'[j] # jobs[j]
                 PROVE  Running(j) /\ Ended(j)'
      OBVIOUS
    <3>1. /\ Running(j)
          /\ jobs'[j] = [jobs[j] EXCEPT !.status = "failed", !.error = "zombie",
                                        !.age = watchdog.since]
      BY <1>12 DEF FailZombies
    <3>2. jobs[j] \in Row
      BY <1>1, <3>1, RowHasColumns DEF Running, Exists
    <3> QED BY <3>1, <3>2 DEF Ended, Terminal, Row
  <2> QED BY <1>7, <2>1, <2>2
<1>13. CASE PurgeOldRecords
  <2>1. SameHolders
    BY <1>13 DEF PurgeOldRecords, SameHolders, Holds
  <2>2. \A j \in JobId : \/ jobs'[j] = jobs[j]
                         \/ ~Held(j) /\ Ended(j) /\ ~Exists(j)'
    BY <1>13 DEF PurgeOldRecords, NoHandlerOutlivesPurge, Held, Holds, Exists, NoRow
  <2> QED BY <1>1, <2>1, <2>2, ForgettingRefines DEF Life!LifeNext
<1>14. CASE Tick
  <2>1. SameHolders
    BY <1>14 DEF Tick, SameHolders, Holds
  <2>2. \A j \in JobId : jobs'[j].status = jobs[j].status
    <3> SUFFICES ASSUME NEW j \in JobId
                 PROVE  Older(jobs[j]).status = jobs[j].status
      BY <1>14 DEF Tick
    <3>1. CASE Exists(j)
      BY <1>1, <3>1, RowHasColumns DEF Older, Row
    <3>2. CASE ~Exists(j)
      BY <3>2 DEF Exists, Older, Terminal
    <3> QED BY <3>1, <3>2
  <2> QED BY <1>7, <2>1, <2>2
<1>15. CASE UNCHANGED vars
  BY <1>7, <1>15 DEF vars, SameHolders, Holds
<1> QED BY <1>2, <1>8, <1>9, <1>10, <1>11, <1>12, <1>13, <1>14, <1>15
        DEF Next, RunWatchdog

\* The queue implements the life cycle: one taker at a time, a job that is over
\* stays over, a job whose worker died is never picked up again, and only a job
\* that is over disappears.
THEOREM QueueImplementsLifecycle == Spec => ImplementsLifecycle
BY InitRefines, Invariance, StepRefines, PTL
   DEF Spec, ImplementsLifecycle, Life!LifeSpec
=============================================================================
