------------------------- MODULE SharedStateProofs -------------------------
(* Proofs about what several actors change without a lock of their own: the *)
(* circuit breaker of the embedding client, for any number of threads, the  *)
(* version table of the database, for any number of processes that migrate  *)
(* it at once, the capture inbox between server and worker, for any number  *)
(* of requests, seconds and attempts, and the telemetry row of a surface    *)
(* request, for any number of requests: one row, one verdict, a cause for   *)
(* every row that never got one, and one late start at most.                *)
EXTENDS CircuitBreaker, Migrations, CaptureInbox, SurfaceInvocation,
        WellFoundedInduction, SequenceTheorems, TLAPS

-----------------------------------------------------------------------------
(* The breaker: its state and its count agree.                              *)

BreakerInv == BreakerTypeOK /\ ClosedBelowThreshold

LEMMA BreakerInitially == BreakerInit => BreakerInv
<1> SUFFICES ASSUME BreakerInit PROVE BreakerInv
  OBVIOUS
<1>1. Closed \in Circuit /\ Out \in Call
  BY BreakerAssumption DEF Closed, Circuit, Out, Call
<1>2. BreakerTypeOK
  BY <1>1 DEF BreakerInit, BreakerTypeOK
<1>3. ClosedBelowThreshold
  BY BreakerAssumption DEF BreakerInit, ClosedBelowThreshold, Closed
<1> QED BY <1>2, <1>3 DEF BreakerInv

\* What each of the three locked sections makes of the record.
LEMMA SectionsKeepCircuit ==
    ASSUME BreakerInv,
           \/ AfterSuccess
           \/ AfterFailure
           \/ circuit' = [circuit EXCEPT !.state = IF @ = "open" THEN "half_open" ELSE @]
    PROVE  /\ circuit' \in Circuit
           /\ circuit'.state = "closed" <=> circuit'.failures < FailureThreshold
<1>1. /\ circuit \in Circuit
      /\ circuit.state = "closed" <=> circuit.failures < FailureThreshold
  BY DEF BreakerInv, BreakerTypeOK, ClosedBelowThreshold
<1>2. CASE AfterSuccess
  BY <1>2, BreakerAssumption DEF AfterSuccess, Closed, Circuit
<1>3. CASE AfterFailure
  <2> DEFINE n == IF circuit.failures < FailureThreshold
                  THEN circuit.failures + 1 ELSE FailureThreshold
  <2>1. n \in 0..FailureThreshold
    BY <1>1, BreakerAssumption DEF Circuit
  <2>2. circuit' = IF n >= FailureThreshold
                   THEN [state |-> "open", failures |-> n, since |-> 0]
                   ELSE [circuit EXCEPT !.failures = n]
    BY <1>3 DEF AfterFailure
  <2>3. n < FailureThreshold => circuit.state = "closed"
    BY <1>1, BreakerAssumption DEF Circuit
  <2> HIDE DEF n
  <2>4. CASE n >= FailureThreshold
    BY <2>1, <2>2, <2>4, BreakerAssumption DEF Circuit
  <2>5. CASE ~(n >= FailureThreshold)
    BY <1>1, <2>1, <2>2, <2>3, <2>5, BreakerAssumption DEF Circuit
  <2> QED BY <2>4, <2>5
<1>4. CASE circuit' = [circuit EXCEPT !.state = IF @ = "open" THEN "half_open" ELSE @]
  BY <1>1, <1>4 DEF Circuit
<1> QED BY <1>2, <1>3, <1>4

LEMMA BreakerStep == BreakerInv /\ [BreakerNext]_breakerVars => BreakerInv'
<1> SUFFICES ASSUME BreakerInv, [BreakerNext]_breakerVars
             PROVE  BreakerInv'
  OBVIOUS
<1>1. /\ circuit' \in Circuit
      /\ circuit'.state = "closed" <=> circuit'.failures < FailureThreshold
  <2>1. CASE \E c \in Caller : BeforeCall(c) \/ PostSucceeds(c) \/ PostFails(c)
    BY <2>1, SectionsKeepCircuit DEF BeforeCall, PostSucceeds, PostFails
  <2>2. CASE UNCHANGED circuit
    BY <2>2 DEF BreakerInv, BreakerTypeOK, ClosedBelowThreshold
  <2>3. CASE Elapse
    <3>1. circuit.since \in 0..CoolDown /\ circuit.since < CoolDown
      BY <2>3 DEF Elapse, CoolingDown, BreakerInv, BreakerTypeOK, Circuit
    <3>2. circuit.since + 1 \in 0..CoolDown
      BY <3>1, BreakerAssumption
    <3> QED BY <2>3, <3>2
          DEF Elapse, BreakerInv, BreakerTypeOK, ClosedBelowThreshold, Circuit
  <2> QED BY <2>1, <2>2, <2>3
        DEF BreakerNext, breakerVars, PostRetries, PostGarbled, OllamaChanges
<1>2. call' \in [Caller -> Call] /\ up' \in BOOLEAN
  <2>1. call \in [Caller -> Call] /\ up \in BOOLEAN /\ Out \in Call
    BY BreakerAssumption DEF BreakerInv, BreakerTypeOK, Out, Call
  <2>2. ASSUME NEW c \in Caller, BeforeCall(c)
        PROVE  call' \in [Caller -> Call] /\ up' \in BOOLEAN
    <3>1. [pc |-> "posting", tries |-> 0, probe |-> circuit.state # "closed"] \in Call
      BY BreakerAssumption DEF Call
    <3> QED BY <2>1, <2>2, <3>1 DEF BeforeCall
  <2>3. ASSUME NEW c \in Caller, PostSucceeds(c) \/ PostFails(c) \/ PostGarbled(c)
        PROVE  call' \in [Caller -> Call] /\ up' \in BOOLEAN
    BY <2>1, <2>3 DEF PostSucceeds, PostFails, PostGarbled
  <2>4. ASSUME NEW c \in Caller, PostRetries(c)
        PROVE  call' \in [Caller -> Call] /\ up' \in BOOLEAN
    <3>1. call[c].tries + 1 \in 0..MaxRetries
      BY <2>1, <2>4, BreakerAssumption DEF PostRetries, Call
    <3>2. [call[c] EXCEPT !.tries = call[c].tries + 1] \in Call
      BY <2>1, <3>1 DEF Call
    <3> QED BY <2>1, <2>4, <3>2 DEF PostRetries
  <2>5. CASE Elapse \/ OllamaChanges \/ UNCHANGED breakerVars
    BY <2>1, <2>5 DEF Elapse, OllamaChanges, breakerVars
  <2> QED BY <2>2, <2>3, <2>4, <2>5 DEF BreakerNext
<1> QED BY <1>1, <1>2 DEF BreakerInv, BreakerTypeOK, ClosedBelowThreshold

\* Closed exactly below the threshold, for any number of threads, any threshold
\* and any order of late answers.
THEOREM StateAgreesWithCount == BreakerSpec => [](BreakerTypeOK /\ ClosedBelowThreshold)
<1>1. BreakerInv => BreakerTypeOK /\ ClosedBelowThreshold
  BY DEF BreakerInv
<1> QED BY <1>1, BreakerInitially, BreakerStep, PTL DEF BreakerSpec

-----------------------------------------------------------------------------
(* Migrations.                                                             *)

\* No statement of the scripts takes anything away: the migrations up to 0015.
NothingIsDropped == \A v \in Version : \A s \in DOMAIN Script[v] : Script[v][s].op # "drop"

\* The first statements of a version, up to the one before step, were run.
RunBefore(v, step) == \A s \in DOMAIN Script[v] : s < step => Script[v][s].obj \in schema
WasRun(v) == \A s \in DOMAIN Script[v] : Script[v][s].obj \in schema

Migrating(p) == at[p].pc \in {"script", "record"}

\* A process believes what was recorded, and has run what it says it has.
InStep(p) ==
    /\ at[p].applied \subseteq recorded
    /\ Migrating(p) => at[p].applied # Version
    /\ at[p].pc = "script" => at[p].step \in DOMAIN Script[Current(p)]

HasRun(p) ==
    /\ at[p].pc = "script" => RunBefore(Current(p), at[p].step)
    /\ at[p].pc = "record" => WasRun(Current(p))

\* Versions are recorded in their order.
RecordedInOrder == \A v \in recorded : \A w \in Version : w < v => w \in recorded

MigrationInv == MigrationTypeOK /\ (\A p \in Process : InStep(p)) /\ RecordedInOrder

AppliedInv == (\A p \in Process : HasRun(p)) /\ \A v \in recorded : WasRun(v)

-----------------------------------------------------------------------------
LEMMA Scripts ==
    /\ Version = DOMAIN Script /\ Version \subseteq Nat
    /\ \A v \in Version :
        /\ Script[v] \in Seq(Statements) /\ DOMAIN Script[v] = 1..Len(Script[v])
        /\ Len(Script[v]) \in Nat /\ Len(Script[v]) > 0
        /\ \A s \in DOMAIN Script[v] : Script[v][s] \in Statements
<1>1. Script \in Seq(Seq(Statements) \ {<<>>})
  BY MigrationAssumption
<1>2. Version = DOMAIN Script /\ Version \subseteq Nat
      /\ \A v \in Version : Script[v] \in Seq(Statements) \ {<<>>}
  BY <1>1, LenProperties, ElementOfSeq DEF Version
<1>3. ASSUME NEW v \in Version
      PROVE  /\ DOMAIN Script[v] = 1..Len(Script[v]) /\ Len(Script[v]) \in Nat
             /\ Len(Script[v]) > 0
             /\ \A s \in DOMAIN Script[v] : Script[v][s] \in Statements
  <2>1. Script[v] \in Seq(Statements) /\ Script[v] # <<>>
    BY <1>2
  <2>2. DOMAIN Script[v] = 1..Len(Script[v]) /\ Len(Script[v]) \in Nat
    BY <2>1, LenProperties
  <2>3. Len(Script[v]) # 0
    BY <2>1, EmptySeq
  <2>4. \A s \in 1..Len(Script[v]) : Script[v][s] \in Statements
    BY <2>1, ElementOfSeq
  <2> QED BY <2>2, <2>3, <2>4
<1> QED BY <1>2, <1>3

\* The next version is the smallest that is missing.
LEMMA NextVersionIsThere ==
    ASSUME NEW applied \in SUBSET Version, applied # Version
    PROVE  /\ NextVersion(applied) \in Version \ applied
           /\ \A w \in Version \ applied : NextVersion(applied) <= w
<1> DEFINE T == Version \ applied
<1>1. T \subseteq Nat /\ T # {}
  BY Scripts
<1>2. \E v \in T : \A w \in T : v <= w
  <2> HIDE DEF T
  <2>1. PICK v \in T : \A w \in T : ~ (<<w, v>> \in OpToRel(<, Nat))
    BY <1>1, NatLessThanWellFounded, WFMin
  <2>2. \A w \in Nat : w < v => <<w, v>> \in OpToRel(<, Nat)
    BY <1>1 DEF OpToRel
  <2>3. \A w \in Nat : ~(w < v) => v <= w
    BY <1>1
  <2> QED BY <1>1, <2>1, <2>2, <2>3
<1> QED BY <1>2 DEF NextVersion

\* Where a process is that holds what is recorded, or some of it, as applied.
LEMMA Proceeds ==
    ASSUME NEW applied \in SUBSET Version
    PROVE  /\ Proceed(applied) \in Progress
           /\ Proceed(applied).applied = applied
           /\ Proceed(applied).pc \in {"script", "up"}
           /\ Proceed(applied).pc = "script" =>
                /\ applied # Version /\ Proceed(applied).step = 1
                /\ 1 \in DOMAIN Script[NextVersion(applied)]
<1>1. CASE applied = Version
  BY <1>1 DEF Proceed, Progress
<1>2. CASE applied # Version
  <2>1. 1 \in DOMAIN Script[NextVersion(applied)]
    BY <1>2, NextVersionIsThere, Scripts
  <2> QED BY <1>2, <2>1 DEF Proceed, Progress
<1> QED BY <1>1, <1>2

\* A step of one process: the others are where they were, and what is recorded and
\* in the schema only grows.
LEMMA OneMigrates ==
    ASSUME MigrationInv, NEW p \in Process,
           NEW place \in Progress,
           at' = [at EXCEPT ![p] = place], recorded \subseteq recorded', recorded' \subseteq Version,
           schema' \subseteq Object, deaths' \in 0..MaxDeaths,
           place.applied \subseteq recorded',
           place.pc \in {"script", "record"} => place.applied # Version,
           place.pc = "script" => place.step \in DOMAIN Script[NextVersion(place.applied)],
           RecordedInOrder'
    PROVE  MigrationInv' /\ at'[p] = place /\ \A q \in Process \ {p} : at'[q] = at[q]
<1>1. at'[p] = place /\ (\A q \in Process \ {p} : at'[q] = at[q])
      /\ at' \in [Process -> Progress]
  BY DEF MigrationInv, MigrationTypeOK
<1>2. ASSUME NEW q \in Process PROVE InStep(q)'
  <2>1. CASE q = p
    BY <1>1, <2>1 DEF InStep, Migrating, Current
  <2>2. CASE q # p
    BY <1>1, <2>2 DEF MigrationInv, InStep, Migrating, Current
  <2> QED BY <2>1, <2>2
<1>3. MigrationTypeOK'
  BY <1>1, <1>2 DEF MigrationTypeOK, InStep, Current
<1> QED BY <1>1, <1>2, <1>3 DEF MigrationInv

\* What was run stays run while nothing is dropped.
LEMMA RunStaysRun ==
    ASSUME schema \subseteq schema', NEW v, NEW step
    PROVE  (WasRun(v) => WasRun(v)') /\ (RunBefore(v, step) => RunBefore(v, step)')
  BY DEF WasRun, RunBefore

LEMMA OneRuns ==
    ASSUME AppliedInv, NEW p \in Process, NEW place,
           at'[p] = place, \A q \in Process \ {p} : at'[q] = at[q],
           schema \subseteq schema',
           place.pc = "script" => RunBefore(NextVersion(place.applied), place.step)',
           place.pc = "record" => WasRun(NextVersion(place.applied))',
           \A v \in recorded' \ recorded : WasRun(v)'
    PROVE  AppliedInv'
<1>1. ASSUME NEW q \in Process PROVE HasRun(q)'
  <2>1. CASE q = p
    <3>1. Current(q)' = NextVersion(place.applied)
      BY <2>1 DEF Current
    <3> QED BY <2>1, <3>1 DEF HasRun
  <2>2. CASE q # p
    <3>1. at'[q] = at[q] /\ Current(q)' = Current(q)
      BY <2>2 DEF Current
    <3> QED BY <3>1, RunStaysRun DEF AppliedInv, HasRun
  <2> QED BY <2>1, <2>2
<1>2. ASSUME NEW v \in recorded' PROVE WasRun(v)'
  BY RunStaysRun DEF AppliedInv
<1> QED BY <1>1, <1>2 DEF AppliedInv

-----------------------------------------------------------------------------
\* A process leaves migrate(), having failed, died, or finished.
LEMMA LeavingKeeps ==
    ASSUME MigrationInv, NEW p \in Process, at' = [at EXCEPT ![p] = Away],
           UNCHANGED <<schema, recorded>>, deaths' \in 0..MaxDeaths
    PROVE  MigrationInv' /\ (AppliedInv => AppliedInv')
<1>1. Away \in Progress
      /\ Away.pc = "away" /\ Away.applied = {}
  BY DEF Away, Progress
<1>2. MigrationInv' /\ at'[p] = Away /\ \A q \in Process \ {p} : at'[q] = at[q]
  BY <1>1, OneMigrates DEF MigrationInv, MigrationTypeOK, RecordedInOrder
<1>3. AppliedInv => AppliedInv'
  BY <1>1, <1>2, OneRuns
<1> QED BY <1>2, <1>3

LEMMA StartMigrateKeeps ==
    ASSUME MigrationInv, NEW p \in Process, StartMigrate(p)
    PROVE  MigrationInv' /\ (AppliedInv => AppliedInv')
<1>1. /\ recorded \in SUBSET Version /\ at' = [at EXCEPT ![p] = Proceed(recorded)]
      /\ UNCHANGED <<schema, recorded, deaths>>
  BY DEF MigrationInv, MigrationTypeOK, StartMigrate
<1>2. PICK place \in Progress :
        /\ place = Proceed(recorded) /\ place.applied = recorded /\ place.pc \in {"script", "up"}
        /\ place.pc = "script" =>
             recorded # Version /\ place.step = 1 /\ 1 \in DOMAIN Script[NextVersion(recorded)]
  BY <1>1, Proceeds
<1>3. MigrationInv' /\ at'[p] = place /\ \A q \in Process \ {p} : at'[q] = at[q]
  BY <1>1, <1>2, OneMigrates DEF MigrationInv, MigrationTypeOK, RecordedInOrder
<1>4. place.pc = "script" => RunBefore(NextVersion(place.applied), place.step)'
  <2> SUFFICES ASSUME place.pc = "script", NEW s \in DOMAIN Script[NextVersion(place.applied)], s < 1
               PROVE  FALSE
    BY <1>2 DEF RunBefore
  <2>1. NextVersion(place.applied) \in Version
    BY <1>1, <1>2, NextVersionIsThere
  <2> QED BY <2>1, Scripts
<1>5. AppliedInv => AppliedInv'
  BY <1>1, <1>2, <1>3, <1>4, OneRuns
<1> QED BY <1>3, <1>5

LEMMA RunStatementKeeps ==
    ASSUME MigrationInv, NEW p \in Process, RunStatement(p)
    PROVE  MigrationInv' /\ (NothingIsDropped /\ AppliedInv => AppliedInv')
<1>1. PICK old \in Progress :
        /\ old = at[p] /\ old.pc = "script" /\ UNCHANGED <<recorded, deaths>>
        /\ old.applied # Version /\ old.applied \subseteq recorded
        /\ old.step \in DOMAIN Script[Current(p)] /\ recorded \subseteq Version
  BY DEF RunStatement, MigrationInv, MigrationTypeOK, InStep, Migrating
<1>2. PICK v \in Version : v = NextVersion(old.applied) /\ v = Current(p)
  BY <1>1, NextVersionIsThere DEF Current
<1> DEFINE next == IF old.step = Len(Script[v]) THEN [old EXCEPT !.pc = "record"]
                   ELSE [old EXCEPT !.step = old.step + 1]
           st == Script[v][old.step]
<1>3. at' = [at EXCEPT ![p] = next] /\ schema' = AfterStatement(st)
  <2>1. schema' = AfterStatement(st)
    BY <1>1, <1>2 DEF RunStatement, Statement
  <2>2. at' = IF at[p].step = Len(Script[Current(p)])
              THEN [at EXCEPT ![p] = [at[p] EXCEPT !.pc = "record"]]
              ELSE [at EXCEPT ![p] = [at[p] EXCEPT !.step = at[p].step + 1]]
    BY DEF RunStatement
  <2> QED BY <1>1, <1>2, <2>1, <2>2
<1>4. DOMAIN Script[v] = 1..Len(Script[v]) /\ Len(Script[v]) \in Nat /\ st \in Statements
  BY <1>1, <1>2, Scripts
<1>5. PICK place \in Progress :
        /\ place = next
        /\ place.applied = old.applied /\ place.pc \in {"script", "record"}
        /\ place.pc = "script" => place.step = old.step + 1 /\ place.step \in DOMAIN Script[v]
        /\ place.pc = "record" => old.step = Len(Script[v])
  <2>1. old.step \in 1..Len(Script[v])
    BY <1>1, <1>2, <1>4
  <2>2. next \in Progress /\ next.applied = old.applied
        /\ \/ next.pc = "record" /\ old.step = Len(Script[v])
           \/ next.pc = "script" /\ old.step # Len(Script[v]) /\ next.step = old.step + 1
    BY <1>1, <2>1, <1>4 DEF Progress
  <2> HIDE DEF next
  <2>3. next.pc = "script" => next.step \in DOMAIN Script[v]
    BY <2>1, <2>2, <1>4
  <2> QED BY <2>2, <2>3
<1>6. schema' \subseteq Object
  BY <1>3, <1>4 DEF AfterStatement, Statements, MigrationInv, MigrationTypeOK
<1> HIDE DEF next, st
<1>7. MigrationInv' /\ at'[p] = place /\ \A q \in Process \ {p} : at'[q] = at[q]
  BY <1>1, <1>2, <1>3, <1>5, <1>6, OneMigrates DEF MigrationInv, MigrationTypeOK, RecordedInOrder
<1>8. ASSUME NothingIsDropped, AppliedInv PROVE AppliedInv'
  <2>1. st.op # "drop"
    BY <1>1, <1>2, <1>8 DEF NothingIsDropped, st
  <2>2. schema \subseteq schema' /\ st.obj \in schema'
    BY <1>3, <2>1 DEF AfterStatement
  <2>3. RunBefore(v, old.step)
    BY <1>1, <1>2, <1>8 DEF AppliedInv, HasRun
  <2>4. \A s \in DOMAIN Script[v] : s < old.step + 1 => Script[v][s].obj \in schema'
    <3> SUFFICES ASSUME NEW s \in DOMAIN Script[v], s < old.step + 1
                 PROVE  Script[v][s].obj \in schema'
      OBVIOUS
    <3>1. s = old.step \/ s < old.step
      BY <1>1, <1>2, <1>4 DEF Progress
    <3> QED BY <2>2, <2>3, <3>1 DEF RunBefore, st
  <2>5. place.pc = "script" => RunBefore(NextVersion(place.applied), place.step)'
    BY <1>2, <1>5, <2>4 DEF RunBefore
  <2>6. place.pc = "record" => WasRun(NextVersion(place.applied))'
    <3> SUFFICES ASSUME place.pc = "record", NEW s \in DOMAIN Script[v]
                 PROVE  Script[v][s].obj \in schema'
      BY <1>2, <1>5 DEF WasRun
    <3>1. s < old.step + 1
      BY <1>1, <1>2, <1>4, <1>5
    <3> QED BY <2>4, <3>1
  <2> QED BY <1>1, <1>7, <1>8, <2>2, <2>5, <2>6, OneRuns
<1> QED BY <1>7, <1>8

LEMMA RecordVersionKeeps ==
    ASSUME MigrationInv, NEW p \in Process, RecordVersion(p)
    PROVE  MigrationInv' /\ (AppliedInv => AppliedInv')
<1>1. PICK old \in Progress :
        /\ old = at[p] /\ old.pc = "record" /\ UNCHANGED <<schema, deaths>>
        /\ old.applied # Version /\ old.applied \subseteq recorded /\ recorded \subseteq Version
  BY DEF RecordVersion, MigrationInv, MigrationTypeOK, InStep, Migrating
<1>2. old.applied \in SUBSET Version
  BY DEF Progress
<1>3. PICK v \in Version :
        /\ v = NextVersion(old.applied) /\ v = Current(p)
        /\ \A w \in Version \ old.applied : v <= w
  BY <1>1, <1>2, NextVersionIsThere DEF Current
<1>4. PICK all \in SUBSET Version : all = old.applied \cup {v}
  BY <1>2
<1>5. at' = [at EXCEPT ![p] = Proceed(all)] /\ recorded' = recorded \cup {v}
  BY <1>1, <1>3, <1>4 DEF RecordVersion
<1>6. PICK place \in Progress :
        /\ place = Proceed(all) /\ place.applied = all /\ place.pc \in {"script", "up"}
        /\ place.pc = "script" =>
             all # Version /\ place.step = 1 /\ 1 \in DOMAIN Script[NextVersion(all)]
  BY Proceeds
<1>7. RecordedInOrder'
  <2> SUFFICES ASSUME NEW x \in recorded', NEW w \in Version, w < x PROVE w \in recorded'
    BY Scripts DEF RecordedInOrder, Version
  <2>1. CASE x \in recorded
    BY <1>5, <2>1 DEF MigrationInv, RecordedInOrder
  <2>2. CASE x = v
    <3>1. ~(v <= w)
      BY <1>3, <2>2, Scripts
    <3> QED BY <1>1, <1>3, <1>5, <3>1
  <2> QED BY <1>5, <2>1, <2>2
<1>8. MigrationInv' /\ at'[p] = place /\ \A q \in Process \ {p} : at'[q] = at[q]
  BY <1>1, <1>3, <1>4, <1>5, <1>6, <1>7, OneMigrates DEF MigrationInv, MigrationTypeOK
<1>9. ASSUME AppliedInv PROVE AppliedInv'
  <2>1. WasRun(v)'
    BY <1>1, <1>3, <1>9, RunStaysRun DEF AppliedInv, HasRun
  <2>2. place.pc = "script" => RunBefore(NextVersion(place.applied), place.step)'
    <3> SUFFICES ASSUME place.pc = "script", NEW s \in DOMAIN Script[NextVersion(all)], s < 1
                 PROVE  FALSE
      BY <1>6 DEF RunBefore
    <3>1. NextVersion(all) \in Version
      BY <1>6, NextVersionIsThere
    <3> QED BY <3>1, Scripts
  <2>3. \A x \in recorded' \ recorded : WasRun(x)'
    BY <1>5, <2>1
  <2> QED BY <1>1, <1>6, <1>8, <1>9, <2>2, <2>3, OneRuns
<1> QED BY <1>8, <1>9

-----------------------------------------------------------------------------
LEMMA MigrationInitially == MigrationInit => MigrationInv /\ AppliedInv
<1> SUFFICES ASSUME MigrationInit PROVE MigrationInv /\ AppliedInv
  OBVIOUS
<1>1. Away \in Progress
      /\ Away.pc = "away" /\ Away.applied = {}
  BY DEF Away, Progress
<1> QED BY <1>1, MigrationAssumption
        DEF MigrationInit, MigrationInv, MigrationTypeOK, InStep, Migrating, RecordedInOrder,
            AppliedInv, HasRun

LEMMA MigrationKeeps ==
    ASSUME MigrationInv, [MigrationNext]_migrationVars
    PROVE  MigrationInv' /\ (NothingIsDropped /\ AppliedInv => AppliedInv')
<1>1. ASSUME UNCHANGED migrationVars
      PROVE  MigrationInv' /\ (AppliedInv => AppliedInv')
  BY <1>1 DEF migrationVars, MigrationInv, MigrationTypeOK, InStep, Migrating, Current,
              RecordedInOrder, AppliedInv, HasRun, WasRun, RunBefore
<1>2. ASSUME NEW p \in Process, Migrate(p) \/ Killed(p)
      PROVE  MigrationInv' /\ (NothingIsDropped /\ AppliedInv => AppliedInv')
  <2>1. deaths \in 0..MaxDeaths /\ MaxDeaths \in Nat
    BY MigrationAssumption DEF MigrationInv, MigrationTypeOK
  <2>2. CASE StatementFails(p) \/ RecordFails(p) \/ Done(p)
    BY <2>1, <2>2, LeavingKeeps DEF StatementFails, RecordFails, Done
  <2>3. CASE Killed(p)
    <3>1. deaths' \in 0..MaxDeaths
      BY <2>1, <2>3 DEF Killed
    <3> QED BY <2>3, <3>1, LeavingKeeps DEF Killed
  <2> QED BY <1>2, <2>2, <2>3, StartMigrateKeeps, RunStatementKeeps, RecordVersionKeeps DEF Migrate
<1> QED BY <1>1, <1>2 DEF MigrationNext

\* Type correctness of the schema, the version table and the processes in migrate().
THEOREM MigrationTypeCorrect == MigrationSpec => []MigrationTypeOK
<1>1. MigrationInv /\ [MigrationNext]_migrationVars => MigrationInv'
  BY MigrationKeeps
<1>2. MigrationInv => MigrationTypeOK
  BY DEF MigrationInv
<1> QED BY <1>1, <1>2, MigrationInitially, PTL DEF MigrationSpec

\* db.migrate records the versions in their order, whoever else migrates and is
\* killed: schema_version is always an initial piece of the scripts.
THEOREM VersionsAreInOrder == MigrationSpec => []RecordedInOrder
<1>1. MigrationInv /\ [MigrationNext]_migrationVars => MigrationInv'
  BY MigrationKeeps
<1>2. MigrationInv => RecordedInOrder
  BY DEF MigrationInv
<1> QED BY <1>1, <1>2, MigrationInitially, PTL DEF MigrationSpec

\* While no script drops anything, a recorded version is in the database, for any
\* number of processes that migrate at once, any scripts, and any deaths between
\* two statements or before the version row.
THEOREM RecordedWasApplied ==
    ASSUME NothingIsDropped
    PROVE  MigrationSpec => []RecordedIsApplied
<1>1. MigrationInv /\ AppliedInv /\ [MigrationNext]_migrationVars => MigrationInv' /\ AppliedInv'
  BY MigrationKeeps
<1>2. AppliedInv => RecordedIsApplied
  BY DEF AppliedInv, WasRun, RecordedIsApplied, Leaves
<1> QED BY <1>1, <1>2, MigrationInitially, PTL DEF MigrationSpec

-----------------------------------------------------------------------------
(* The inbox: an accepted capture is not lost.                              *)

\* The file waits in the inbox, or what it said is in the vault or has a document.
Kept(f) ==
    f \in inbox \/ (f \in filed /\ (Kind[f.content] = "note" \/ doc[f.content] # "absent"))

\* What the place of the worker says of its job.
WorkerKnows ==
    worker # Resting =>
        /\ worker.pc # "rest" /\ worker.job \in DOMAIN jobs
        /\ jobs[worker.job].status = "running" /\ jobs[worker.job].attempts > 0
        /\ At("embed") => doc[file.content] # "absent"
        /\ At("move") => kind = "note" \/ doc[file.content] # "absent"
        /\ At("done") => file \in filed

\* A file on its way is kept too: the file of an earlier request of the same second
\* may be the same, and its job may move it before this request has a job.
FilesKept ==
    /\ posting # None => Kept(posting)
    /\ \A j \in DOMAIN jobs :
        /\ Kept(jobs[j].file)
        /\ jobs[j].status = "complete" => jobs[j].file \in filed
        /\ jobs[j].status = "queued" => jobs[j].attempts < MaxAttempts

\* A request that has a file has room for its job.
RoomForJob == posting # None => Len(jobs) < MaxRequests

CaptureInv == CaptureTypeOK /\ RoomForJob /\ WorkerKnows /\ FilesKept

LEMMA CaptureInitially == CaptureInit => CaptureInv
<1> SUFFICES ASSUME CaptureInit PROVE CaptureInv
  OBVIOUS
<1>1. jobs \in Seq(Job) /\ Len(jobs) = 0 /\ DOMAIN jobs = {}
  BY EmptySeq DEF CaptureInit
<1> QED BY <1>1, CaptureAssumption
        DEF CaptureInit, CaptureInv, CaptureTypeOK, RoomForJob, WorkerKnows, FilesKept,
            Resting, None, File

-----------------------------------------------------------------------------
(* The table of jobs.                                                      *)

LEMMA RowsAreJobs ==
    ASSUME CaptureTypeOK
    PROVE  /\ DOMAIN jobs = 1..Len(jobs) /\ Len(jobs) \in 0..MaxRequests
           /\ jobs \in [DOMAIN jobs -> Job]
           /\ \A j \in DOMAIN jobs : jobs[j] \in Job /\ j \in 1..MaxRequests
<1>1. jobs \in Seq(Job) /\ Len(jobs) <= MaxRequests
  BY DEF CaptureTypeOK
<1>2. jobs \in [1..Len(jobs) -> Job] /\ Len(jobs) \in Nat
  BY <1>1, LenProperties
<1> QED BY <1>1, <1>2, CaptureAssumption

\* One row is written.
LEMMA OneRowChanges ==
    ASSUME CaptureTypeOK, NEW j \in DOMAIN jobs, NEW written \in Job,
           jobs' = [jobs EXCEPT ![j] = written]
    PROVE  /\ jobs' \in Seq(Job) /\ Len(jobs') = Len(jobs) /\ DOMAIN jobs' = DOMAIN jobs
           /\ jobs'[j] = written
           /\ \A i \in DOMAIN jobs : i # j => jobs'[i] = jobs[i]
<1>1. jobs \in Seq(Job) /\ j \in 1..Len(jobs)
  BY RowsAreJobs DEF CaptureTypeOK
<1>2. jobs' \in Seq(Job) /\ Len(jobs') = Len(jobs)
  BY <1>1, ExceptSeq
<1> QED BY <1>1, <1>2

\* A step writes the status and the attempts of one row.
LEMMA RowIsWritten ==
    ASSUME CaptureTypeOK, NEW j \in DOMAIN jobs, NEW s \in Status, NEW a \in 0..MaxAttempts,
           jobs' = [jobs EXCEPT ![j].status = s, ![j].attempts = a]
    PROVE  /\ jobs' \in Seq(Job) /\ Len(jobs') = Len(jobs) /\ DOMAIN jobs' = DOMAIN jobs
           /\ jobs'[j].file = jobs[j].file /\ jobs'[j].status = s /\ jobs'[j].attempts = a
           /\ \A i \in DOMAIN jobs : i # j => jobs'[i] = jobs[i]
<1> DEFINE written == [jobs[j] EXCEPT !.status = s, !.attempts = a]
<1>1. jobs[j] \in Job
  BY RowsAreJobs
<1>2. written \in Job /\ written.file = jobs[j].file /\ written.status = s /\ written.attempts = a
  BY <1>1 DEF Job
<1>3. jobs' = [jobs EXCEPT ![j] = written]
  BY RowsAreJobs
<1> HIDE DEF written
<1> QED BY <1>2, <1>3, OneRowChanges

\* The last write of a run: the worker rests, and the row is what it may be then.
LEMMA RunEnds ==
    ASSUME CaptureInv, worker # Resting, worker' = Resting,
           NEW s \in {"queued", "failed", "complete"}, NEW a \in 0..MaxAttempts,
           s = "queued" => a < MaxAttempts,
           s = "complete" => file \in filed,
           jobs' = [jobs EXCEPT ![worker.job].status = s, ![worker.job].attempts = a],
           UNCHANGED <<second, posting, inbox, filed, doc>>
    PROVE  CaptureInv'
<1>1. worker.job \in DOMAIN jobs /\ s \in Status
  BY DEF CaptureInv, WorkerKnows, Status
<1>2. /\ jobs' \in Seq(Job) /\ Len(jobs') = Len(jobs) /\ DOMAIN jobs' = DOMAIN jobs
      /\ jobs'[worker.job].file = file
      /\ jobs'[worker.job].status = s /\ jobs'[worker.job].attempts = a
      /\ \A i \in DOMAIN jobs : i # worker.job => jobs'[i] = jobs[i]
  <2>1. PICK j \in DOMAIN jobs : j = worker.job
    BY <1>1
  <2>2. jobs' = [jobs EXCEPT ![j].status = s, ![j].attempts = a]
    BY <2>1
  <2>3. CaptureTypeOK
    BY DEF CaptureInv
  <2>4. /\ jobs' \in Seq(Job) /\ Len(jobs') = Len(jobs) /\ DOMAIN jobs' = DOMAIN jobs
        /\ jobs'[j].file = jobs[j].file /\ jobs'[j].status = s /\ jobs'[j].attempts = a
        /\ \A i \in DOMAIN jobs : i # j => jobs'[i] = jobs[i]
    BY <1>1, <2>2, <2>3, RowIsWritten
  <2> QED BY <2>1, <2>4 DEF file
<1>3. CaptureTypeOK' /\ RoomForJob' /\ WorkerKnows'
  BY <1>2, CaptureAssumption
     DEF CaptureInv, CaptureTypeOK, RoomForJob, WorkerKnows, Resting
<1>4. FilesKept'
  BY <1>1, <1>2 DEF CaptureInv, FilesKept, Kept, file
<1> QED BY <1>3, <1>4 DEF CaptureInv

\* A step within a run leaves the rows alone; files and documents are only added to,
\* but for the file that is moved.
LEMMA RunGoesOn ==
    ASSUME CaptureInv, worker # Resting,
           NEW p \in {"take", "embed", "move", "done"},
           worker' = [worker EXCEPT !.pc = p],
           p = "embed" => doc'[file.content] # "absent",
           p = "move" => kind = "note" \/ doc'[file.content] # "absent",
           p = "done" => file \in filed',
           inbox' \subseteq File, filed' \subseteq File,
           doc' \in [Content -> {"absent", "pending", "embedded"}],
           \A f \in File : Kept(f) => Kept(f)',
           filed \subseteq filed',
           UNCHANGED <<second, posting, jobs>>
    PROVE  CaptureInv'
<1>1. \A j \in DOMAIN jobs : jobs[j].file \in File
  BY RowsAreJobs DEF CaptureInv, Job
<1>2. CaptureTypeOK' /\ RoomForJob'
  BY DEF CaptureInv, CaptureTypeOK, RoomForJob
<1>3. worker'.job = worker.job /\ worker'.pc = p
  BY DEF CaptureInv, CaptureTypeOK
<1>4. WorkerKnows'
  BY <1>3 DEF CaptureInv, WorkerKnows, file, kind, At
<1>5. FilesKept'
  BY <1>1 DEF CaptureInv, FilesKept, CaptureTypeOK, None
<1> QED BY <1>2, <1>4, <1>5 DEF CaptureInv

-----------------------------------------------------------------------------
(* The steps.                                                              *)

LEMMA ServerKeepsInv == CaptureInv /\ Server => CaptureInv'
<1> SUFFICES ASSUME CaptureInv, Server PROVE CaptureInv'
  OBVIOUS
<1> USE CaptureAssumption
<1>1. CASE Tick
  BY <1>1 DEF Tick, CaptureInv, CaptureTypeOK, RoomForJob, WorkerKnows, FilesKept, Kept, At, file, kind
<1>2. ASSUME NEW c \in Content, WriteInboxFile(c) PROVE CaptureInv'
  BY <1>2 DEF WriteInboxFile, CaptureInv, CaptureTypeOK, RoomForJob, WorkerKnows, FilesKept, Kept,
              At, file, kind, File, None
<1>3. CASE SubmitCapture
  <2> DEFINE written == [file |-> posting, status |-> "queued", attempts |-> 0]
  <2>1. written \in Job
    BY <1>3 DEF SubmitCapture, CaptureInv, CaptureTypeOK, None, Job, Status
  <2>2. jobs' = Append(jobs, written)
    BY <1>3 DEF SubmitCapture
  <2> HIDE DEF written
  <2>3. /\ jobs' \in Seq(Job) /\ Len(jobs') = Len(jobs) + 1
        /\ DOMAIN jobs' = 1..(Len(jobs) + 1)
        /\ \A j \in DOMAIN jobs : j \in DOMAIN jobs' /\ jobs'[j] = jobs[j]
        /\ jobs'[Len(jobs) + 1] = written
    BY <2>1, <2>2, AppendProperties, LenProperties, RowsAreJobs DEF CaptureInv, CaptureTypeOK
  <2>4. CaptureTypeOK' /\ RoomForJob'
    BY <1>3, <2>3, RowsAreJobs DEF SubmitCapture, CaptureInv, CaptureTypeOK, RoomForJob
  <2>5. WorkerKnows'
    BY <1>3, <2>3 DEF SubmitCapture, CaptureInv, WorkerKnows, At, file, kind
  <2>6. FilesKept'
    <3>1. \A f \in File : Kept(f) => Kept(f)'
      BY <1>3 DEF SubmitCapture, Kept
    <3>2. ASSUME NEW j \in DOMAIN jobs'
          PROVE  jobs'[j] = written \/ (j \in DOMAIN jobs /\ jobs'[j] = jobs[j])
      BY <2>3, RowsAreJobs DEF CaptureInv
    <3>3. Kept(posting) /\ posting \in File /\ posting' = None
      BY <1>3 DEF SubmitCapture, CaptureInv, CaptureTypeOK, FilesKept
    <3>4. \A j \in DOMAIN jobs : jobs[j].file \in File
      BY RowsAreJobs DEF CaptureInv, Job
    <3> QED BY <1>3, <3>1, <3>2, <3>3, <3>4 DEF SubmitCapture, CaptureInv, FilesKept, written
  <2> QED BY <2>4, <2>5, <2>6 DEF CaptureInv
<1>4. CASE ServerFails
  BY <1>4 DEF ServerFails, CaptureInv, CaptureTypeOK, RoomForJob, WorkerKnows, FilesKept, Kept, At, file, kind
<1> QED BY <1>1, <1>2, <1>3, <1>4 DEF Server

LEMMA ClaimKeepsInv == CaptureInv /\ ClaimCapture => CaptureInv'
<1> SUFFICES ASSUME CaptureInv, NEW j \in DOMAIN jobs, jobs[j].status = "queued",
                    jobs' = [jobs EXCEPT ![j].status = "running", ![j].attempts = @ + 1],
                    worker' = [job |-> j, pc |-> "read"],
                    UNCHANGED <<second, posting, inbox, filed, doc>>
             PROVE  CaptureInv'
  BY DEF ClaimCapture
<1>1. jobs[j] \in Job /\ jobs[j].attempts < MaxAttempts /\ j \in 1..MaxRequests
  BY RowsAreJobs DEF CaptureInv, FilesKept
<1>2. jobs[j].attempts + 1 \in 0..MaxAttempts /\ jobs[j].attempts + 1 > 0
  BY <1>1, CaptureAssumption DEF Job
<1>3. /\ jobs' \in Seq(Job) /\ Len(jobs') = Len(jobs) /\ DOMAIN jobs' = DOMAIN jobs
      /\ jobs'[j].file = jobs[j].file
      /\ jobs'[j].status = "running" /\ jobs'[j].attempts = jobs[j].attempts + 1
      /\ \A i \in DOMAIN jobs : i # j => jobs'[i] = jobs[i]
  BY <1>2, RowIsWritten DEF CaptureInv, Status
<1>4. CaptureTypeOK' /\ RoomForJob'
  BY <1>1, <1>3 DEF CaptureInv, CaptureTypeOK, RoomForJob
<1>5. WorkerKnows'
  BY <1>2, <1>3 DEF WorkerKnows, At
<1>6. FilesKept'
  BY <1>3 DEF CaptureInv, FilesKept, Kept
<1> QED BY <1>4, <1>5, <1>6 DEF CaptureInv

LEMMA DispatchKeepsInv == CaptureInv /\ Dispatch => CaptureInv'
<1> SUFFICES ASSUME CaptureInv, Dispatch, worker # Resting PROVE CaptureInv'
  BY ClaimKeepsInv DEF Dispatch, InboxFileMissing, ReadInboxFile, TakeContent, FetchFails, Embed,
     EmbedRaises, EmbedCircuitOpen, MoveFile, MarkComplete, At, Resting
<1>1. /\ worker.job \in DOMAIN jobs /\ jobs[worker.job] \in Job
      /\ file \in File /\ file.content \in Content
      /\ jobs[worker.job].attempts \in 1..MaxAttempts
  BY RowsAreJobs, CaptureAssumption DEF CaptureInv, WorkerKnows, Job, File, file
<1>2. ASSUME NEW s \in {"queued", "failed", "complete"}, EndJob(s),
             s = "queued" => jobs[worker.job].attempts < MaxAttempts,
             s = "complete" => file \in filed,
             UNCHANGED <<second, posting, inbox, filed, doc>>
      PROVE  CaptureInv'
  <2>1. jobs[worker.job].attempts \in 0..MaxAttempts
    BY <1>1, CaptureAssumption
  <2>2. jobs' = [jobs EXCEPT ![worker.job].status = s,
                             ![worker.job].attempts = jobs[worker.job].attempts]
    BY <1>1, <1>2 DEF EndJob, Job
  <2> QED BY <1>2, <2>1, <2>2, RunEnds DEF EndJob
<1>3. CASE InboxFileMissing
  BY <1>2, <1>3 DEF InboxFileMissing
<1>4. CASE ReadInboxFile
  BY <1>4, RunGoesOn DEF ReadInboxFile, Go, CaptureInv, CaptureTypeOK, Kept
<1>5. CASE TakeContent
  <2>1. \A f \in File : Kept(f) => Kept(f)'
    BY <1>5 DEF TakeContent, Kept, File, CaptureInv, CaptureTypeOK
  <2>2. CASE doc[file.content] = "absent"
    BY <1>1, <1>5, <2>1, <2>2, RunGoesOn DEF TakeContent, Go, CaptureInv, CaptureTypeOK
  <2>3. CASE doc[file.content] # "absent"
    BY <1>1, <1>5, <2>1, <2>3, RunGoesOn DEF TakeContent, Go, CaptureInv, CaptureTypeOK
  <2> QED BY <2>2, <2>3
<1>6. CASE FetchFails
  BY <1>2, <1>6 DEF FetchFails
<1>7. CASE Embed
  BY <1>1, <1>7, RunGoesOn DEF Embed, Go, CaptureInv, CaptureTypeOK, Kept
<1>8. CASE EmbedRaises
  BY <1>2, <1>8 DEF EmbedRaises
<1>9. CASE EmbedCircuitOpen
  <2>1. /\ jobs[worker.job].attempts - 1 \in 0..MaxAttempts
        /\ jobs[worker.job].attempts - 1 < MaxAttempts
    BY <1>1, CaptureAssumption
  <2> QED BY <1>9, <2>1, RunEnds DEF EmbedCircuitOpen
<1>10. CASE MoveFile
  <2>1. kind = "note" \/ doc[file.content] # "absent"
    BY <1>10 DEF MoveFile, CaptureInv, WorkerKnows
  <2>2. \A f \in File : Kept(f) => Kept(f)'
    BY <1>10, <2>1 DEF MoveFile, Kept, kind
  <2> QED BY <1>1, <1>10, <2>2, RunGoesOn DEF MoveFile, Go, CaptureInv, CaptureTypeOK
<1>11. CASE MarkComplete
  BY <1>2, <1>11 DEF MarkComplete, CaptureInv, WorkerKnows
<1> QED BY <1>3, <1>4, <1>5, <1>6, <1>7, <1>8, <1>9, <1>10, <1>11
        DEF Dispatch, ClaimCapture

LEMMA DeathKeepsInv == CaptureInv /\ (WorkerDies \/ FailZombie) => CaptureInv'
<1>1. CaptureInv /\ WorkerDies => CaptureInv'
  BY CaptureAssumption
     DEF WorkerDies, CaptureInv, CaptureTypeOK, RoomForJob, WorkerKnows, FilesKept, Kept, Resting
<1>2. CaptureInv /\ FailZombie => CaptureInv'
  <2> SUFFICES ASSUME CaptureInv, NEW j \in DOMAIN jobs, worker.job # j,
                      jobs' = [jobs EXCEPT ![j].status = "failed"],
                      UNCHANGED <<second, posting, inbox, filed, doc, worker>>
               PROVE  CaptureInv'
    BY DEF FailZombie
  <2>1. jobs[j] \in Job /\ "failed" \in Status
    BY RowsAreJobs DEF CaptureInv, Status
  <2>2. jobs[j].attempts \in 0..MaxAttempts
        /\ jobs' = [jobs EXCEPT ![j].status = "failed", ![j].attempts = jobs[j].attempts]
    BY <2>1 DEF Job
  <2>3. /\ jobs' \in Seq(Job) /\ Len(jobs') = Len(jobs) /\ DOMAIN jobs' = DOMAIN jobs
        /\ jobs'[j].file = jobs[j].file /\ jobs'[j].status = "failed"
        /\ \A i \in DOMAIN jobs : i # j => jobs'[i] = jobs[i]
    BY <2>1, <2>2, RowIsWritten DEF CaptureInv
  <2>4. CaptureTypeOK' /\ RoomForJob'
    BY <2>3 DEF CaptureInv, CaptureTypeOK, RoomForJob
  <2>5. WorkerKnows'
    BY <2>3 DEF CaptureInv, WorkerKnows, At, file, kind
  <2>6. FilesKept'
    BY <2>3 DEF CaptureInv, FilesKept, Kept
  <2> QED BY <2>4, <2>5, <2>6 DEF CaptureInv
<1> QED BY <1>1, <1>2

LEMMA CaptureStep == CaptureInv /\ [CaptureNext]_captureVars => CaptureInv'
<1>1. CaptureInv /\ UNCHANGED captureVars => CaptureInv'
  BY DEF captureVars, CaptureInv, CaptureTypeOK, RoomForJob, WorkerKnows, FilesKept, Kept, At, file, kind
<1> QED BY <1>1, ServerKeepsInv, DispatchKeepsInv, DeathKeepsInv DEF CaptureNext

-----------------------------------------------------------------------------
\* Types of the two processes' files and rows.
THEOREM CaptureTypeCorrect == CaptureSpec => []CaptureTypeOK
<1>1. CaptureInv => CaptureTypeOK
  BY DEF CaptureInv
<1> QED BY CaptureInitially, CaptureStep, <1>1, PTL DEF CaptureSpec

\* What was answered 202 is in the inbox until its content is stored, and a job that
\* is complete has filed it, whichever process dies when, for any number of requests.
THEOREM AcceptedCaptureIsKept == CaptureSpec => []AcceptedIsKept
<1>1. CaptureInv => AcceptedIsKept
  BY DEF CaptureInv, FilesKept, Kept, AcceptedIsKept
<1> QED BY CaptureInitially, CaptureStep, <1>1, PTL DEF CaptureSpec

-----------------------------------------------------------------------------
(* Surface: the row and the threads of each request.                        *)

\* Who may still insert the row, and who knows that it is there.
RowKnown(r) ==
    /\ inserted[r] <= 1
    /\ inserted[r] = 0 <=> row[r] = NoRow
    /\ known[r] \/ mine[r] \/ beginner[r] = "done" => row[r] # NoRow
    /\ beginner[r] \in {"no", "going", "dead"} => runner[r] = "no" /\ row[r] = NoRow
    /\ beginner[r] = "failed" /\ runner[r] = "no" => row[r] = NoRow
    /\ runner[r] = "begin" => row[r] = NoRow
    /\ runner[r] # "no" /\ ~mine[r] => row[r] = NoRow

\* Where the coroutine is while there is a thread.
Together(r) ==
    /\ tool[r] = "idle" => beginner[r] = "no"
    /\ tool[r] \in {"idle", "beginning"} => runner[r] = "no"
    /\ tool[r] \in {"running", "marking", "raised"} => runner[r] # "no"
    /\ tool[r] = "answered" /\ runner[r] = "no" => beginner[r] = "no"
    /\ event[r] => tool[r] \in {"marking", "cancelled", "dead"}

\* The thread writes its verdict before it ends.
VerdictFirst(r) ==
    runner[r] \in {"over", "raised"} /\ r \notin lost => row[r].status # "running"

\* Where the cancellation found the thread, and what it has begun since.
LateStarts(r) ==
    /\ event[r] <=> late[r].found # "no"
    /\ ~event[r] \/ runner[r] = "no" => late[r] = InTime
    /\ late[r].searches + left[r] <= MaxTypes
    /\ event[r] /\ runner[r] \in Searching => late[r].found \in Searching
    /\ event[r] /\ runner[r] = "spawn" => late[r].found = "spawn" /\ late[r].judges = 0
    /\ late[r].searches > 0 => late[r].found \in Searching
    /\ late[r].judges > 0 => late[r].found = "spawn" /\ late[r].judges = 1

RequestInv(r) == RowKnown(r) /\ Together(r) /\ VerdictFirst(r) /\ LateStarts(r)

SurfaceInv == SurfaceTypeOK /\ \A r \in Request : RequestInv(r)

LEMMA InTimeIsEarly ==
    InTime \in Late /\ InTime.found = "no" /\ InTime.searches = 0 /\ InTime.judges = 0
BY DEF InTime, Late, RunState

LEMMA SurfaceInitially == SurfaceInit => SurfaceInv
<1> SUFFICES ASSUME SurfaceInit PROVE SurfaceInv
  OBVIOUS
<1>1. SurfaceTypeOK
  BY InTimeIsEarly, SurfaceAssumption DEF SurfaceInit, SurfaceTypeOK, ToolState, BeginState, RunState, NoResult
<1>2. ASSUME NEW r \in Request PROVE RequestInv(r)
  BY <1>2, InTimeIsEarly, SurfaceAssumption
     DEF SurfaceInit, RequestInv, RowKnown, Together, VerdictFirst, LateStarts, Searching
<1> QED BY <1>1, <1>2 DEF SurfaceInv

-----------------------------------------------------------------------------
(* The row.                                                                *)

Terminal == {"failed", "cancelled", "complete"}
StageName == {"embedding", "search", "judge", "complete", "cancelled"}

\* A verdict stays as it is.
VerdictKept(r) ==
    row[r].status \in Terminal =>
        /\ row'[r].status = row[r].status
        /\ row'[r].stage = row[r].stage
        /\ row'[r].judge = row[r].judge

\* What a guarded UPDATE may do to the row, whether or not it is lost.
LEMMA WriteEffect ==
    ASSUME SurfaceTypeOK, NEW r \in Request, NEW has \in BOOLEAN, NEW status \in InvocationStatus,
           NEW stage \in StageName, NEW judge,
           has => row[r] # NoRow /\ judge \in JudgeStatus,
           Write(r, has, status, stage, judge)
    PROVE  /\ row' \in [Request -> RowState \cup {NoRow}] /\ lost' \subseteq Request
           /\ lost \subseteq lost'
           /\ \A q \in Request \ {r} : row'[q] = row[q] /\ (q \in lost' <=> q \in lost)
           /\ row'[r] = NoRow <=> row[r] = NoRow
           /\ row[r].status # "running" => row'[r] = row[r]
           /\ ~has => row'[r] = row[r]
           /\ has /\ status \in Terminal => r \in lost' \/ row'[r].status # "running"
           /\ VerdictKept(r)
<1>1. row \in [Request -> RowState \cup {NoRow}] /\ lost \subseteq Request
  BY DEF SurfaceTypeOK
<1>2. CASE UNCHANGED row /\ lost \subseteq lost' /\ lost' \subseteq lost \cup {r}
           /\ (has => r \in lost')
  BY <1>1, <1>2 DEF VerdictKept
<1>3. CASE /\ has /\ row[r].status # "running" /\ UNCHANGED <<row, lost>>
  BY <1>1, <1>3 DEF VerdictKept
<1>4. CASE /\ has /\ row[r].status = "running" /\ UNCHANGED lost
           /\ row' = [row EXCEPT ![r] = [status |-> status, stage |-> stage,
                                         judge |-> judge, ack |-> row[r].ack]]
  <2> DEFINE new == [status |-> status, stage |-> stage, judge |-> judge, ack |-> row[r].ack]
  <2>1. row[r] \in RowState
    BY <1>1, <1>4
  <2>2. new \in RowState /\ new # NoRow /\ new.status = status
    BY <1>4, <2>1 DEF RowState, StageName, NoRow, InvocationStatus
  <2>3. row' = [row EXCEPT ![r] = new]
    BY <1>4
  <2> HIDE DEF new
  <2>4. row[r].status \notin Terminal
    BY <1>4 DEF Terminal
  <2> QED BY <1>1, <1>4, <2>2, <2>3, <2>4 DEF VerdictKept, Terminal
<1> QED BY <1>2, <1>3, <1>4 DEF Write

\* What an INSERT does that comes first.
LEMMA InsertEffect ==
    ASSUME SurfaceTypeOK, NEW r \in Request, NEW ok \in BOOLEAN, Insert(r, ok),
           row[r] = NoRow, inserted[r] = 0
    PROVE  /\ row' \in [Request -> RowState \cup {NoRow}] /\ inserted' \in [Request -> Nat]
           /\ \A q \in Request \ {r} : row'[q] = row[q] /\ inserted'[q] = inserted[q]
           /\ inserted'[r] = IF ok THEN 1 ELSE 0
           /\ row'[r] # NoRow <=> ok
           /\ VerdictKept(r)
<1> DEFINE new == [status |-> "running", stage |-> "embedding", judge |-> "not_called", ack |-> FALSE]
<1>1. new \in RowState /\ new # NoRow
  BY DEF RowState, InvocationStatus, JudgeStatus, NoRow
<1>2. ~ (row[r].status \in Terminal)
  <2>1. NoRow.status = "no row"
    BY DEF NoRow
  <2> QED BY <2>1 DEF Terminal
<1>3. CASE ok
  <2>1. row' = [row EXCEPT ![r] = new] /\ inserted' = [inserted EXCEPT ![r] = @ + 1]
    BY <1>3 DEF Insert
  <2> HIDE DEF new
  <2> QED BY <1>1, <1>2, <1>3, <2>1 DEF SurfaceTypeOK, VerdictKept
<1>4. CASE ~ok
  BY <1>2, <1>4 DEF Insert, SurfaceTypeOK, VerdictKept
<1> QED BY <1>3, <1>4

-----------------------------------------------------------------------------
(* A step of one request leaves the others alone.                          *)

OnlyOf(r) ==
    \A q \in Request \ {r} :
        /\ tool'[q] = tool[q] /\ known'[q] = known[q] /\ beginner'[q] = beginner[q]
        /\ runner'[q] = runner[q] /\ mine'[q] = mine[q] /\ event'[q] = event[q]
        /\ row'[q] = row[q] /\ inserted'[q] = inserted[q] /\ late'[q] = late[q]
        /\ left'[q] = left[q]
        /\ q \in lost' <=> q \in lost

StepKeeps(r) == SurfaceTypeOK' /\ OnlyOf(r) /\ RequestInv(r)' /\ VerdictKept(r)

LEMMA OthersKeep ==
    ASSUME SurfaceInv, NEW r \in Request, StepKeeps(r)
    PROVE  SurfaceInv' /\ \A q \in Request : VerdictKept(q)
<1>1. ASSUME NEW q \in Request \ {r} PROVE RequestInv(q)' /\ VerdictKept(q)
  <2>1. RequestInv(q)
    BY DEF SurfaceInv
  <2> QED BY <2>1 DEF StepKeeps, OnlyOf, RequestInv, RowKnown, Together, VerdictFirst,
                      LateStarts, VerdictKept
<1> QED BY <1>1 DEF StepKeeps, SurfaceInv
-----------------------------------------------------------------------------
(* The thread.                                                             *)

AtWork == {"entry", "embedding", "connect", "search", "query", "judge", "spawn", "judging"}

LEMMA FinishKeeps ==
    ASSUME SurfaceInv, NEW r \in Request, runner[r] \in AtWork, NEW status \in Terminal,
           NEW stage \in StageName, NEW judge \in JudgeStatus, Finish(r, status, stage, judge)
    PROVE  StepKeeps(r)
<1>1. SurfaceTypeOK /\ RequestInv(r) /\ status \in InvocationStatus /\ mine[r] \in BOOLEAN
  BY DEF SurfaceInv, SurfaceTypeOK, Terminal, InvocationStatus
<1>2. Write(r, mine[r], status, stage, judge)
  BY DEF Finish
<1>3. mine[r] => row[r] # NoRow
  BY <1>1 DEF RequestInv, RowKnown
<1>4. /\ row' \in [Request -> RowState \cup {NoRow}] /\ lost' \subseteq Request
      /\ \A q \in Request \ {r} : row'[q] = row[q] /\ (q \in lost' <=> q \in lost)
      /\ row'[r] = NoRow <=> row[r] = NoRow
      /\ ~mine[r] => row'[r] = row[r]
      /\ mine[r] => r \in lost' \/ row'[r].status # "running"
      /\ VerdictKept(r)
  BY <1>1, <1>2, <1>3, WriteEffect
<1>5. /\ runner' = [runner EXCEPT ![r] = "over"] /\ result' = [result EXCEPT ![r] = status]
      /\ UNCHANGED <<tool, known, beginner, mine, left, attempt, event, inserted, late>>
  BY DEF Finish
<1>6. SurfaceTypeOK' /\ OnlyOf(r)
  BY <1>1, <1>4, <1>5 DEF SurfaceTypeOK, OnlyOf, RunState, Terminal
<1>7. runner'[r] = "over"
  BY <1>1, <1>5 DEF SurfaceTypeOK
<1>8. NoRow.status = "no row"
  BY DEF NoRow
<1>9. RequestInv(r)'
  BY <1>1, <1>4, <1>5, <1>7, <1>8 DEF SurfaceTypeOK, RequestInv, RowKnown, Together, VerdictFirst, LateStarts, AtWork, Searching
<1> QED BY <1>4, <1>6, <1>9 DEF StepKeeps

\* An UPDATE of the row, or none.
RowWritten(r) ==
    /\ row' \in [Request -> RowState \cup {NoRow}] /\ lost' \subseteq Request
    /\ \A q \in Request \ {r} : row'[q] = row[q] /\ (q \in lost' <=> q \in lost)
    /\ row'[r] = NoRow <=> row[r] = NoRow
    /\ ~mine[r] => row'[r] = row[r]
    /\ VerdictKept(r)

LEMMA StageIsWritten ==
    ASSUME SurfaceInv, NEW r \in Request, NEW status \in InvocationStatus, NEW stage \in StageName,
           Write(r, mine[r], status, stage, row[r].judge)
    PROVE  /\ RowWritten(r)
           /\ mine[r] /\ status \in Terminal => r \in lost' \/ row'[r].status # "running"
<1>1. SurfaceTypeOK /\ RequestInv(r) /\ mine[r] \in BOOLEAN
  BY DEF SurfaceInv, SurfaceTypeOK
<1>2. mine[r] => row[r] # NoRow /\ row[r].judge \in JudgeStatus
  BY <1>1 DEF RequestInv, RowKnown, SurfaceTypeOK, RowState
<1> QED BY <1>1, <1>2, WriteEffect DEF RowWritten

LEMMA NothingWritten ==
    ASSUME SurfaceInv, NEW r \in Request, UNCHANGED <<row, lost>>
    PROVE  RowWritten(r)
BY DEF SurfaceInv, SurfaceTypeOK, RowWritten, VerdictKept

\* On to the next place.
LEMMA GoingOnKeeps ==
    ASSUME SurfaceInv, NEW r \in Request, runner[r] \in AtWork, RowWritten(r),
           NEW place \in {"embedding", "connect", "search", "judge", "spawn", "judging", "raised",
                          "escaped"},
           GoOn(r, place),
           place = "raised" /\ mine[r] => r \in lost' \/ row'[r].status # "running",
           attempt' \in [Request -> 1..2],
           late' \in [Request -> Late],
           \A q \in Request \ {r} : late'[q] = late[q],
           LateStarts(r)'
    PROVE  StepKeeps(r)
<1>1. SurfaceTypeOK /\ RequestInv(r)
  BY DEF SurfaceInv
<1>2. /\ runner' = [runner EXCEPT ![r] = place]
      /\ UNCHANGED <<tool, known, beginner, mine, left, event, result, inserted>>
  BY DEF GoOn
<1>3. SurfaceTypeOK' /\ OnlyOf(r)
  BY <1>1, <1>2 DEF SurfaceTypeOK, OnlyOf, RunState, RowWritten
<1>4. runner'[r] = place /\ NoRow.status = "no row"
  BY <1>1, <1>2 DEF SurfaceTypeOK, NoRow
<1>5. RowKnown(r)' /\ Together(r)' /\ VerdictFirst(r)'
  BY <1>1, <1>2, <1>4 DEF RowWritten, RequestInv, RowKnown, Together, VerdictFirst, AtWork
<1> QED BY <1>3, <1>5 DEF StepKeeps, RowWritten, RequestInv

\* A place where nothing begins.
LEMMA NothingBegins ==
    ASSUME SurfaceInv, NEW r \in Request, UNCHANGED late,
           NEW place \in RunState, GoOn(r, place), place # "no",
           place \in Searching => runner[r] \in Searching \/ ~event[r],
           place = "spawn" => ~event[r]
    PROVE  /\ late' \in [Request -> Late]
           /\ \A q \in Request \ {r} : late'[q] = late[q]
           /\ LateStarts(r)'
<1>1. SurfaceTypeOK /\ LateStarts(r)
  BY DEF SurfaceInv, RequestInv
<1>2. runner'[r] = place /\ UNCHANGED <<event, left>>
  BY <1>1 DEF SurfaceTypeOK, GoOn
<1> QED BY <1>1, <1>2, InTimeIsEarly DEF SurfaceTypeOK, LateStarts

\* One search more, counted if it is late.
LEMMA BeginningKeeps ==
    ASSUME SurfaceInv, NEW r \in Request, BeginQuery(r)
    PROVE  StepKeeps(r)
<1>1. SurfaceTypeOK /\ RequestInv(r) /\ MaxTypes \in Nat
  BY SurfaceAssumption DEF SurfaceInv
<1> DEFINE old == late[r]
           new == IF event[r] THEN [found |-> old.found, searches |-> old.searches + 1,
                                    judges |-> old.judges] ELSE old
<1>2. /\ runner[r] = "search" /\ left[r] > 0
      /\ runner' = [runner EXCEPT ![r] = "query"] /\ left' = [left EXCEPT ![r] = left[r] - 1]
      /\ UNCHANGED <<tool, known, beginner, mine, attempt, event, result, row, inserted, lost>>
  BY DEF BeginQuery
<1>3. old \in Late
  BY <1>1 DEF SurfaceTypeOK
<1>4. late' = [late EXCEPT ![r] = new] /\ new \in Late
  <2>1. CASE event[r]
    <3>1. late' = [late EXCEPT ![r] = [old EXCEPT !.searches = old.searches + 1]]
      BY <2>1 DEF BeginQuery
    <3>2. [old EXCEPT !.searches = old.searches + 1] = new /\ new \in Late
      BY <1>3, <2>1 DEF Late
    <3> QED BY <3>1, <3>2
  <2>2. CASE ~event[r]
    BY <1>1, <1>3, <2>2 DEF BeginQuery, SurfaceTypeOK
  <2> QED BY <2>1, <2>2
<1>5. /\ new.found = old.found /\ new.judges = old.judges
      /\ new.searches = IF event[r] THEN old.searches + 1 ELSE old.searches
      /\ ~event[r] => new = old
  BY <1>3
<1> HIDE DEF new
<1>6. SurfaceTypeOK'
  BY <1>1, <1>2, <1>4 DEF SurfaceTypeOK, RunState
<1>7. OnlyOf(r)
  BY <1>1, <1>2, <1>4 DEF SurfaceTypeOK, OnlyOf
<1>8. runner'[r] = "query" /\ left'[r] = left[r] - 1 /\ late'[r] = new /\ left[r] \in Nat
  BY <1>1, <1>2, <1>4 DEF SurfaceTypeOK
<1>9. RowKnown(r)' /\ Together(r)' /\ VerdictFirst(r)' /\ VerdictKept(r)
  BY <1>1, <1>2, <1>8 DEF RequestInv, RowKnown, Together, VerdictFirst, VerdictKept
<1>10. LateStarts(r)'
  BY <1>1, <1>2, <1>3, <1>5, <1>8, InTimeIsEarly DEF RequestInv, LateStarts, Late, Searching
<1> QED BY <1>6, <1>7, <1>9, <1>10 DEF StepKeeps, RequestInv

\* The one claude process, counted if it is late.
LEMMA SpawnEffect ==
    ASSUME SurfaceInv, NEW r \in Request, SpawnJudge(r)
    PROVE  /\ late' \in [Request -> Late]
           /\ \A q \in Request \ {r} : late'[q] = late[q]
           /\ LateStarts(r)'
<1>1. SurfaceTypeOK /\ LateStarts(r)
  BY DEF SurfaceInv, RequestInv
<1> DEFINE old == late[r]
           new == IF event[r] THEN [found |-> old.found, searches |-> old.searches,
                                    judges |-> old.judges + 1] ELSE old
<1>2. old \in Late
  BY <1>1 DEF SurfaceTypeOK
<1>3. late' = [late EXCEPT ![r] = new] /\ new \in Late
  <2>1. CASE event[r]
    <3>1. late' = [late EXCEPT ![r] = [old EXCEPT !.judges = old.judges + 1]]
      BY <2>1 DEF SpawnJudge
    <3>2. [old EXCEPT !.judges = old.judges + 1] = new /\ new \in Late
      BY <1>2, <2>1 DEF Late
    <3> QED BY <3>1, <3>2
  <2>2. CASE ~event[r]
    BY <1>1, <1>2, <2>2 DEF SpawnJudge, SurfaceTypeOK
  <2> QED BY <2>1, <2>2
<1>4. /\ new.found = old.found /\ new.searches = old.searches
      /\ new.judges = IF event[r] THEN old.judges + 1 ELSE old.judges
      /\ ~event[r] => new = old
  BY <1>2
<1> HIDE DEF new
<1>5. runner[r] = "spawn" /\ runner'[r] = "judging" /\ UNCHANGED <<event, left>> /\ late'[r] = new
  BY <1>1, <1>3 DEF SpawnJudge, GoOn, SurfaceTypeOK
<1>6. LateStarts(r)'
  BY <1>1, <1>2, <1>4, <1>5, InTimeIsEarly DEF LateStarts, Late, Searching
<1> QED BY <1>1, <1>3, <1>6 DEF SurfaceTypeOK

LEMMA ThreadKeeps ==
    ASSUME SurfaceInv, NEW r \in Request, Threads(r)
    PROVE  StepKeeps(r)
<1>1. SurfaceTypeOK /\ RequestInv(r)
  BY DEF SurfaceInv
<1>2. attempt \in [Request -> 1..2] /\ [attempt EXCEPT ![r] = 2] \in [Request -> 1..2]
  BY <1>1 DEF SurfaceTypeOK
<1> USE DEF AtWork, Terminal, StageName, RunState, Searching
<1>3. CASE BeginInvocation(r)
  <2>1. row[r] = NoRow /\ inserted[r] = 0 /\ runner[r] = "no"
    BY <1>1, <1>3 DEF BeginInvocation, RequestInv, RowKnown
  <2>2. PICK ok \in BOOLEAN :
            /\ beginner' = [beginner EXCEPT ![r] = IF ok THEN "done" ELSE "failed"]
            /\ Insert(r, ok)
    BY <1>3 DEF BeginInvocation
  <2>3. /\ row' \in [Request -> RowState \cup {NoRow}] /\ inserted' \in [Request -> Nat]
        /\ \A q \in Request \ {r} : row'[q] = row[q] /\ inserted'[q] = inserted[q]
        /\ inserted'[r] = IF ok THEN 1 ELSE 0
        /\ row'[r] # NoRow <=> ok
        /\ VerdictKept(r)
    BY <1>1, <2>1, <2>2, InsertEffect
  <2>4. UNCHANGED <<tool, known, runner, mine, left, attempt, event, result, late, lost>>
    BY <1>3 DEF BeginInvocation
  <2>5. beginner'[r] = IF ok THEN "done" ELSE "failed"
    BY <1>1, <2>2 DEF SurfaceTypeOK
  <2>6. SurfaceTypeOK' /\ OnlyOf(r)
    BY <1>1, <2>2, <2>3, <2>4 DEF SurfaceTypeOK, OnlyOf, BeginState
  <2>7. RequestInv(r)'
    BY <1>1, <1>3, <2>1, <2>3, <2>4, <2>5
       DEF BeginInvocation, RequestInv, RowKnown, Together, VerdictFirst, LateStarts
  <2> QED BY <2>3, <2>6, <2>7 DEF StepKeeps
<1>4. CASE RunBegins(r)
  <2>1. row[r] = NoRow /\ inserted[r] = 0 /\ beginner[r] \notin {"no", "going", "dead", "done"}
    BY <1>1, <1>4 DEF RunBegins, RequestInv, RowKnown
  <2>2. PICK ok \in BOOLEAN : mine' = [mine EXCEPT ![r] = ok] /\ Insert(r, ok)
    BY <1>4 DEF RunBegins
  <2>3. /\ row' \in [Request -> RowState \cup {NoRow}] /\ inserted' \in [Request -> Nat]
        /\ \A q \in Request \ {r} : row'[q] = row[q] /\ inserted'[q] = inserted[q]
        /\ inserted'[r] = IF ok THEN 1 ELSE 0
        /\ row'[r] # NoRow <=> ok
        /\ VerdictKept(r)
    BY <1>1, <2>1, <2>2, InsertEffect
  <2>4. /\ runner' = [runner EXCEPT ![r] = "entry"]
        /\ UNCHANGED <<tool, known, beginner, left, attempt, event, result, late, lost>>
    BY <1>4 DEF RunBegins
  <2>5. mine'[r] = ok /\ runner'[r] = "entry"
    BY <1>1, <2>2, <2>4 DEF SurfaceTypeOK
  <2>6. SurfaceTypeOK' /\ OnlyOf(r)
    BY <1>1, <2>2, <2>3, <2>4 DEF SurfaceTypeOK, OnlyOf, RunState
  <2>7. RequestInv(r)'
    BY <1>1, <1>4, <2>1, <2>3, <2>4, <2>5
       DEF RunBegins, RequestInv, RowKnown, Together, VerdictFirst, LateStarts
  <2> QED BY <2>3, <2>6, <2>7 DEF StepKeeps
<1>5. CASE CheckEntry(r)
  <2>1. CASE event[r]
    BY <1>5, <2>1, FinishKeeps DEF CheckEntry, JudgeStatus
  <2>2. CASE ~event[r]
    BY <1>2, <1>5, <2>2, GoingOnKeeps, NothingWritten, NothingBegins DEF CheckEntry
  <2> QED BY <2>1, <2>2
<1>6. CASE EmbedSeed(r)
  <2>1. CASE Finish(r, "failed", "embedding", "embedding_failed")
    BY <1>6, <2>1, FinishKeeps DEF EmbedSeed, JudgeStatus
  <2>2. CASE /\ GoOn(r, "connect") /\ Write(r, mine[r], "running", "search", row[r].judge)
             /\ UNCHANGED <<attempt, late>>
    <3>1. RowWritten(r)
      BY <2>2, StageIsWritten DEF InvocationStatus
    <3>2. runner[r] \in Searching
      BY <1>6 DEF EmbedSeed, Searching
    <3> QED BY <1>2, <1>6, <2>2, <3>1, <3>2, GoingOnKeeps, NothingBegins DEF EmbedSeed
  <2> QED BY <1>6, <2>1, <2>2 DEF EmbedSeed
<1>7. CASE OpenDatabase(r)
  <2>1. runner[r] \in Searching
    BY <1>7 DEF OpenDatabase, Searching
  <2> QED BY <1>2, <1>7, <2>1, GoingOnKeeps, NothingWritten, NothingBegins DEF OpenDatabase
<1>8. CASE BeginQuery(r)
  BY <1>8, BeginningKeeps
<1>9. CASE QueryEnds(r)
  <2>1. runner[r] \in Searching
    BY <1>9 DEF QueryEnds, Searching
  <2> QED BY <1>2, <1>9, <2>1, GoingOnKeeps, NothingWritten, NothingBegins DEF QueryEnds
<1>10. CASE SearchError(r)
  <2>1. RowWritten(r) /\ (mine[r] => r \in lost' \/ row'[r].status # "running")
    BY <1>10, StageIsWritten DEF SearchError, InvocationStatus
  <2> QED BY <1>2, <1>10, <2>1, GoingOnKeeps, NothingBegins DEF SearchError, Searching
<1>11. CASE SearchCancelled(r)
  BY <1>11, FinishKeeps DEF SearchCancelled, JudgeStatus
<1>12. CASE SearchTimesOut(r)
  BY <1>12, FinishKeeps DEF SearchTimesOut, JudgeStatus
<1>13. CASE NoCandidates(r)
  BY <1>13, FinishKeeps DEF NoCandidates, JudgeStatus
<1>14. CASE Candidates(r)
  <2>1. RowWritten(r)
    BY <1>14, StageIsWritten DEF Candidates, InvocationStatus
  <2> QED BY <1>2, <1>14, <2>1, GoingOnKeeps, NothingBegins DEF Candidates, Searching
<1>15. CASE CheckJudge(r)
  <2>1. CASE event[r]
    BY <1>15, <2>1, FinishKeeps DEF CheckJudge, JudgeStatus
  <2>2. CASE ~event[r]
    BY <1>2, <1>15, <2>2, GoingOnKeeps, NothingWritten, NothingBegins DEF CheckJudge
  <2> QED BY <2>1, <2>2
<1>16. CASE SpawnJudge(r)
  <2>1. /\ late' \in [Request -> Late]
        /\ \A q \in Request \ {r} : late'[q] = late[q]
        /\ LateStarts(r)'
    BY <1>16, SpawnEffect
  <2> QED BY <1>2, <1>16, <2>1, GoingOnKeeps, NothingWritten DEF SpawnJudge
<1>17. CASE JudgeFails(r)
  BY <1>17, FinishKeeps DEF JudgeFails, JudgeStatus
<1>18. CASE JudgeUnparseable(r)
  <2>1. CASE attempt[r] = 2
    BY <1>18, <2>1, FinishKeeps DEF JudgeUnparseable, JudgeStatus
  <2>2. CASE attempt[r] # 2
    BY <1>2, <1>18, <2>2, GoingOnKeeps, NothingWritten, NothingBegins DEF JudgeUnparseable, Searching
  <2> QED BY <2>1, <2>2
<1>19. CASE JudgeParsed(r)
  BY <1>19, FinishKeeps DEF JudgeParsed, JudgeStatus
<1>20. CASE RunRaises(r)
  BY <1>2, <1>20, GoingOnKeeps, NothingWritten, NothingBegins DEF RunRaises, Searching
<1> QED BY <1>3, <1>4, <1>5, <1>6, <1>7, <1>8, <1>9, <1>10, <1>11, <1>12, <1>13, <1>14, <1>15,
           <1>16, <1>17, <1>18, <1>19, <1>20 DEF Threads, Search, Judge

-----------------------------------------------------------------------------
(* The coroutine, the client and the crash.                                *)

LEMMA EventLoopKeeps ==
    ASSUME SurfaceInv, NEW r \in Request, EventLoop(r)
    PROVE  StepKeeps(r)
<1>1. SurfaceTypeOK /\ RequestInv(r)
  BY DEF SurfaceInv
<1>2. CASE StartRun(r)
  <2>1. SurfaceTypeOK' /\ OnlyOf(r)
    BY <1>1, <1>2 DEF StartRun, SurfaceTypeOK, OnlyOf, ToolState, BeginState, RunState
  <2>2. RequestInv(r)'
    BY <1>1, <1>2 DEF StartRun, SurfaceTypeOK, RequestInv, RowKnown, Together, VerdictFirst, LateStarts, Searching
  <2>3. VerdictKept(r)
    BY <1>2 DEF StartRun, VerdictKept
  <2> QED BY <2>1, <2>2, <2>3 DEF StepKeeps
<1>3. CASE Answer(r)
  <2>1. SurfaceTypeOK' /\ OnlyOf(r)
    BY <1>1, <1>3 DEF Answer, SurfaceTypeOK, OnlyOf, ToolState, BeginState, RunState
  <2>2. RequestInv(r)'
    BY <1>1, <1>3 DEF Answer, SurfaceTypeOK, RequestInv, RowKnown, Together, VerdictFirst, LateStarts, Searching
  <2>3. VerdictKept(r)
    BY <1>3 DEF Answer, VerdictKept
  <2> QED BY <2>1, <2>2, <2>3 DEF StepKeeps
<1>4. CASE MarkCancelled(r)
  <2>1. known[r] \in BOOLEAN /\ (known[r] => row[r] # NoRow /\ row[r].judge \in JudgeStatus)
    BY <1>1 DEF RequestInv, RowKnown, SurfaceTypeOK, RowState
  <2>2. Write(r, known[r], "cancelled", "cancelled", row[r].judge)
    BY <1>4 DEF MarkCancelled
  <2>3. /\ row' \in [Request -> RowState \cup {NoRow}] /\ lost' \subseteq Request
        /\ lost \subseteq lost'
        /\ \A q \in Request \ {r} : row'[q] = row[q] /\ (q \in lost' <=> q \in lost)
        /\ row'[r] = NoRow <=> row[r] = NoRow
        /\ row[r].status # "running" => row'[r] = row[r]
        /\ VerdictKept(r)
    BY <1>1, <2>1, <2>2, WriteEffect DEF InvocationStatus, StageName
  <2>4. SurfaceTypeOK' /\ OnlyOf(r)
    BY <1>1, <1>4, <2>3 DEF MarkCancelled, SurfaceTypeOK, OnlyOf, ToolState
  <2>5. RequestInv(r)'
    BY <1>1, <1>4, <2>3 DEF MarkCancelled, SurfaceTypeOK, RequestInv, RowKnown, Together, VerdictFirst, LateStarts, Searching
  <2> QED BY <2>3, <2>4, <2>5 DEF StepKeeps
<1> QED BY <1>2, <1>3, <1>4 DEF EventLoop

LEMMA ClientKeeps ==
    ASSUME SurfaceInv, NEW r \in Request, Client(r)
    PROVE  StepKeeps(r)
<1>1. SurfaceTypeOK /\ RequestInv(r)
  BY DEF SurfaceInv
<1>2. CASE CallSurface(r)
  <2>1. SurfaceTypeOK' /\ OnlyOf(r)
    BY <1>1, <1>2 DEF CallSurface, SurfaceTypeOK, OnlyOf, ToolState, BeginState, RunState
  <2>2. RequestInv(r)'
    <3>1. runner[r] = "no" /\ UNCHANGED <<runner, event, late>>
      BY <1>1, <1>2 DEF CallSurface, RequestInv, Together
    <3>2. left'[r] \in 1..MaxTypes
      BY <1>1, <1>2 DEF CallSurface, SurfaceTypeOK
    <3>3. LateStarts(r)'
      BY <1>1, <3>1, <3>2, InTimeIsEarly, SurfaceAssumption DEF RequestInv, LateStarts, Searching
    <3>4. RowKnown(r)' /\ Together(r)' /\ VerdictFirst(r)'
      BY <1>1, <1>2, <3>1 DEF CallSurface, SurfaceTypeOK, RequestInv, RowKnown, Together, VerdictFirst
    <3> QED BY <3>3, <3>4 DEF RequestInv
  <2>3. VerdictKept(r)
    BY <1>2 DEF CallSurface, VerdictKept
  <2> QED BY <2>1, <2>2, <2>3 DEF StepKeeps
<1>3. CASE EmptySeed(r)
  <2>1. SurfaceTypeOK' /\ OnlyOf(r)
    BY <1>1, <1>3 DEF EmptySeed, SurfaceTypeOK, OnlyOf, ToolState, BeginState, RunState
  <2>2. RequestInv(r)'
    BY <1>1, <1>3 DEF EmptySeed, SurfaceTypeOK, RequestInv, RowKnown, Together, VerdictFirst, LateStarts, Searching
  <2>3. VerdictKept(r)
    BY <1>3 DEF EmptySeed, VerdictKept
  <2> QED BY <2>1, <2>2, <2>3 DEF StepKeeps
<1>4. CASE CancelBeginning(r)
  <2>1. SurfaceTypeOK' /\ OnlyOf(r)
    BY <1>1, <1>4 DEF CancelBeginning, SurfaceTypeOK, OnlyOf, ToolState, BeginState, RunState
  <2>2. RequestInv(r)'
    BY <1>1, <1>4 DEF CancelBeginning, SurfaceTypeOK, RequestInv, RowKnown, Together, VerdictFirst, LateStarts, Searching
  <2>3. VerdictKept(r)
    BY <1>4 DEF CancelBeginning, VerdictKept
  <2> QED BY <2>1, <2>2, <2>3 DEF StepKeeps
<1>5. CASE CancelRunning(r)
  <2> DEFINE new == [found |-> runner[r], searches |-> late[r].searches, judges |-> late[r].judges]
  <2>4. late[r] \in Late /\ runner[r] \in RunState \ {"no"}
    BY <1>1, <1>5 DEF CancelRunning, SurfaceTypeOK, RequestInv, Together
  <2>5. new \in Late /\ [late[r] EXCEPT !.found = runner[r]] = new
    BY <2>4 DEF Late
  <2>6. late' = [late EXCEPT ![r] = new]
    BY <1>5, <2>5 DEF CancelRunning
  <2>7. new.found = runner[r] /\ new.searches = late[r].searches /\ new.judges = late[r].judges
    OBVIOUS
  <2> HIDE DEF new
  <2>1. SurfaceTypeOK' /\ OnlyOf(r)
    BY <1>1, <1>5, <2>5, <2>6 DEF CancelRunning, SurfaceTypeOK, OnlyOf, ToolState
  <2>8. /\ late'[r] = new /\ event'[r] /\ ~event[r]
        /\ UNCHANGED <<runner, left>>
    BY <1>1, <1>5, <2>6 DEF CancelRunning, SurfaceTypeOK, RequestInv, Together
  <2>9. LateStarts(r)'
    BY <1>1, <2>4, <2>7, <2>8, InTimeIsEarly DEF RequestInv, LateStarts, Searching
  <2>10. RowKnown(r)' /\ Together(r)' /\ VerdictFirst(r)'
    BY <1>1, <1>5 DEF CancelRunning, SurfaceTypeOK, RequestInv, RowKnown, Together, VerdictFirst
  <2>2. RequestInv(r)'
    BY <2>9, <2>10 DEF RequestInv
  <2>3. VerdictKept(r)
    BY <1>5 DEF CancelRunning, VerdictKept
  <2> QED BY <2>1, <2>2, <2>3 DEF StepKeeps
<1>6. CASE Feedback(r)
  <2>1. row[r] \in RowState
    BY <1>1, <1>6 DEF Feedback, RequestInv, RowKnown, SurfaceTypeOK
  <2>2. row' = [row EXCEPT ![r] = [row[r] EXCEPT !.ack = TRUE]]
    BY <1>6 DEF Feedback
  <2>3. [row[r] EXCEPT !.ack = TRUE] \in RowState /\ [row[r] EXCEPT !.ack = TRUE] # NoRow
    BY <2>1 DEF RowState, NoRow
  <2>4. /\ row' \in [Request -> RowState \cup {NoRow}]
        /\ \A q \in Request \ {r} : row'[q] = row[q]
        /\ row'[r] # NoRow /\ row'[r].status = row[r].status
        /\ row'[r].stage = row[r].stage /\ row'[r].judge = row[r].judge
    BY <1>1, <2>1, <2>2, <2>3 DEF SurfaceTypeOK, RowState
  <2>5. SurfaceTypeOK' /\ OnlyOf(r) /\ VerdictKept(r)
    BY <1>1, <1>6, <2>4 DEF Feedback, SurfaceTypeOK, OnlyOf, VerdictKept
  <2>6. RequestInv(r)'
    BY <1>1, <1>6, <2>4 DEF Feedback, RequestInv, RowKnown, Together, VerdictFirst, LateStarts, Searching
  <2> QED BY <2>5, <2>6 DEF StepKeeps
<1> QED BY <1>2, <1>3, <1>4, <1>5, <1>6 DEF Client

LEMMA CrashKeeps ==
    ASSUME SurfaceInv, ServerCrash
    PROVE  SurfaceInv' /\ \A r \in Request : VerdictKept(r)
<1>1. SurfaceTypeOK
  BY DEF SurfaceInv
<1>2. SurfaceTypeOK'
  BY <1>1 DEF ServerCrash, SurfaceTypeOK, ToolState, BeginState, RunState
<1>3. ASSUME NEW r \in Request PROVE RequestInv(r)' /\ VerdictKept(r)
  <2>1. RequestInv(r)
    BY DEF SurfaceInv
  <2>2. /\ tool'[r] = IF tool[r] \in {"beginning", "running", "marking"} THEN "dead" ELSE tool[r]
        /\ beginner'[r] = IF beginner[r] = "going" THEN "dead" ELSE beginner[r]
        /\ runner'[r] = IF runner[r] \in {"no", "over", "raised", "escaped"}
                        THEN runner[r] ELSE "dead"
        /\ UNCHANGED <<known, mine, left, event, row, inserted, late, lost>>
    BY DEF ServerCrash
  <2>3. RequestInv(r)'
    BY <1>1, <2>1, <2>2 DEF SurfaceTypeOK, RequestInv, RowKnown, Together, VerdictFirst, LateStarts, Searching
  <2> QED BY <2>2, <2>3 DEF VerdictKept
<1> QED BY <1>2, <1>3 DEF SurfaceInv

LEMMA SurfaceStep ==
    SurfaceInv /\ [SurfaceNext]_surfaceVars => SurfaceInv' /\ \A r \in Request : VerdictKept(r)
<1>1. SurfaceInv /\ UNCHANGED surfaceVars => SurfaceInv' /\ \A r \in Request : VerdictKept(r)
  BY DEF surfaceVars, SurfaceInv, SurfaceTypeOK, RequestInv, RowKnown, Together, VerdictFirst, LateStarts, VerdictKept
<1>2. ASSUME SurfaceInv, NEW r \in Request, Threads(r) \/ EventLoop(r) \/ Client(r)
      PROVE  SurfaceInv' /\ \A q \in Request : VerdictKept(q)
  BY <1>2, ThreadKeeps, EventLoopKeeps, ClientKeeps, OthersKeep
<1> QED BY <1>1, <1>2, CrashKeeps DEF SurfaceNext

-----------------------------------------------------------------------------
\* Types of the coroutine, its threads and the row.
THEOREM SurfaceTypeCorrect == SurfaceSpec => []SurfaceTypeOK
<1>1. SurfaceInv => SurfaceTypeOK
  BY DEF SurfaceInv
<1> QED BY SurfaceInitially, SurfaceStep, <1>1, PTL DEF SurfaceSpec

\* Two threads may insert the row of a request, and one of them does at most.
THEOREM RowsAreSingle == SurfaceSpec => []OneRowPerRequest
<1>1. SurfaceInv => OneRowPerRequest
  BY DEF SurfaceInv, RequestInv, RowKnown, OneRowPerRequest
<1> QED BY SurfaceInitially, SurfaceStep, <1>1, PTL DEF SurfaceSpec

\* A cancellation after the result and the result of an abandoned thread leave the
\* verdict that was first.
THEOREM VerdictsStand == SurfaceSpec => FirstVerdictStands
<1>1. SurfaceInv /\ [SurfaceNext]_surfaceVars =>
        [\A r \in Request : row[r].status \in InvocationStatus \ {"running"} =>
            /\ row'[r].status = row[r].status
            /\ row'[r].stage = row[r].stage
            /\ row'[r].judge = row[r].judge]_row
  BY SurfaceStep DEF VerdictKept, InvocationStatus, Terminal
<1> QED BY SurfaceInitially, SurfaceStep, <1>1, PTL DEF SurfaceSpec, FirstVerdictStands

\* A row that stays in 'running' has one of the four causes.
THEOREM OrphansAreExplained == SurfaceSpec => []OrphanRowsExplained
<1>1. SurfaceInv => OrphanRowsExplained
  <2>1. NoRow.status # "running"
    BY DEF NoRow
  <2> QED BY <2>1 DEF SurfaceInv, RequestInv, RowKnown, Together, VerdictFirst, LateStarts, OrphanRowsExplained, Settled
<1> QED BY SurfaceInitially, SurfaceStep, <1>1, PTL DEF SurfaceSpec

\* What is begun for a client that has gone: the searches that were left or one claude
\* process, and never both.
THEOREM LateWorkIsBounded == SurfaceSpec => []BoundedLateWork
<1>1. ASSUME SurfaceInv PROVE BoundedLateWork
  <2>1. ASSUME NEW r \in Request
        PROVE  LateStarts(r) /\ late[r] \in Late /\ left[r] \in 0..MaxTypes /\ MaxTypes \in Nat
    BY <1>1, <2>1, SurfaceAssumption DEF SurfaceInv, SurfaceTypeOK, RequestInv
  <2> QED BY <2>1 DEF LateStarts, Late, BoundedLateWork
<1> QED BY SurfaceInitially, SurfaceStep, <1>1, PTL DEF SurfaceSpec
=============================================================================
