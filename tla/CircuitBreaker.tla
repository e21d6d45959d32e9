--------------------------- MODULE CircuitBreaker ---------------------------
(***************************************************************************)
(* The circuit breaker around the calls to Ollama (embedding.py): one      *)
(* module-level record per process, shared by the process's threads and    *)
(* locked only while it is read or written, never during the HTTP request. *)
(* The MCP server calls embed() from its search and surface threads, the   *)
(* worker from its one polling thread.                                     *)
(*                                                                         *)
(* A caller is one thread inside _embed_one.  The time since opened_at     *)
(* saturates at CoolDown and consecutive_failures at FailureThreshold: the *)
(* code tells nothing beyond them apart.                                   *)
(***************************************************************************)
EXTENDS Naturals, FiniteSets

CONSTANTS
    Caller,             \* threads that call embed()
    FailureThreshold,   \* _FAILURE_THRESHOLD
    CoolDown,           \* _COOL_DOWN_SECONDS
    MaxRetries          \* _MAX_RETRIES

ASSUME BreakerAssumption ==
    /\ FailureThreshold \in Nat \ {0}
    /\ CoolDown \in Nat
    /\ MaxRetries \in Nat

VARIABLES
    circuit,    \* the module-level _circuit
    call,       \* where each thread is in _embed_one
    up          \* whether Ollama answers

breakerVars == <<circuit, call, up>>

Circuit == [state : {"closed", "open", "half_open"},
            failures : 0..FailureThreshold, since : 0..CoolDown]
Closed == [state |-> "closed", failures |-> 0, since |-> 0]

\* `probe` records that the guard let the call in to try a recovery.
Call == [pc : {"out", "posting"}, tries : 0..MaxRetries, probe : BOOLEAN]
Out == [pc |-> "out", tries |-> 0, probe |-> FALSE]

BreakerTypeOK ==
    /\ circuit \in Circuit
    /\ call \in [Caller -> Call]
    /\ up \in BOOLEAN

BreakerInit ==
    /\ circuit = Closed
    /\ call = [c \in Caller |-> Out]
    /\ up \in BOOLEAN

-----------------------------------------------------------------------------
CoolingDown == circuit.state = "open" /\ circuit.since < CoolDown

\* _before_call lets the thread in; an open circuit that has cooled down turns
\* half open.
BeforeCall(c) ==
    /\ call[c].pc = "out"
    /\ ~CoolingDown
    /\ circuit' = [circuit EXCEPT !.state =
                      IF @ = "open" THEN "half_open" ELSE @]
    /\ call' = [call EXCEPT ![c] = [pc |-> "posting", tries |-> 0,
                                    probe |-> circuit.state # "closed"]]
    /\ UNCHANGED up

\* Mutant: the failures counted so far survive a success.
AfterSuccessKeepsCount == circuit' = [circuit EXCEPT !.state = "closed", !.since = 0]

\* Mutant: a success clears the count but leaves the state.
AfterSuccessKeepsState == circuit' = [circuit EXCEPT !.failures = 0, !.since = 0]

AfterSuccess == circuit' = Closed

AfterFailure ==
    LET n == IF circuit.failures < FailureThreshold
             THEN circuit.failures + 1 ELSE FailureThreshold
    IN circuit' = IF n >= FailureThreshold
                  THEN [state |-> "open", failures |-> n, since |-> 0]
                  ELSE [circuit EXCEPT !.failures = n]

\* A 2xx answer with a JSON body; the dimension check comes after it.
PostSucceeds(c) ==
    /\ call[c].pc = "posting"
    /\ up
    /\ AfterSuccess
    /\ call' = [call EXCEPT ![c] = Out]
    /\ UNCHANGED up

\* A transport error, a timeout or an error status, with a retry left.
PostRetries(c) ==
    /\ call[c].pc = "posting"
    /\ ~up
    /\ call[c].tries < MaxRetries
    /\ call' = [call EXCEPT ![c].tries = @ + 1]
    /\ UNCHANGED <<circuit, up>>

PostFails(c) ==
    /\ call[c].pc = "posting"
    /\ ~up
    /\ call[c].tries = MaxRetries
    /\ AfterFailure
    /\ call' = [call EXCEPT ![c] = Out]
    /\ UNCHANGED up

\* A 2xx answer whose body is not JSON raises before _after_success, and is not
\* an httpx error: the breaker hears of neither a success nor a failure.
PostGarbled(c) ==
    /\ call[c].pc = "posting"
    /\ up
    /\ call' = [call EXCEPT ![c] = Out]
    /\ UNCHANGED <<circuit, up>>

Elapse ==
    /\ CoolingDown
    /\ circuit' = [circuit EXCEPT !.since = @ + 1]
    /\ UNCHANGED <<call, up>>

OllamaChanges ==
    /\ up' = ~up
    /\ UNCHANGED <<circuit, call>>

BreakerNext ==
    \/ \E c \in Caller : \/ BeforeCall(c) \/ PostSucceeds(c) \/ PostRetries(c)
                         \/ PostFails(c) \/ PostGarbled(c)
    \/ Elapse
    \/ OllamaChanges

BreakerSpec == BreakerInit /\ [][BreakerNext]_breakerVars

\* Time passes; texts to embed keep coming (the worker requeues the jobs it
\* could not embed); an Ollama that is up does not garble every answer.
BreakerFairness ==
    /\ WF_breakerVars(Elapse)
    /\ \A c \in Caller : WF_breakerVars(BeforeCall(c)) /\ SF_breakerVars(PostSucceeds(c))

FairBreakerSpec == BreakerSpec /\ BreakerFairness

-----------------------------------------------------------------------------
\* The state and the count never drift apart, however late the answers of other
\* threads arrive: the breaker is closed exactly while fewer than the threshold
\* of failures have been counted.  This is what makes one failed probe enough
\* to open a half-open circuit again.
ClosedBelowThreshold ==
    circuit.state = "closed" <=> circuit.failures < FailureThreshold

\* When Ollama is back for good the breaker closes for good, even if a probe got
\* no usable answer or a late failure restarted the cool-down.
Heals == <>[]up => <>[](circuit.state = "closed")

\* "at which point a single trial call probes whether Ollama is back" (the
\* module's docstring): half open lets every thread in.
SingleTrialCall == Cardinality({c \in Caller : call[c].probe}) <= 1
=============================================================================
