--------------------------- MODULE IngestPromise ---------------------------
(***************************************************************************)
(* What an ingestion handler promises of one source, however many jobs ask *)
(* for it and however its runs end: at most one document, inserted and     *)
(* embedded by the same job in that order and never taken back, and no job *)
(* that reports success before there is one.                               *)
(***************************************************************************)
CONSTANTS Job, Nobody

VARIABLES
    request,    \* the state of each job
    author,     \* the job that inserted the source's document
    embedded    \* whether its chunks are searchable

promiseVars == <<request, author, embedded>>

PromiseInit ==
    /\ request = [j \in Job |-> "new"]
    /\ author = Nobody
    /\ embedded = FALSE

\* Submitted, claimed, requeued or given up.
Move(j) ==
    /\ \E step \in {<<"new", "queued">>, <<"queued", "running">>,
                    <<"running", "queued">>, <<"running", "failed">>} :
        /\ request[j] = step[1]
        /\ request' = [request EXCEPT ![j] = step[2]]
    /\ UNCHANGED <<author, embedded>>

Insert(j) ==
    /\ request[j] = "running" /\ author = Nobody
    /\ author' = j
    /\ UNCHANGED <<request, embedded>>

EmbedOwn(j) ==
    /\ request[j] = "running" /\ author = j /\ ~embedded
    /\ embedded' = TRUE
    /\ UNCHANGED <<request, author>>

Succeed(j) ==
    /\ request[j] = "running" /\ author # Nobody
    /\ request' = [request EXCEPT ![j] = "complete"]
    /\ UNCHANGED <<author, embedded>>

PromiseNext == \E j \in Job : Move(j) \/ Insert(j) \/ EmbedOwn(j) \/ Succeed(j)

PromiseSpec == PromiseInit /\ [][PromiseNext]_promiseVars
=============================================================================
