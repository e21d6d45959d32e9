------------------------- MODULE SurfaceInvocation -------------------------
(***************************************************************************)
(* The MCP tool `surface`: one coroutine per request on the server's event *)
(* loop, one thread that inserts the telemetry row, one thread that runs   *)
(* run_surface (embedding, search, judge), and a client that may cancel at *)
(* any await.  Threads are started with abandon_on_cancel: the coroutine   *)
(* leaves and the thread goes on.  All of them meet in one row of          *)
(* surface_invocations, written on a best-effort basis: any write may be   *)
(* lost to an exception that is only logged.                               *)
(***************************************************************************)
EXTENDS Naturals, FiniteSets

CONSTANTS
    Request,
    MaxTypes        \* bound: content types a request may name

ASSUME SurfaceAssumption == MaxTypes \in Nat \ {0}

VARIABLES
    tool,       \* the coroutine _surface_tool of the request
    known,      \* the coroutine's invocation_id is not None
    beginner,   \* the thread in _begin_surface_invocation
    runner,     \* the thread in run_surface
    mine,       \* run_surface's invocation_id is not None
    left,       \* searches run_surface has not begun: one for each type
    attempt,    \* of _invoke_judge
    event,      \* cancel_event: the client has cancelled
    result,     \* what run_surface returned
    row,        \* the request's row of surface_invocations
    inserted,   \* history: rows inserted for the request
    late,       \* history: where the cancellation found run_surface, and the
                \* searches and judges it has begun since
    lost        \* history: requests with a write that was lost

surfaceVars == <<tool, known, beginner, runner, mine, left, attempt, event, result,
                 row, inserted, late, lost>>

ToolState == {"idle", "beginning", "running", "marking", "answered", "raised",
              "cancelled", "dead"}
BeginState == {"no", "going", "done", "failed", "dead"}
RunState == {"no", "begin", "entry", "embedding", "connect", "search", "query", "judge",
             "spawn", "judging", "over", "raised", "escaped", "dead"}
InvocationStatus == {"running", "complete", "failed", "cancelled"}
JudgeStatus == {"not_called", "success", "embedding_failed", "judge_failed",
                "judge_unparseable"}
RowState == [status : InvocationStatus, judge : JudgeStatus, ack : BOOLEAN,
             stage : {"embedding", "search", "judge", "complete", "cancelled"}]
NoRow == [status |-> "no row"]
NoResult == "none"
Searching == {"embedding", "connect", "search", "query"}
Late == [found : RunState, searches : Nat, judges : Nat]
InTime == [found |-> "no", searches |-> 0, judges |-> 0]

SurfaceTypeOK ==
    /\ tool \in [Request -> ToolState]
    /\ known \in [Request -> BOOLEAN]
    /\ beginner \in [Request -> BeginState]
    /\ runner \in [Request -> RunState]
    /\ mine \in [Request -> BOOLEAN]
    /\ left \in [Request -> 0..MaxTypes]
    /\ attempt \in [Request -> 1..2]
    /\ event \in [Request -> BOOLEAN]
    /\ result \in [Request -> {NoResult, "complete", "failed", "cancelled"}]
    /\ row \in [Request -> RowState \cup {NoRow}]
    /\ inserted \in [Request -> Nat]
    /\ late \in [Request -> Late]
    /\ lost \subseteq Request

SurfaceInit ==
    /\ tool = [r \in Request |-> "idle"]
    /\ known = [r \in Request |-> FALSE]
    /\ beginner = [r \in Request |-> "no"]
    /\ runner = [r \in Request |-> "no"]
    /\ mine = [r \in Request |-> FALSE]
    /\ left = [r \in Request |-> 0]
    /\ attempt = [r \in Request |-> 1]
    /\ event = [r \in Request |-> FALSE]
    /\ result = [r \in Request |-> NoResult]
    /\ row = [r \in Request |-> NoRow]
    /\ inserted = [r \in Request |-> 0]
    /\ late = [r \in Request |-> InTime]
    /\ lost = {}

-----------------------------------------------------------------------------
(* Writes to the row.                                                      *)

\* _begin_surface_invocation: ok is whether it got to the commit.
Insert(r, ok) ==
    IF ok THEN /\ row' = [row EXCEPT ![r] =
                    [status |-> "running", stage |-> "embedding",
                     judge |-> "not_called", ack |-> FALSE]]
               /\ inserted' = [inserted EXCEPT ![r] = @ + 1]
          ELSE UNCHANGED <<row, inserted>>

\* Mutant: the UPDATE names the row by its id alone.
WriteUnguarded(r, has, status, stage, judge) ==
    \E ok \in BOOLEAN :
        IF ~has THEN ok /\ UNCHANGED <<row, lost>>
        ELSE IF ok
        THEN /\ row' = [row EXCEPT ![r] =
                    [status |-> status, stage |-> stage, judge |-> judge, ack |-> @.ack]]
             /\ UNCHANGED lost
        ELSE lost' = lost \cup {r} /\ UNCHANGED row

\* UPDATE ... WHERE id = ? AND invocation_status = 'running', or no id to name.
Write(r, has, status, stage, judge) ==
    \E ok \in BOOLEAN :
        IF ~has THEN ok /\ UNCHANGED <<row, lost>>
        ELSE IF ok
        THEN /\ row' = IF row[r].status # "running" THEN row
                       ELSE [row EXCEPT ![r] = [status |-> status, stage |-> stage,
                                                judge |-> judge, ack |-> @.ack]]
             /\ UNCHANGED lost
        ELSE lost' = lost \cup {r} /\ UNCHANGED row

-----------------------------------------------------------------------------
(* The coroutine.                                                          *)

\* A request without types is one search, of all of them.
CallSurface(r) ==
    /\ tool[r] = "idle"
    /\ tool' = [tool EXCEPT ![r] = "beginning"]
    /\ beginner' = [beginner EXCEPT ![r] = "going"]
    /\ \E types \in 1..MaxTypes : left' = [left EXCEPT ![r] = types]
    /\ UNCHANGED <<known, runner, mine, attempt, event, result, row, inserted, late, lost>>

EmptySeed(r) ==
    /\ tool[r] = "idle"
    /\ tool' = [tool EXCEPT ![r] = "answered"]
    /\ UNCHANGED <<known, beginner, runner, mine, left, attempt, event, result, row, inserted,
                   late, lost>>

\* Mutant: run_surface is not told the id.
StartRunWithoutId(r) ==
    /\ tool[r] = "beginning"
    /\ beginner[r] \in {"done", "failed"}
    /\ known' = [known EXCEPT ![r] = beginner[r] = "done"]
    /\ tool' = [tool EXCEPT ![r] = "running"]
    /\ runner' = [runner EXCEPT ![r] = "begin"]
    /\ UNCHANGED <<beginner, mine, left, attempt, event, result, row, inserted, late, lost>>

\* The id arrives and the thread of run_surface is started with it; without an
\* id run_surface inserts a row of its own.
StartRun(r) ==
    /\ tool[r] = "beginning"
    /\ beginner[r] \in {"done", "failed"}
    /\ known' = [known EXCEPT ![r] = beginner[r] = "done"]
    /\ mine' = [mine EXCEPT ![r] = beginner[r] = "done"]
    /\ tool' = [tool EXCEPT ![r] = "running"]
    /\ runner' = [runner EXCEPT ![r] = IF beginner[r] = "done" THEN "entry" ELSE "begin"]
    /\ UNCHANGED <<beginner, left, attempt, event, result, row, inserted, late, lost>>

Answer(r) ==
    /\ tool[r] = "running"
    /\ runner[r] \in {"over", "raised", "escaped"}
    /\ tool' = [tool EXCEPT ![r] = IF runner[r] = "over" THEN "answered" ELSE "raised"]
    /\ UNCHANGED <<known, beginner, runner, mine, left, attempt, event, result, row, inserted,
                   late, lost>>

\* Cancelled while the row is being inserted: outside the try.
CancelBeginning(r) ==
    /\ tool[r] = "beginning"
    /\ tool' = [tool EXCEPT ![r] = "cancelled"]
    /\ UNCHANGED <<known, beginner, runner, mine, left, attempt, event, result, row, inserted,
                   late, lost>>

CancelRunning(r) ==
    /\ tool[r] = "running"
    /\ tool' = [tool EXCEPT ![r] = "marking"]
    /\ event' = [event EXCEPT ![r] = TRUE]
    /\ late' = [late EXCEPT ![r].found = runner[r]]
    /\ UNCHANGED <<known, beginner, runner, mine, left, attempt, result, row, inserted, lost>>

\* The shielded _set_surface_stage, then the cancellation is raised again.
MarkCancelled(r) ==
    /\ tool[r] = "marking"
    /\ tool' = [tool EXCEPT ![r] = "cancelled"]
    /\ Write(r, known[r], "cancelled", "cancelled", row[r].judge)
    /\ UNCHANGED <<known, beginner, runner, mine, left, attempt, event, result, inserted, late>>

\* surface_feedback: by the id of the response, whatever the row's status.
Feedback(r) ==
    /\ tool[r] = "answered" /\ known[r] /\ ~row[r].ack
    /\ row' = [row EXCEPT ![r].ack = TRUE]
    /\ UNCHANGED <<tool, known, beginner, runner, mine, left, attempt, event, result, inserted,
                   late, lost>>

-----------------------------------------------------------------------------
(* The threads.                                                            *)

BeginInvocation(r) ==
    /\ beginner[r] = "going"
    /\ \E ok \in BOOLEAN :
        /\ beginner' = [beginner EXCEPT ![r] = IF ok THEN "done" ELSE "failed"]
        /\ Insert(r, ok)
    /\ UNCHANGED <<tool, known, runner, mine, left, attempt, event, result, late, lost>>

RunBegins(r) ==
    /\ runner[r] = "begin"
    /\ runner' = [runner EXCEPT ![r] = "entry"]
    /\ \E ok \in BOOLEAN : mine' = [mine EXCEPT ![r] = ok] /\ Insert(r, ok)
    /\ UNCHANGED <<tool, known, beginner, left, attempt, event, result, late, lost>>

GoOn(r, place) ==
    /\ runner' = [runner EXCEPT ![r] = place]
    /\ UNCHANGED <<tool, known, beginner, mine, left, event, result, inserted>>

\* finish(): the row first, then the return value.
Finish(r, status, stage, judge) ==
    /\ runner' = [runner EXCEPT ![r] = "over"]
    /\ result' = [result EXCEPT ![r] = status]
    /\ Write(r, mine[r], status, stage, judge)
    /\ UNCHANGED <<tool, known, beginner, mine, left, attempt, event, inserted, late>>

CheckEntry(r) ==
    /\ runner[r] = "entry"
    /\ IF event[r] THEN Finish(r, "cancelled", "cancelled", "not_called")
       ELSE GoOn(r, "embedding") /\ UNCHANGED <<attempt, row, late, lost>>

EmbedSeed(r) ==
    /\ runner[r] = "embedding"
    /\ \/ Finish(r, "failed", "embedding", "embedding_failed")
       \/ /\ GoOn(r, "connect") /\ Write(r, mine[r], "running", "search", row[r].judge)
          /\ UNCHANGED <<attempt, late>>

OpenDatabase(r) ==
    /\ runner[r] = "connect"
    /\ GoOn(r, "search") /\ UNCHANGED <<attempt, row, late, lost>>

\* search() of the next type: the event is not looked at before it.
BeginQuery(r) ==
    /\ runner[r] = "search" /\ left[r] > 0
    /\ runner' = [runner EXCEPT ![r] = "query"]
    /\ left' = [left EXCEPT ![r] = @ - 1]
    /\ late' = IF event[r] THEN [late EXCEPT ![r].searches = @ + 1] ELSE late
    /\ UNCHANGED <<tool, known, beginner, mine, attempt, event, result, row, inserted, lost>>

\* The progress handler is called every 1000 steps of the query: a short one
\* ends although the event is set.
QueryEnds(r) ==
    /\ runner[r] = "query"
    /\ GoOn(r, "search") /\ UNCHANGED <<attempt, row, late, lost>>

\* Mutant: an exception of the search is only raised.
SearchErrorUnrecorded(r) ==
    /\ runner[r] \in {"search", "query"}
    /\ GoOn(r, "raised")
    /\ UNCHANGED <<attempt, row, late, lost>>

\* Any other exception: the row is marked failed and the exception goes on.
SearchError(r) ==
    /\ runner[r] \in {"search", "query"}
    /\ GoOn(r, "raised")
    /\ Write(r, mine[r], "failed", "search", row[r].judge)
    /\ UNCHANGED <<attempt, late>>

SearchCancelled(r) ==
    /\ runner[r] = "query" /\ event[r]
    /\ Finish(r, "cancelled", "cancelled", "not_called")

\* In a query, or between two of them.
SearchTimesOut(r) ==
    /\ runner[r] = "query" \/ (runner[r] = "search" /\ left[r] > 0)
    /\ Finish(r, "failed", "search", "not_called")

NoCandidates(r) ==
    /\ runner[r] = "search" /\ left[r] = 0
    /\ Finish(r, "complete", "complete", "not_called")

Candidates(r) ==
    /\ runner[r] = "search" /\ left[r] = 0
    /\ GoOn(r, "judge")
    /\ Write(r, mine[r], "running", "judge", row[r].judge)
    /\ UNCHANGED <<attempt, late>>

\* Mutant: the event is not looked at before claude is started.
CheckJudgeBlind(r) ==
    /\ runner[r] = "judge"
    /\ GoOn(r, "spawn") /\ UNCHANGED <<attempt, row, late, lost>>

CheckJudge(r) ==
    /\ runner[r] = "judge"
    /\ IF event[r] THEN Finish(r, "cancelled", "cancelled", "judge_failed")
       ELSE GoOn(r, "spawn") /\ UNCHANGED <<attempt, row, late, lost>>

SpawnJudge(r) ==
    /\ runner[r] = "spawn"
    /\ GoOn(r, "judging")
    /\ late' = IF event[r] THEN [late EXCEPT ![r].judges = @ + 1] ELSE late
    /\ UNCHANGED <<attempt, row, lost>>

\* Exit code, timeout, usage limit: the event is not looked at.
JudgeFails(r) ==
    /\ runner[r] \in {"spawn", "judging"}
    /\ Finish(r, "failed", "judge", "judge_failed")

\* Mutant: the parse is retried until it succeeds.
JudgeUnparseableForever(r) ==
    /\ runner[r] = "judging" /\ ~event[r]
    /\ GoOn(r, "judge") /\ UNCHANGED <<attempt, row, late, lost>>

JudgeUnparseable(r) ==
    /\ runner[r] = "judging" /\ ~event[r]
    /\ IF attempt[r] = 2
       THEN Finish(r, "failed", "judge", "judge_unparseable")
       ELSE /\ GoOn(r, "judge")
            /\ attempt' = [attempt EXCEPT ![r] = 2]
            /\ UNCHANGED <<row, late, lost>>

JudgeParsed(r) ==
    /\ runner[r] = "judging"
    /\ IF event[r] THEN Finish(r, "cancelled", "cancelled", "judge_failed")
       ELSE Finish(r, "complete", "complete", "success")

\* What nothing catches: the database cannot be opened for the search, the
\* judge's parser cannot be loaded.
RunRaises(r) ==
    /\ runner[r] = "connect" \/ (runner[r] = "judge" /\ attempt[r] = 1)
    /\ GoOn(r, "escaped") /\ UNCHANGED <<attempt, row, late, lost>>

\* The server's process dies.
ServerCrash ==
    /\ tool' = [r \in Request |-> IF tool[r] \in {"beginning", "running", "marking"}
                                  THEN "dead" ELSE tool[r]]
    /\ beginner' = [r \in Request |-> IF beginner[r] = "going" THEN "dead" ELSE beginner[r]]
    /\ runner' = [r \in Request |-> IF runner[r] \in {"no", "over", "raised", "escaped"}
                                    THEN runner[r] ELSE "dead"]
    /\ UNCHANGED <<known, mine, left, attempt, event, result, row, inserted, late, lost>>

-----------------------------------------------------------------------------
Search(r) ==
    OpenDatabase(r) \/ BeginQuery(r) \/ QueryEnds(r) \/ SearchError(r) \/ SearchCancelled(r)
    \/ SearchTimesOut(r) \/ NoCandidates(r) \/ Candidates(r)

Judge(r) ==
    CheckJudge(r) \/ SpawnJudge(r) \/ JudgeFails(r) \/ JudgeUnparseable(r)
    \/ JudgeParsed(r) \/ RunRaises(r)

Threads(r) ==
    BeginInvocation(r) \/ RunBegins(r) \/ CheckEntry(r) \/ EmbedSeed(r) \/ Search(r) \/ Judge(r)

EventLoop(r) == StartRun(r) \/ Answer(r) \/ MarkCancelled(r)

Client(r) ==
    CallSurface(r) \/ EmptySeed(r) \/ CancelBeginning(r) \/ CancelRunning(r) \/ Feedback(r)

SurfaceNext ==
    \/ \E r \in Request : Threads(r) \/ EventLoop(r) \/ Client(r)
    \/ ServerCrash

SurfaceSpec == SurfaceInit /\ [][SurfaceNext]_surfaceVars

\* Threads run: every wait of theirs has a timeout (embedding, search, judge,
\* SQLite's busy handler).  The event loop runs.  The client need not do anything.
SurfaceFairSpec ==
    /\ SurfaceSpec
    /\ \A r \in Request : WF_surfaceVars(Threads(r)) /\ WF_surfaceVars(EventLoop(r))

-----------------------------------------------------------------------------
\* A request has one row at most, although two threads may insert it and the
\* first may fail or be abandoned.
OneRowPerRequest == \A r \in Request : inserted[r] <= 1

\* The row's first terminal status is its last: neither a cancellation after
\* the result nor the result of an abandoned thread rewrites history.
FirstVerdictStands ==
    [][\A r \in Request : row[r].status \in InvocationStatus \ {"running"} =>
            /\ row'[r].status = row[r].status
            /\ row'[r].stage = row[r].stage
            /\ row'[r].judge = row[r].judge]_row

\* Everything about the request is over.
Settled(r) ==
    /\ tool[r] \in {"answered", "raised", "cancelled", "dead"}
    /\ beginner[r] # "going"
    /\ runner[r] \in {"no", "over", "raised", "escaped", "dead"}

\* A row left in 'running' for good has one of four causes: a write that was
\* lost, a dead server, an exception raised where nothing catches it, a
\* cancellation before the id had arrived, and nothing else.
OrphanRowsExplained ==
    \A r \in Request : Settled(r) /\ row[r].status = "running" =>
        \/ r \in lost
        \/ tool[r] = "dead" \/ beginner[r] = "dead" \/ runner[r] = "dead"
        \/ runner[r] = "escaped"
        \/ tool[r] = "cancelled" /\ runner[r] = "no"

\* Where the cancellation finds the thread decides what it still begins for a
\* client that has gone: the searches that were left, or the one claude process
\* it was about to start, or nothing; never a search and then the judge.
BoundedLateWork ==
    \A r \in Request :
        /\ late[r].searches > 0 => late[r].found \in Searching /\ late[r].searches <= MaxTypes
        /\ late[r].judges > 0 => late[r].found = "spawn" /\ late[r].judges = 1

\* "When set during KNN work, raises SearchCancelledError" (search, of its
\* cancel_event): so the search it comes in would be the last.
OneSearchIsLate == \A r \in Request : late[r].searches <= 1

\* Every request is answered, even if its row never is.
CallEnds ==
    \A r \in Request : tool[r] = "beginning" ~>
        tool[r] \in {"answered", "raised", "cancelled", "dead"} /\ Settled(r)

\* "The response includes ``invocation_id``; pass it to ``surface_feedback``":
\* not when the row was inserted by run_surface itself.
ResponseNamesRow ==
    \A r \in Request : tool[r] = "answered" /\ row[r] # NoRow => known[r]

\* "surface tool records client cancellation", provided no write is lost and
\* nobody is still at work.
CancellationRecorded ==
    \A r \in Request : Settled(r) /\ tool[r] = "cancelled" /\ r \notin lost
        /\ runner[r] # "dead" => row[r].status # "running"
=============================================================================
