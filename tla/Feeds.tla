------------------------------- MODULE Feeds -------------------------------
(***************************************************************************)
(* Bluesky posts and Kindle highlights: handle_bluesky_ingest and          *)
(* handle_kindle_ingest, each called by a backfill script of its own       *)
(* process and by the worker for a job, perhaps at once. A run fetches     *)
(* what there is, the newest first, and goes through it item by item;      *)
(* nothing says how far the last one came. Two items may have one text,    *)
(* and the documents table allows each text once.                          *)
(***************************************************************************)
EXTENDS Naturals, Sequences, FiniteSets

CONSTANTS
    MaxItems,       \* bound: posts, known by their URI, or highlights, by book and location
    Wording,        \* what an item may say
    MaxChanges,     \* bound: highlights and notes edited on the Kindle
    MaxFaults       \* bound: fetches and embeddings that fail, deaths

ASSUME FeedAssumption == MaxItems \in Nat /\ MaxChanges \in Nat /\ MaxFaults \in Nat

VARIABLES
    service,        \* whose handler this is about
    says,           \* the text of each item
    timeline,       \* the items that were published, newest first
    snippets,       \* the documents rows of the service
    run,            \* what the script and the job do
    changes, faults \* how often so far

feedVars == <<service, says, timeline, snippets, run, changes, faults>>

Item == 1 .. MaxItems
Runner == {"backfill", "job"}
NotRunning == [pc |-> "idle"]

FeedInit ==
    /\ service \in {"bluesky", "kindle"}
    /\ says \in [Item -> Wording]
    /\ timeline = <<>> /\ snippets = {}
    /\ run = [r \in Runner |-> NotRunning]
    /\ changes = 0 /\ faults = 0

Fault == faults < MaxFaults /\ faults' = faults + 1

\* Items are numbered as they come.
Publish ==
    /\ Len(timeline) < MaxItems
    /\ timeline' = <<Len(timeline) + 1>> \o timeline
    /\ UNCHANGED <<service, says, snippets, run, changes, faults>>

\* The reader edits a highlight or its note. Posts cannot be edited.
ChangeHighlight(i) ==
    /\ service = "kindle" /\ changes < MaxChanges /\ changes' = changes + 1
    /\ \E w \in Wording \ {says[i]} : says' = [says EXCEPT ![i] = w]
    /\ UNCHANGED <<service, timeline, snippets, run, faults>>

-----------------------------------------------------------------------------
Goes(r, left) ==
    run' = [run EXCEPT ![r] = IF left = <<>> THEN NotRunning ELSE [pc |-> "look", left |-> left]]

Now(i) == [id |-> i, text |-> says[i]]
First(r) == Head(run[r].left)
Others(r) == Tail(run[r].left)

\* The script fetches everything; a job may ask for what is newer than a moment, for one
\* post, or for the highlights of one book.
Fetch(r) ==
    /\ run[r] = NotRunning
    /\ \/ Goes(r, [n \in DOMAIN timeline |-> Now(timeline[n])])
       \/ r = "job" /\ \E k \in DOMAIN timeline : Goes(r, [n \in 1 .. k |-> Now(timeline[n])])
       \/ r = "job" /\ \E k \in DOMAIN timeline : Goes(r, <<Now(timeline[k])>>)
    /\ UNCHANGED <<service, says, timeline, snippets, changes, faults>>

HasId(i) == \E d \in snippets : d.id = i
HasText(w) == \E d \in snippets : d.text = w

\* Mutant: the look-up is by the id alone, as it was once.
FoundById(item) == HasId(item.id)

\* A highlight is looked up by its id, a post also by the hash of its text.
FoundBefore(item) == HasId(item.id) \/ (service = "bluesky" /\ HasText(item.text))

SkipFound(r) ==
    /\ run[r].pc = "look" /\ FoundBefore(First(r))
    /\ Goes(r, Others(r))
    /\ UNCHANGED <<service, says, timeline, snippets, changes, faults>>

NotFound(r) ==
    /\ run[r].pc = "look" /\ ~FoundBefore(First(r))
    /\ run' = [run EXCEPT ![r].pc = "insert"]
    /\ UNCHANGED <<service, says, timeline, snippets, changes, faults>>

Taken(item) == HasId(item.id) \/ HasText(item.text)

InsertSnippet(r) ==
    /\ run[r].pc = "insert" /\ ~Taken(First(r))
    /\ snippets' = snippets \cup {[id |-> First(r).id, text |-> First(r).text, embedded |-> FALSE]}
    /\ run' = [run EXCEPT ![r].pc = "embed"]
    /\ UNCHANGED <<service, says, timeline, changes, faults>>

\* INSERT OR IGNORE for a highlight; for a post an IntegrityError that ends the run.
InsertRefused(r) ==
    /\ run[r].pc = "insert" /\ Taken(First(r))
    /\ Goes(r, IF service = "kindle" THEN Others(r) ELSE <<>>)
    /\ UNCHANGED <<service, says, timeline, snippets, changes, faults>>

EmbedSnippet(r) ==
    /\ run[r].pc = "embed"
    /\ snippets' = {IF d.id = First(r).id THEN [d EXCEPT !.embedded = TRUE] ELSE d : d \in snippets}
    /\ Goes(r, Others(r))
    /\ UNCHANGED <<service, says, timeline, changes, faults>>

\* Swallowed for a highlight, whose row is failed; for a post the run ends.
EmbedSnippetFails(r) ==
    /\ run[r].pc = "embed" /\ Fault
    /\ Goes(r, IF service = "kindle" THEN Others(r) ELSE <<>>)
    /\ UNCHANGED <<service, says, timeline, snippets, changes>>

\* A rate limit, cookies that expired, a page of another structure, a death.
RunEnds(r) ==
    /\ run[r] # NotRunning /\ Fault
    /\ Goes(r, <<>>)
    /\ UNCHANGED <<service, says, timeline, snippets, changes>>

-----------------------------------------------------------------------------
RunStep(r) ==
    SkipFound(r) \/ NotFound(r) \/ InsertSnippet(r) \/ InsertRefused(r) \/ EmbedSnippet(r)

FeedNext ==
    \/ Publish \/ \E i \in Item : ChangeHighlight(i)
    \/ \E r \in Runner : Fetch(r) \/ RunStep(r) \/ EmbedSnippetFails(r) \/ RunEnds(r)

\* launchd starts the backfill of Bluesky every six hours and that of Kindle every day.
FeedFairness ==
    /\ WF_feedVars(Fetch("backfill"))
    /\ \A r \in Runner : WF_feedVars(RunStep(r))

FeedSpec == FeedInit /\ [][FeedNext]_feedVars /\ FeedFairness

-----------------------------------------------------------------------------
\* Every item has a row in the end, its own or one that says the same: no item stops the
\* runs from getting past it, although a refused insert ends one, and what a run that
\* failed has left to do is done by a later one.
FeedIsStored ==
    <>[](\A n \in DOMAIN timeline : HasId(timeline[n]) \/ HasText(says[timeline[n]]))

\* Refuted: every row is embedded in the end. A row that is there is skipped.
SnippetsAreEmbedded == <>[](\A d \in snippets : d.embedded)

\* Refuted: the row of an item says what the item says in the end.
HighlightsAreCurrent == <>[](\A d \in snippets : d.text = says[d.id])
=============================================================================
