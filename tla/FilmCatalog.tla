---------------------------- MODULE FilmCatalog ----------------------------
(***************************************************************************)
(* Films and series on an external drive: video_metadata_scan.py submits a *)
(* job for every entry whose row has no plot, _handle_video asks TMDB for  *)
(* the details of its title and writes them into the row. The TMDB client  *)
(* gives None for an error as it does for a title it does not know.        *)
(***************************************************************************)
EXTENDS Naturals, Sequences, SequencesExt

CONSTANTS
    Entry,          \* the directories and files of the drive
    Tmdb,           \* what TMDB has of each: "plot", "plain" (details without one), "none"
    Unnamed,        \* the entries whose name yields no title
    MaxOutages      \* bound: answers that fail, embeddings that fail, deaths

ASSUME FilmAssumption ==
    /\ Tmdb \in [Entry -> {"plot", "plain", "none"}]
    /\ Unnamed \subseteq Entry /\ MaxOutages \in Nat

VARIABLES
    films,          \* the documents row of each entry: its details and what is embedded
    orders,         \* the entries of the jobs in flight, the oldest first
    usher,          \* what the scan does
    critic,         \* what the worker does
    outages         \* how much went wrong so far

filmVars == <<films, orders, usher, critic, outages>>

NoRow == [details |-> "no row", chunks |-> "nothing"]
Off == [pc |-> "off"]
OnItsWay(left) == [pc |-> "look", left |-> left]

FilmInit ==
    /\ films = [e \in Entry |-> NoRow]
    /\ orders = <<>> /\ usher = OnItsWay({}) /\ critic = Off
    /\ outages = 0

Outage == outages < MaxOutages /\ outages' = outages + 1

HasRow(e) == films[e] # NoRow

\* Mutant: an entry with a row is done.
IsEnrichedOnceThere(e) == HasRow(e)

\* plot IS NOT NULL.
IsEnriched(e) == films[e].details = "plot"

StartScan ==
    /\ usher = OnItsWay({})
    /\ usher' = OnItsWay(Entry)
    /\ UNCHANGED <<films, orders, critic, outages>>

LookAt(e) ==
    /\ usher.pc = "look" /\ e \in usher.left
    /\ usher' = IF IsEnriched(e) THEN OnItsWay(usher.left \ {e})
                ELSE [pc |-> "submit", entry |-> e, left |-> usher.left \ {e}]
    /\ UNCHANGED <<films, orders, critic, outages>>

\* Unless a queued or running job has the path.
SubmitEntry ==
    /\ usher.pc = "submit"
    /\ orders' = IF usher.entry \in ToSet(orders) THEN orders ELSE Append(orders, usher.entry)
    /\ usher' = OnItsWay(usher.left)
    /\ UNCHANGED <<films, critic, outages>>

-----------------------------------------------------------------------------
\* The oldest job is the one at work.
JobOver == orders' = Tail(orders)
Wanted == Head(orders)

\* A row that has its plot is left alone; a name without a title fails the job.
RejectEntry ==
    /\ critic = Off /\ orders # <<>>
    /\ IsEnriched(Wanted) \/ Wanted \in Unnamed
    /\ JobOver
    /\ UNCHANGED <<films, usher, critic, outages>>

AskTmdb ==
    /\ critic = Off /\ orders # <<>>
    /\ ~IsEnriched(Wanted) /\ Wanted \notin Unnamed
    /\ \/ critic' = [pc |-> "store", details |-> Tmdb[Wanted]] /\ UNCHANGED outages
       \/ critic' = [pc |-> "store", details |-> "none"] /\ Outage
    /\ UNCHANGED <<films, orders, usher>>

\* Inserted, or every column of the row written over.
StoreDetails ==
    /\ critic.pc = "store"
    /\ films' = [films EXCEPT ![Wanted].details = critic.details]
    /\ critic' = [critic EXCEPT !.pc = "embed"]
    /\ UNCHANGED <<orders, usher, outages>>

\* The plot, or a sentence made of the other columns. A document that has chunks keeps
\* them.
EmbedPlot ==
    /\ critic.pc = "embed"
    /\ films' = [films EXCEPT ![Wanted].chunks =
                    IF @ # "nothing" THEN @
                    ELSE IF critic.details = "plot" THEN "plot" ELSE "fallback"]
    /\ critic' = Off /\ JobOver
    /\ UNCHANGED <<usher, outages>>

\* Swallowed: the job is complete.
EmbedPlotFails ==
    /\ critic.pc = "embed" /\ Outage
    /\ critic' = Off /\ JobOver
    /\ UNCHANGED <<films, usher>>

\* The drive is not mounted, the worker dies: the job is failed, sooner or later.
FilmJobFails ==
    /\ critic # Off /\ Outage
    /\ critic' = Off /\ JobOver
    /\ UNCHANGED <<films, usher>>

-----------------------------------------------------------------------------
Ushering == StartScan \/ SubmitEntry \/ \E e \in Entry : LookAt(e)
Reviewing == RejectEntry \/ AskTmdb \/ StoreDetails \/ EmbedPlot

FilmNext == Ushering \/ Reviewing \/ EmbedPlotFails \/ FilmJobFails

\* launchd starts the scan every night, and it goes over every entry; the worker goes on.
FilmFairness == WF_filmVars(Ushering) /\ WF_filmVars(Reviewing)

FilmSpec == FilmInit /\ [][FilmNext]_filmVars /\ FilmFairness

-----------------------------------------------------------------------------
\* In the end every entry with a title has the details TMDB has: those an outage kept
\* away, and those a run during an outage has written over with nothing.
FilmsAreCatalogued == <>[](\A e \in Entry \ Unnamed : films[e].details = Tmdb[e])

\* Refuted: a plot that is there is embedded in the end. What was embedded first stays.
PlotIsEmbedded == <>[](\A e \in Entry : films[e].details = "plot" => films[e].chunks = "plot")
=============================================================================
