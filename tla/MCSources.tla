----------------------------- MODULE MCSources -----------------------------
(***************************************************************************)
(* The sources that scans and handlers go back to, side by side: books     *)
(* that are heard and read, the books folder, a therapy page, two feeds,   *)
(* a drive of films, and the profile. They share no row, so a behaviour is *)
(* one of a single source while the others are done.                       *)
(***************************************************************************)
EXTENDS BookCatalog, Library, Therapy, Feeds, FilmCatalog, Profile

-----------------------------------------------------------------------------
(* BookCatalog.                                                            *)

Frames(title, author, narrator) == [title |-> title, author |-> author, narrator |-> narrator]

\* A folder of audio with tags, MP4's and ID3's; and in a folder without audio
\* one that has but its name.
TwoRecordings ==
    [path \in {"gilead", "robinson/lila"} |->
        IF path = "gilead"
          THEN [mp4 |-> Frames(<<"gilead">>, Missing, Missing),
                id3 |-> Frames(<<"track", "1">>, <<"marilynne", "robinson">>, <<"tim", "jerome">>),
                name |-> <<<<"gilead">>>>, nameFirst |-> TRUE]
        ELSE [mp4 |-> NoFrames, id3 |-> NoFrames,
              name |-> <<<<"robinson">>, <<"lila">>>>, nameFirst |-> TRUE]]

MCShelf ==
    {[path |-> "gilead", file |-> FALSE, audio |-> TRUE, nested |-> {}],
     [path |-> "robinson", file |-> FALSE, audio |-> FALSE, nested |-> {"robinson/lila"}],
     [path |-> "cover.jpg", file |-> TRUE, audio |-> FALSE, nested |-> {}]}

ReadRow(title, author, status, id, rating) ==
    [title |-> title, author |-> author, status |-> status, id |-> id, rating |-> rating]

\* One is the recording's book by another hand, one the very book, one unread.
MCReadList ==
    <<ReadRow(<<"gilead">>, <<"m", "robinson">>, "read", "17", 5),
      ReadRow(<<"lila">>, <<"robinson">>, "read", "", 4),
      ReadRow(<<"jack">>, <<"robinson">>, "to-read", "18", 0)>>

Answer(description, subjects) ==
    [found |-> TRUE, description |-> description, subjects |-> subjects]

\* Each book is described by one of the two.
MCOpenLibrary == [t \in {<<"gilead">>, <<"lila">>} |->
    IF t = <<"gilead">> THEN Answer("letter", {"iowa"}) ELSE [found |-> FALSE]]

MCGoogleBooks == [t \in {<<"gilead">>, <<"lila">>} |->
    IF t = <<"gilead">> THEN Answer("", {"fiction"}) ELSE Answer("novel", {})]

(* Library: one text, and one that cannot be read.                      *)
MCSize == [c \in Content |-> IF c = "scan" THEN 9 ELSE 4]

(* FilmCatalog: a film with a plot, one without, and a name without title. *)
MCTmdb == [e \in {"ran", "reel", "x"} |->
    CASE e = "ran" -> "plot" [] e = "reel" -> "plain" [] e = "x" -> "none"]

-----------------------------------------------------------------------------
(* What is done does nothing.                                              *)
Done == [pc |-> "done"]

AllCatalogued ==
    LET paths == SetToSeq(FindBooks)
        rowsOf(type) == [n \in DOMAIN paths |->
            [NewRow(type, Metadata(paths[n]), paths[n]) EXCEPT !.description = "told"]]
    IN  /\ docs = rowsOf("storygraph_entry") \o rowsOf("audiobook")
        /\ job = Done /\ classify = <<>> /\ trouble = 0
        /\ cache = [client \in {"open_library", "google_books"} |-> <<>>]

AllRead ==
    LET text == CHOOSE c \in Content : TRUE
    IN  /\ file = [path \in BookFile |-> [content |-> text, mtime |-> 0]]
        /\ rows = <<[path |-> "", hash |-> text, stat |-> NoStat, status |-> "embedded"]>>
        /\ queue = {} /\ reader = Done /\ edits = 0 /\ hangs = 0
        /\ scan = [left |-> {}, found |-> {}, pc |-> "done"]

AllHeard ==
    LET text == [blocks |-> 1, children |-> 1]
    IN  /\ version = 1 /\ jobs = <<>> /\ watcher = Done /\ refusals = 0
        /\ session = [edited |-> 1, text |-> text, chunks |-> text, status |-> "embedded"]

AllFollowed ==
    /\ service = "none" /\ says = <<>> /\ timeline = <<>> /\ snippets = {}
    /\ run = [r \in Runner |-> Done] /\ changes = 0 /\ faults = 0

AllSeen ==
    /\ films = [e \in Entry |-> [details |-> Tmdb[e], chunks |-> "nothing"]]
    /\ orders = <<>> /\ usher = Done /\ critic = Done /\ outages = 0

AllSaid ==
    /\ profile = [bulleted |-> {}, corrected |-> {}]
    /\ past = {} /\ mailbox = {} /\ filed = {} /\ applied = {} /\ heeded = {} /\ latecomers = {}
    /\ regen = Done /\ corrector = Done /\ calm = TRUE /\ mishaps = 0

-----------------------------------------------------------------------------
SourcesInit ==
    \/ CatInit /\ AllRead /\ AllHeard /\ AllFollowed /\ AllSeen /\ AllSaid
    \/ AllCatalogued /\ LibInit /\ AllHeard /\ AllFollowed /\ AllSeen /\ AllSaid
    \/ AllCatalogued /\ AllRead /\ TherapyInit /\ AllFollowed /\ AllSeen /\ AllSaid
    \/ AllCatalogued /\ AllRead /\ AllHeard /\ FeedInit /\ AllSeen /\ AllSaid
    \/ AllCatalogued /\ AllRead /\ AllHeard /\ AllFollowed /\ FilmInit /\ AllSaid
    \/ AllCatalogued /\ AllRead /\ AllHeard /\ AllFollowed /\ AllSeen /\ ProInit

SourcesNext ==
    \/ job # Done /\ CatNext
         /\ UNCHANGED <<libVars, therapyVars, feedVars, filmVars, proVars>>
    \/ reader # Done /\ LibNext
         /\ UNCHANGED <<catVars, therapyVars, feedVars, filmVars, proVars>>
    \/ watcher # Done /\ TherapyNext
         /\ UNCHANGED <<catVars, libVars, feedVars, filmVars, proVars>>
    \/ service # "none" /\ FeedNext
         /\ UNCHANGED <<catVars, libVars, therapyVars, filmVars, proVars>>
    \/ usher # Done /\ FilmNext
         /\ UNCHANGED <<catVars, libVars, therapyVars, feedVars, proVars>>
    \/ regen # Done /\ ProNext
         /\ UNCHANGED <<catVars, libVars, therapyVars, feedVars, filmVars>>

SourcesSpec ==
    /\ SourcesInit
    /\ [][SourcesNext]_<<catVars, libVars, therapyVars, feedVars, filmVars, proVars>>
    /\ CatFairness /\ LibFairness /\ TherapyFairness
    /\ FeedFairness /\ FilmFairness /\ ProFairness
=============================================================================
