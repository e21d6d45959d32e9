CONSTANTS
    Shelf <- MCShelf
    Recordings <- TwoRecordings
    ReadList <- MCReadList
    OpenLibrary <- MCOpenLibrary
    GoogleBooks <- MCGoogleBooks
    MaxTrouble = 1
    BookFile = {"a.epub", "b.pdf"}
    Content = {"text", "scan"}
    Size <- MCSize
    Unreadable = {"scan"}
    MaxEdits = 2
    MaxHangs = 1
    MaxVersion = 3
    MaxRefusals = 2
    MaxItems = 3
    Wording = {"gm", "verse"}
    MaxChanges = 1
    MaxFaults = 1
    Entry = {"ran", "reel", "x"}
    Tmdb <- MCTmdb
    Unnamed = {"x"}
    MaxOutages = 2
    Directive = {"d1", "d2"}
    Addition = {"a1"}
    MaxMishaps = 1
SPECIFICATION SourcesSpec
INVARIANTS
    AudiobookIsCatalogued
PROPERTIES
    CatalogCompletes
    NewestIsRecorded
    LastEditIsStored
    FeedIsStored
    FilmsAreCatalogued
    DirectiveIsKept
    AdditionIsHeeded
