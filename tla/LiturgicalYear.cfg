CONSTANTS
    Books <- MCBooks
    Beginnings <- MCBeginnings
    Longest <- MCLongest
    Traditions <- MCTraditions
    Years <- MCYears
    Tables <- MCTables
    Pages <- FivePages
    Saints <- TwoSaints
    FeastFiles <- Files
    Subjects = {"charity"}
    MaxJobs = 2
    MaxFailures = 1
SPECIFICATION YearSpec
INVARIANTS
    TextInItsPlace
    NoTextLost
    ObservedWhereAllowed
    LostOnlyToItsEqual
    CleanRunIsComplete
PROPERTY
    ImplementsAnthology
CHECK_DEADLOCK FALSE
