SPECIFICATION MCSpec
CONSTANTS
    Bad = bad
    First <- InstalledFirst
    Feeds <- AllFeeds
    Documents <- AllDocuments
    Archives <- AllArchives
    MaxBinary = 3
    MaxExtracted = 5
    MaxEntries = 3
    Targets <- FirstAndLast
    Helpers = {h1, h2}
    None = none
    Old = old
SYMMETRY HelperSymmetry
INVARIANTS
    ChoiceIsRight
    DownloadsAreJudged
    NothingLost
    HonestResult
PROPERTIES
    InstalledAsOffered
