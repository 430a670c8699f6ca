CONSTANTS
    Names <- AllNames
    StartsWith <- SameName
    Alike <- AnyCase
    OtherLike <- LongerMatch
    Splice <- Spliced
    MaxDepth = 3
    Asked <- WildFirst
    small = small
    capital = capital
    wild = wild
    NumFiles = 4
    Null = Null
SYMMETRY Symmetry
SPECIFICATION Spec
INVARIANTS
    TypeOK
    TreeConnected
    ListsEveryChild
PROPERTY RenameMovesAll
