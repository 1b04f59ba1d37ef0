CONSTANTS
    val = val
    title = title
    body = body
    SelfError = SelfError
    Joined = Joined
    Undefined = Undefined
    Star = Star
    Promises = {1, 2, 3, 4}
    Joins <- MCJoins
    Values = {val}
    Docs = {1, 2}
    Fields = {title, body}
    Texts <- MCTexts
    Queries <- MCQueries
    t1 = t1
    t2 = t2
    r1 = r1
    r2 = r2
    r3 = r3
    v1 = v1
    v2 = v2
    NoPlace = NoPlace
    Empty = Empty
    NoText = NoText
    NoCookie = NoCookie
    Places = {0, 1, 2}
    MaxTimers = 5
    Inputs = {Empty, t1, t2}
    Hits <- MCHits
    Screen = 1
    Chunk = 2
    MaxLoads = 3
    Views = {v1, v2}
    Repos = {r1, r2, r3}
    Name = r1
    PerPage = 2
    Life = 1
    LastTick = 2
    Offsets = {0, 1, 2, 3, 4}
    Layouts <- MCLayouts
    Pages <- MCPages
    n1 = n1
    n2 = n2
    n3 = n3
    Panes = {n1, n2, n3}
    Navigation = Navigation
    Outer <- MCOuter
    Full = 2
    NoLimit = NoLimit
    MaxEnds = 4
SPECIFICATION Spec
INVARIANTS
    TypeOK
    ReactionsRunOnce
    AutomatonIsTheTerms
    QueriesFindAndScore
    PlaceIsKept
    ListIsOfItsText
    FactsAreTrue
    MarksFollowScroll
    MenuIsAsOpened
    FrontScrolls
PROPERTIES
    SettledForGood
CHECK_DEADLOCK FALSE
