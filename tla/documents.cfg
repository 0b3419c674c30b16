SPECIFICATION DocumentsSpec
CONSTANTS
    KeyOrder <- TwoKeys
    Words = {"ab"}
    Numerals = {"7"}
    Dashed = {"a-b"}
    Dates = {"2024-01-01"}
    Spaced = {"x y"}
    p1 = p1
    p2 = p2
    n1 = n1
    n2 = n2
    n3 = n3
    Missing = Missing
    Processes = {p1, p2}
    Ids <- ThreeIds
    MaxFlows = 2
    Layouts <- SomeLayouts
    Elements <- SomeElements
    s1 = s1
    s2 = s2
    NoBadge = NoBadge
    Shapes = {s1, s2}
    Pools = {s1}
    Batches <- SomeBatches
    Reports <- SomeReports
    MaxAnswers = 2
    MaxTouches = 1
    Answers <- SomeAnswers
    MaxCalls = 2
CHECK_DEADLOCK FALSE
INVARIANTS
    RoundTrip
    UnreachableExact CleanPoolRuns ShownFlowsEnd
    BatchBuilt OwnOpsStamped MarkersLive DismissedAlike
    AnswersCounted ReplyKept
