\* Two parcels, three days, and every answer of the two date forms.
SPECIFICATION Spec
CONSTANTS
    p1 = p1
    p2 = p2
    Pins <- TwoPins
    Reported <- OneReported
    LastDay = 3
    Window = 3
    MaxSegment = 2
    Chunk = 1
    MaxScans = 2
    Promised <- OneDay
    Estimated <- TwoDays
    Posted <- Seen
    NonBusiness <- Weekend
    CalendarEnd = 8
    ClaimWindow = 3
CHECK_DEADLOCK FALSE
INVARIANTS DeadlineIsBusinessDay
PROPERTIES FileIsReplacedWhole  VerdictFollowsStandard 
