CONSTANTS
    r1 = r1
    r2 = r2
    slm = slm
    large = large
    None = None
    Requests = {r1, r2}
    Endpoints = {slm, large}
    Specialized = {slm}
    Frontier = {large}
    Slots = 1
    MaxStreams = 1
    MaxCrashes = 1
SPECIFICATION FairSpec
INVARIANTS TypeOK AnswersAreOnRecord SpecializedIsVerified CallsAreBounded
           ResourcesAreReturned StreamEndsAreRecorded
PROPERTIES ImplementsAudit RequestsEnd
