SPECIFICATION Spec
CONSTANTS
    Runs = {r1, r2}
    Roles = {"DEVELOPMENT", "SUBMISSION"}
    MaxIntents = 3
    MaxTime = 3
    MaxPhase <- TwoSessions
    MaxReviews = 1
    Cash <- PowersOfTwo
    MaxRecords = 1
    None = None
SYMMETRY Symmetry
CHECK_DEADLOCK FALSE
INVARIANTS
    FillsAreRecordable
    BookMatchesBroker
    
    ArchiveBreaksOnlyByLateReview
    StoryCanBeTold
