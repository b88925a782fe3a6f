CONSTANTS
    Experiments <- TwoExperiments
    Matches <- AllOrOne
    Created <- CreatedAt
    Batch <- OneBatch
    NoBatch = "none"
    FocusBatch = "none"
    MaxDeletes = 1
    ListOrder <- NewerFirst
    RunsIn <- RunEach
    Profile <- OneProfile
    Pasted <- SomePasted
    MaxRuns = 1
    NoData = NoData
    Columns <- ThreeRuns
    Coords <- ThreeCoords
    Grades <- TwoGrades
    Ungraded = Ungraded
    Files <- OneFile
    Texts <- OneText
    Tools <- OneTool
    Roles = {}
    Recorded <- ThinkThenEdit
    Paths <- OneFile
    Searches <- OneText
    Spans <- OneSpan
    MaxMutations = 1
    MaxChanges = 1
    Judgements <- OneJudgement
    MaxUpdates = 0
    MaxRegrades = 1
    Tasks <- TwoTasks
    Executors <- TwoExecutors
    Enabled <- OnlyOpencode
    ModelsBefore <- FirstModels
    ModelsAfter <- OtherModels
    Allowed <- SomeAllowed
    Extensions <- OneExtension
    Names <- RoleNames
    MaxRoles = 3
    Sizes <- TwoSizes
    MaxEdits = 3
    MaxLaunches = 1
    Inputs <- SomeTapes
    MaxInputs = 1
    Details <- ManyDetails
    Blank = 0
SPECIFICATION PagesSpec
INVARIANTS
    DeletedRowsGo
    NothingForeign
    PivotIsFaithful
    FocusIsListed
    RegradeIsShown
    LaunchesWhatWasShown
    TurnIsShownWhole
PROPERTIES
    DeletesWhatWasShown
    AutoSelectsOnce
    ReadingIsNotDisturbed
    SentIsRunnable
    Merges
\* A page at rest waits for its user.
CHECK_DEADLOCK FALSE
