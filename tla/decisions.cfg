SPECIFICATION FairSpec
CONSTANTS
    ada = ada
    bo = bo
    hall = hall
    yard = yard
    moor = moor
    nobody = nobody
    Characters <- MCCharacters
    Places <- MCPlaces
    Nobody = nobody
    Where <- MCWhere
    Routes <- MCRoutes
    RepairBudget = 1
    BeatBudget = 1
    MaxHooks = 1
    Cooldown = 1
    Stages <- MCStages
    Replies <- MCReplies
    Attempts = 2
    MaxCalls = 3
    Index = 1
    Sources = {"mem", "obs"}
    PlayerActions <- MCPlayerActions
    MaxRuns = 2
INVARIANTS
    AnswersLawful
    RowsAccounted
PROPERTIES
    OracleSpec
CHECK_DEADLOCK FALSE
