SPECIFICATION FairSpec
CONSTANTS
    wren = wren
    home = home
    market = market
    harbour = harbour
    p1 = p1
    p2 = p2
    Items <- MCOneItem
    Actors <- MCActors
    Calls <- MCCalls
    Plans <- MCPlans
    MaxSteps = 2
    Places <- MCPlaces
    Roads <- MCRoads
    Home = home
    Nowhere = Nowhere
    MaxDisturbances = 1
INVARIANTS
    AppliedOnce
    ReportsHold
PROPERTIES
    CancelledIsOver
    Settles
