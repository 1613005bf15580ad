SPECIFICATION Spec
CONSTANTS
    wren = wren
    home = home
    market = market
    harbour = harbour
    p1 = p1
    p2 = p2
    Items <- MCItems
    Actors <- MCActors
    Calls <- MCOneCall
    Plans <- MCAttempt
    MaxSteps = 2
    Places <- MCPlaces
    Roads <- MCRoads
    Home = home
    Nowhere = Nowhere
    MaxDisturbances = 0
INVARIANTS
    AttemptsAreMade
