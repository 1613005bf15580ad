SPECIFICATION FairSpec
CONSTANTS
    wren = wren
    ash = ash
    hearth = hearth
    market = market
    Characters <- MCCharacters
    Places <- MCPlaces
    Undertakings <- MCUndertakings
    MaxIndex = 2
    MaxDisturbances = 1
    Offered <- MCOffered
    Nothing = Nothing
INVARIANTS
    CanonOnce
    TimeIsWhole
PROPERTY
    HealsUntorn
CHECK_DEADLOCK FALSE
