SPECIFICATION VariedSpec
CONSTANTS
    wren = wren
    ash = ash
    hearth = hearth
    market = market
    Characters <- MCCharacters
    Places <- MCPlaces
    Undertakings <- MCNoUndertakings
    MaxIndex = 1
    MaxDisturbances = 1
    Offered <- MCOfferedOne
    Nothing = Nothing
PROPERTIES
    Heals
CHECK_DEADLOCK FALSE
