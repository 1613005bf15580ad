SPECIFICATION FairTail
CONSTANTS
    Weapons <- MCWeapons
    Spells <- MCSpells
    Monsters <- MCMonsters
    Classes <- MCClasses
    Races <- MCRaces
    Armors <- MCArmors
    Plurals <- MCPlurals
    Priority <- MCPriority
    Kit <- MCKit
    MaxParty = 2
    Scenes = 2
    Narrations <- MCNarrations
    Sparring <- MCSparring
    Founders <- MCFounders
    Newcomers <- MCNewcomers
    Streams <- MCStreams
    Companion <- MCCompanion
    MaxLevel = 9
    MaxFaults = 1
    MaxLinks = 1
INVARIANTS
    FightsHold
    ToldIsFought
    CapHolds
PROPERTIES
    TailHeals
CHECK_DEADLOCK FALSE
