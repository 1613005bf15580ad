SPECIFICATION FairSpec
CONSTANTS
    ada = ada
    bo = bo
    cy = cy
    birth = birth
    death = death
    raid = raid
    Persons <- MCPersons
    Slots <- MCSlots
    Parents <- MCParents
    Eligible <- MCEligible
    Recorded <- MCPersons
    PhasesPerDay = 2
    Resolutions = {1, 2}
    Days = 2
    MaxIndex = 3
    Schedules <- MCSchedules
    Schedule <- MCSchedule
    Founding <- MCFounding
    MaxDisturbances = 1
INVARIANTS
    HistoryIsWhole
    Succession
PROPERTY
    PeriodsClose
CHECK_DEADLOCK FALSE
