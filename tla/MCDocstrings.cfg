SPECIFICATION Spec
CONSTANTS
    Worlds <- MCWorlds
    Templates <- MCTemplates
    Filters <- MCFilters
CHECK_DEADLOCK FALSE
INVARIANTS TypeOK ScrapeFailsOnlyFor SoundClassesCovered MakeTextKept PlaceholdersFilled
