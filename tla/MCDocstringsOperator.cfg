SPECIFICATION Spec
CONSTANTS
    Worlds <- MCOperatorWorlds
    Templates <- MCTemplates
    Filters <- MCBindingsFilter
CHECK_DEADLOCK FALSE
INVARIANT OwnOrBlank
