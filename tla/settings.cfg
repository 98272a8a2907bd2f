SPECIFICATION Spec
CONSTANTS
    Ports = {6, 7}
    Typed <- MCTyped
    MaxCommands = 3
INVARIANT SettingsTypeOK
INVARIANT SettingsKept
INVARIANT LimitNeverLaxer
INVARIANT DefaultNeverTrips
CHECK_DEADLOCK FALSE
