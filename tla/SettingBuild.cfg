SPECIFICATION Spec
CONSTANTS
    Commands <- MCCommands
    Modifiers = {"shift"}
    KnownFunctions = {"Wait"}
    Events = {"prefixed"}
    MaxSent = 6
INVARIANTS
    AssignmentsInTheirBlock
    SequencesFilled
    LastSubstWins
    ModifiersFolded
CHECK_DEADLOCK FALSE
