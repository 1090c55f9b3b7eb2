SPECIFICATION LogSpec
CONSTANTS
    Threads = {ui, engine, reader}
    NoThread = nobody
    UI = ui
    Engine = engine
    Levels = {2, 3}
    Open = open
INVARIANTS
    NothingStranded
    TaggedByItsMessage
PROPERTIES
    TextShown
