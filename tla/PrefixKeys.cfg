SPECIFICATION PrefixSpec
CONSTANTS
    Keys <- MCKeys
    Actions <- MCActions
    Keymaps <- MCKeymaps
    Parent <- MCParent
    Assigned <- MCAssigned
    DefaultSeq <- MCDefaultSeq
    ModeOf <- MCModeOf
    Windows = {"w1", "w2"}
    KeymapsOf <- MCKeymapsOf
    AdHoc <- MCAdHoc
    MaxHistory = 2
    MaxRecursion = 5
    Delay = 1
INVARIANTS
    PrefixEndsAtHome
    HistoryFollowsChain
PROPERTIES
    OneShotAlone
