SPECIFICATION Spec
CONSTANTS
    T1 = T1
    A1 = A1
    A2 = A2
    C1 = C1
    Console = Console
    Nothing = Nothing
    Global = Global
    Hooked = {T1}
    Windows = {A1, A2, C1}
    Owner <- MCOwner
    WithMenu = {T1}
    Mortal = {T1}
    MaxSetting = 2
    MaxMail = 2
    MaxEnds = 1
INVARIANTS
    CurrentIsLive
    KeymapsOfThisSetting
PROPERTY FollowsFocus
