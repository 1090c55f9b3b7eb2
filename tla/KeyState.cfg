CONSTANTS
  Left = Left
  Letter = Letter
  Shift = Shift
  S1 = S1
  S2 = S2
  Key <- MCKey
  Button <- MCButton
  Verifiable <- MCVerifiable
  Modifier <- MCModifier
  Plain <- MCPlain
  Setting <- MCSetting
  KeysOf <- MCKeysOf
  NoSetting = NoSetting
  MaxQueue = 2
  MaxSwitch = 2
SPECIFICATION Spec
INVARIANTS CountsCoverMarks IdleHoldsNothing NothingStuck ButtonsReleased
