CONSTANTS
  L = L
  M = M
  R = R
  Button <- MCButton
  Wheel = Wheel
  Drag = Drag
  NoButton = NoButton
SYMMETRY Buttons
SPECIFICATION MouseSpec
INVARIANTS DragKeyMatches DragOwned
