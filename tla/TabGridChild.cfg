CONSTANTS
  WebStates = {w1, w2, w3}
  NoWebState = NoWebState
  NoWindow = NoWindow
  NavIndices <- MCNavIndices
  MaxTabs = 3
SYMMETRY WebStateSymmetry
SPECIFICATION Spec

PROPERTY ClosingSelectsFirstChild
