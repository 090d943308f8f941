SPECIFICATION Spec
CONSTANTS
  Text <- MCText
  Number <- MCNumber
  Found <- MCFound
  MaxFiles = 2
INVARIANTS
  WholePair
  PressedIsPushed
PROPERTIES
  DigitsInTurn
  SetIsShown
  CleanupReturns
