SPECIFICATION ALSpec
CONSTANTS
  Limit <- MCLimit
  MaxEvents <- MCMaxEvents
INVARIANTS
  PagesAreInOrder
  OnlyLateEventsAreSkipped
  NullMeansAll
