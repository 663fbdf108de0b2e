CONSTANTS
  u1 = u1
  u2 = u2
  none = none
  Users <- MCUsers
  Recipients <- MCOwnRecipients
  Amounts <- MCAmounts
  Limit <- MCLimit
  Frequency <- MCFrequency
  MaxTime <- MCMaxTime
  MaxFunds <- MCMaxFunds
  None <- none
SPECIFICATION Spec
INVARIANT TypeOK
INVARIANT Solvency
CHECK_DEADLOCK FALSE
