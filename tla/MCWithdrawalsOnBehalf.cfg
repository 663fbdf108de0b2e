CONSTANTS
  u1 = u1
  u2 = u2
  none = none
  Users <- MCUsers
  Recipients <- MCAnyRecipients
  Amounts <- MCAmounts
  Limit <- MCLimit
  Frequency <- MCFrequency
  MaxTime <- MCMaxTime
  MaxFunds <- MCMaxFunds
  None <- none
SPECIFICATION Spec
INVARIANT Solvency
CHECK_DEADLOCK FALSE
