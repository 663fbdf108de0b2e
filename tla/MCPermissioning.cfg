CONSTANTS
  MaxTime <- MCMaxTime
  MaxUses <- MCMaxUses
  MaxCalls <- MCMaxCalls
  None = None
  Never = Never

SPECIFICATION Spec

INVARIANT TypeOK
INVARIANT IsPermissionedMatchesDoc
INVARIANT UsesNeverOverdrawn

\* Tick stops at MaxTime and consume_use at zero uses: behaviours end.
CHECK_DEADLOCK FALSE
