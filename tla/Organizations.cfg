\* Organizations under overlapping creates, renames and changes of status, and
\* overlapping billings of their fee.
SPECIFICATION Spec
CONSTANTS
  o1 = o1
  o2 = o2
  o3 = o3
  e1 = e1
  s1 = s1
  s2 = s2
  m1 = m1
  m2 = m2
  b1 = b1
  b2 = b2
  NoSlug = NoSlug
  Creates <- MCCreates
  Edits <- MCEdits
  TargetOf <- MCTargetOf
  SlugOf <- MCSlugOf
  EmailOf <- MCEmailOf
  Runs <- MCRuns
  PeriodOf <- MCPeriodOf
  Fee = 99
  MaxFaults = 2
INVARIANTS
  TypeOK
  SlugsUnique
  ReportsMatchFees
PROPERTIES
  EveryRequestEnds
  ImplementsRegistry
