\* Runs may overlap or follow each other; one failure.
SPECIFICATION FairSpec
CONSTANTS
  r1 = r1
  r2 = r2
  s1 = s1
  s2 = s2
  p1 = p1
  p2 = p2
  NoSub = NoSub
  Runs <- MCRuns
  Subs <- MCSubs
  Promos <- MCPromos
  Fee <- MCFee
  Usage <- MCUsage
  MaxUses <- MCMaxUses
  MinAmount <- MCMinAmount
  Pct <- MCPct
  Cents <- MCCents
  Shared <- MCShared
  MaxBonuses = 1
  MaxFaults = 1
INVARIANTS
  TypeOK
  BilledOnceUnlessOverlapping
  LimitKeptUnlessOverlapping
  CleanRunBillsAll
  EntriesExplained
PROPERTIES
  EveryRunEnds
  ImplementsBook
\* Both runs may have ended: the system then stops.
CHECK_DEADLOCK FALSE
