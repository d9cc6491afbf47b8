\* Three concurrent calls against one customer and its organization.
SPECIFICATION FairSpec
CONSTANTS
  r1 = r1
  r2 = r2
  r3 = r3
  c1 = c1
  p1 = p1
  k1 = k1
  k2 = k2
  NoRequest = NoRequest
  NoClient = NoClient
  NoKey = NoKey
  Requests <- MCRequests
  Customers <- MCCustomers
  PlatformClients <- MCPlatformClients
  PlatformOf <- MCPlatformOf
  Keys <- MCKeys
  SaasPrice = 1
  Jobs <- MCJobs
INVARIANTS
  TypeOK
  NoOverdraft
  RetriedChargeAnswersAlike
  AnswerMatchesLedger
  AccrualBacked
PROPERTIES
  NeverOverstatesBalance
  EveryRequestEnds
  ImplementsWallet
\* The calls of a behaviour are finite: it ends when all are answered.
CHECK_DEADLOCK FALSE
