\* A paid plan purchase is rejected for ever.
SPECIFICATION FairSpec
CONSTANTS
  q1 = q1
  q2 = q2
  p1 = p1
  c1 = c1
  c2 = c2
  w1 = w1
  w2 = w2
  NoCharge = NoCharge
  Charges <- MCMixed
  Clients <- MCClients
  ClientOf <- MCClientOf
  AmountOf <- MCAmountOf
  PurposeOf <- MCPurposeOf
  Referred <- MCReferred
  Cap = 2
  Webhooks <- MCWebhooks
  ReplyFirst = FALSE
  CommissionErrors = FALSE
  MaxFaults = 0
PROPERTY PaidPlanIsCredited
\* Every charge may have ended: the system then stops.
CHECK_DEADLOCK FALSE
