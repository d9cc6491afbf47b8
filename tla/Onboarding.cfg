\* Concurrent and repeated onboardings, each with a failure at any statement.
SPECIFICATION Spec
CONSTANTS
  a1 = a1
  a2 = a2
  a3 = a3
  k1 = k1
  m1 = m1
  r1 = r1
  e1 = e1
  e2 = e2
  p1 = p1
  p2 = p2
  x0 = x0
  x1 = x1
  d1 = d1
  NoCall = NoCall
  NoRef = NoRef
  NoReferrer = NoReferrer
  Calls <- MCCalls
  KindOf <- MCKindOf
  RefOf <- MCRefOf
  RfcOf <- MCRfcOf
  GenericRfc = x0
  EmailOf <- MCEmailOf
  PlanOf <- MCPlanOf
  Plans <- MCPlans
  Active <- MCPlans
  CreditOf <- MCCreditOf
  BonusOf <- MCBonusOf
  WithPromo <- MCCalls
  MaxUses = 2
  ReferrerOf <- MCReferrerOf
  ClosingUses = 2
  MaxFaults = 1
INVARIANTS
  TypeOK
  PromotionCounted
  ToldIsTrue
PROPERTIES
  EveryCallEnds
  ImplementsEnrolment
