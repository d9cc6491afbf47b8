\* The catalogs of the panel under requests that overlap and fail.
SPECIFICATION Spec
CONSTANTS
  ia = ia
  e1 = e1
  e2 = e2
  d0 = d0
  d1 = d1
  k1 = k1
  w1 = w1
  p0 = p0
  p1 = p1
  n1 = n1
  n2 = n2
  s1 = s1
  s2 = s2
  s3 = s3
  None = None
  Units = {ia}
  PriceEdits = {e1, e2}
  UnitOf <- MCUnitOf
  MicrosOf <- MCMicrosOf
  Quantities = {1, 2, 3, 7}
  Rows = {d0}
  NewRows = {d1, k1}
  RowEdits = {w1}
  RowOf <- MCRowOf
  TableOf <- MCTableOf
  CodeOf <- MCCodeOf
  Providers = {p0, p1}
  NewProviders = {n1, n2}
  SetDefaults = {s1, s2, s3}
  TargetOf <- MCTargetOf
  ScopeOf <- MCScopeOf
  Defaults = {p0}
  Workloads <- MCWorkloads
  MaxFaults = 1
INVARIANTS
  TypeOK
  TariffInForce
  CodesUniqueUnlessOverlapping
  OneDefaultUnlessOverlapping
