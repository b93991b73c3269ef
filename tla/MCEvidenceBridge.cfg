\* A plan of two slots, four requests, two outcomes, two instances, two bridgers,
\* two ways to lay the slots out, and cost reports that are wrong in one place.
SPECIFICATION CreditedSpec
CONSTANTS
  p1 = p1
  v1 = v1
  v2 = v2
  Problem = {p1}
  Version = {v1, v2}
  Place = {1, 2}
  Request <- SomeRequests
  Outcome = {o1, o2}
  Bridger = {b1, b2}
  MaxInstance = 2
  Unknown = Unknown
  Layouts <- MCLayouts
  Usage <- MCUsage
  UsageBasis = "VISIBLE_UTF8_BYTES"
  Reports <- MCReports
INVARIANTS
  BundleIsBacked
  InstanceOfItsOwn
  CreditedCostIsSigned
PROPERTIES
  BridgedIsFinal
SYMMETRY Symmetry
CHECK_DEADLOCK FALSE
