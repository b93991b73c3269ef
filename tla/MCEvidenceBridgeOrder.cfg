\* The same plan with one outcome: when is a dispatch bound?
SPECIFICATION CreditedSpec
CONSTANTS
  p1 = p1
  v1 = v1
  v2 = v2
  Problem = {p1}
  Version = {v1, v2}
  Place = {1, 2}
  Request <- SomeRequests
  Outcome = {o1}
  Bridger = {b1}
  MaxInstance = 1
  Unknown = Unknown
  Layouts <- MCLayouts
  Usage <- MCUsage
  UsageBasis = "VISIBLE_UTF8_BYTES"
  Reports <- MCReports
PROPERTIES
  BoundBeforeAnswered
CHECK_DEADLOCK FALSE
