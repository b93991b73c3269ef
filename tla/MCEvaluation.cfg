SPECIFICATION Spec
CONSTANTS
  p1 = p1
  p2 = p2
  p3 = p3
  p4 = p4
  stranger = stranger
  c1 = c1
  c2 = c2
  c3 = c3
  v = v
  AnyProblem = {p1, p2, p3, p4, stranger}
  Problem = {p1, p2, p3, p4}
  Controls <- MCControls
  ByName <- MCByName
  Candidate = v
  Order <- MCOrder
  Version = {1, 2}
  Digest <- MCDigest
  Alpha <- MCAlpha
  Bundle <- MCBundle
INVARIANTS
  DecisionIsByPriority
  PassedIsClosedTest
  PassIsMonotone
  EvaluatorsAgree
CHECK_DEADLOCK FALSE
