\* Four products: accepted and rejected ones in any order, with a late
\* outcome for each of them, and then one admission.
SPECIFICATION AdmissionSpec
CONSTANTS
  c1 = c1
  c2 = c2
  p1 = p1
  p2 = p2
  p3 = p3
  p4 = p4
  Caller <- MCCaller
  Id <- MCId
  Content = {good, bad}
  Accepted = {good}
  None = None
  solver = solver
  author = author
  judge = judge
  kp = kp
  kv = kv
  kx = kx
  Key = {kp, kv, kx}
  HonestKey = {kv}
  Policies <- MCPolicies
  KeyRings <- MCKeyRings
  Producer = {solver, author}
  Verifier = {solver, judge}
  Check = {"kernel", "review"}
  EvidenceId = {1, 2}
  MaxEvidence = 2
INVARIANTS
  EvidenceIsOfTheProduct
  AdmittedIsIndependent
PROPERTIES
  ImplementsLineage
SYMMETRY Symmetry
\* A completed chain with no call out has stopped.
CHECK_DEADLOCK FALSE
