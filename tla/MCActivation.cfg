\* Two provisioners sign with one root key, the third with its own.
SPECIFICATION Spec
CONSTANTS
  p1 = p1
  p2 = p2
  p3 = p3
  Provisioner <- MCProvisioner
  Key <- MCProvisioner
  RootKey <- TwoShare
  Loader = {l1}
  NoFile = NoFile
INVARIANTS
  SuccessIsDurable
  MintedUnderALinkedRoot
  RacesEndWell
PROPERTIES
  StrandedStaysClosed
CHECK_DEADLOCK FALSE
